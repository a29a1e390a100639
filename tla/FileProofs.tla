----------------------------- MODULE FileProofs -----------------------------
(* The theorems about files: the history of shared vaults (SharedHistory), the worker that embeds          *)
(* (EmbedWorker), the vectors of notes (Vectors) and folders over WebDAV (DavTree).                        *)
EXTENDS SharedHistory, EmbedWorker, Vectors, DavTree, FiniteSetTheorems, SequenceTheorems, TLAPS

-----------------------------------------------------------------------------
(* The theorem about SharedHistory: for any number of authors, notes, texts, changes and stops, what the   *)
(* history names is stored, and what was replaced is in it.                                                *)

Steps == {"none", "put", "delete", "move", "move write", "move delete", "keep", "row", "previous", "restore", "mark"}
Edit == [step : Steps, op : {"none", "put", "delete", "move"}, path : PathOrNone, to : PathOrNone,
         before : Content, text : Content, restores : 0..MaxChanges]
Row == [path : PathOrNone, action : {"none", "created", "updated", "deleted", "moved"},
        before : Content, after : Content, restores : 0..MaxChanges]

(* Where a request is, it has a path. *)
Shape(e) ==
  /\ e.step # "none" => e.path \in NotePath
  /\ e.step \in {"move", "move write", "move delete"} => e.to \in NotePath
  /\ e.step \in {"put", "move write", "move delete", "previous", "restore"} => e.text \in Text

HistoryTypes == HistoryTypeOK /\ \A a \in Author : Shape(edit[a])

(* Every text that was ever there is kept, or is about to be kept by a request that knows it as what it    *)
(* replaced or as what it left; whether a note holds it still does not matter.                             *)
HistoryHeld(text) ==
  text \in blob \/ text \in cut \/ \E a \in Author : edit[a].step = "keep" /\ text \in {edit[a].before, edit[a].text}
AllHeld == \A text \in written : HistoryHeld(text)

(* What requests have read was there; what they put back is stored. *)
Read ==
  /\ \A p \in NotePath : note[p] \in written \cup {NoText}
  /\ \A a \in Author :
       /\ edit[a].before \in written \cup {NoText}
       /\ edit[a].step \in {"move write", "move delete"} => edit[a].text \in written
       /\ edit[a].step \in {"previous", "restore"} => edit[a].text \in blob
       /\ edit[a].step = "row" => {edit[a].before, edit[a].text} \ {NoText} \subseteq blob

RowsNamed == \A i \in 1..count : change[i].path \in NotePath

HistoryIInv == HistoryTypes /\ RowsHaveBlobs /\ RowsNamed /\ AllHeld /\ Read

LEMMA HistoryBounds == MaxChanges \in Nat /\ MaxStops \in Nat /\ NoText \notin Text
<1>1. MaxChanges \in {MaxChanges, MaxStops} /\ MaxStops \in {MaxChanges, MaxStops}
  OBVIOUS
<1>2. QED
  BY <1>1, HistoryAssumption

USE HistoryBounds
-----------------------------------------------------------------------------
LEMMA NoEditType == NoEdit \in Edit /\ Shape(NoEdit) /\ NoChange \in Row
BY DEF NoEdit, Edit, Steps, Shape, NoChange, Row, PathOrNone, Content

(* The types, and the shapes, as the steps below use them. *)
LEMMA TypeFacts == HistoryIInv =>
  /\ begun \in 0..MaxChanges /\ count \in 0..MaxChanges /\ stops \in 0..MaxStops
  /\ note \in [NotePath -> Content] /\ blob \subseteq Text /\ written \subseteq Text /\ cut \subseteq Content
  /\ change \in [1..MaxChanges -> Row] /\ edit \in [Author -> Edit]
BY DEF HistoryIInv, HistoryTypes, HistoryTypeOK, Edit, Steps, Row

LEMMA HistoryInitHolds == HistoryInit => HistoryIInv
<1> SUFFICES ASSUME HistoryInit PROVE HistoryIInv
  OBVIOUS
<1>1. edit \in [Author -> Edit] /\ change \in [1..MaxChanges -> Row]
  BY NoEditType DEF HistoryInit
<1>2. HistoryTypeOK
  <2>1. begun \in 0..MaxChanges /\ count \in 0..MaxChanges /\ stops \in 0..MaxStops
    BY DEF HistoryInit
  <2>2. note \in [NotePath -> Content] /\ blob \subseteq Text /\ written \subseteq Text /\ cut \subseteq Content
    BY DEF HistoryInit, Content
  <2>3. QED
    BY <1>1, <2>1, <2>2 DEF HistoryTypeOK, Edit, Row, Steps
<1>3. \A a \in Author : edit[a] = NoEdit /\ NoEdit.step = "none" /\ NoEdit.before = NoText
  BY DEF HistoryInit, NoEdit
<1>4. HistoryTypes
  BY <1>2, <1>3, NoEditType DEF HistoryTypes
<1>5. RowsHaveBlobs /\ RowsNamed /\ AllHeld
  BY DEF HistoryInit, RowsHaveBlobs, RowsNamed, AllHeld
<1>6. Read
  BY <1>3 DEF HistoryInit, Read
<1>7. QED
  BY <1>4, <1>5, <1>6 DEF HistoryIInv

(* A request that reads: it alone changes, and the number of changes begun. *)
LEMMA ReadHolds ==
  ASSUME HistoryIInv, NEW a \in Author, NEW e \in Edit, Sets(a, e), begun' \in 0..MaxChanges,
         UNCHANGED <<note, blob, change, count, stops, written, cut>>,
         Shape(e), edit[a].step # "keep", e.before \in written \cup {NoText},
         e.step \in {"move write", "move delete"} => e.text \in written,
         e.step \in {"previous", "restore"} => e.text \in blob, e.step # "row"
  PROVE  HistoryIInv'
<1>1. edit' \in [Author -> Edit] /\ edit'[a] = e /\ \A b \in Author : b # a => edit'[b] = edit[b]
  BY DEF Sets, HistoryIInv, HistoryTypes, HistoryTypeOK, Edit, Steps
<1>2. HistoryTypes'
  BY <1>1 DEF HistoryIInv, HistoryTypes, HistoryTypeOK, Edit, Steps
<1>3. RowsHaveBlobs' /\ RowsNamed'
  BY DEF HistoryIInv, RowsHaveBlobs, RowsNamed
<1>4. AllHeld'
  <2> SUFFICES ASSUME NEW text \in written PROVE HistoryHeld(text)'
    BY DEF AllHeld
  <2>1. CASE text \in blob \/ text \in cut
    BY <2>1 DEF HistoryHeld
  <2>2. CASE \E b \in Author : edit[b].step = "keep" /\ text \in {edit[b].before, edit[b].text}
    BY <1>1, <2>2 DEF HistoryHeld
  <2>3. QED
    BY <2>1, <2>2 DEF HistoryIInv, AllHeld, HistoryHeld
<1>5. Read'
  BY <1>1 DEF HistoryIInv, Read
<1>6. QED
  BY <1>2, <1>3, <1>4, <1>5 DEF HistoryIInv

(* A request that writes: it is about to keep the text, or the text was there before. *)
LEMMA HistoryWriteHolds ==
  ASSUME HistoryIInv, NEW a \in Author, NEW e \in Edit, Sets(a, e), NEW p \in NotePath, NEW text \in Content,
         Holds(p, text), UNCHANGED <<begun, blob, change, count, stops, cut>>,
         Shape(e), edit[a].step # "keep", e.step \in {"none", "keep", "mark", "move delete"},
         e.before \in written \cup {NoText}, e.step = "move delete" => e.text \in written,
         text \in written \cup {NoText} \/ text \in blob \/ (e.step = "keep" /\ e.text = text)
  PROVE  HistoryIInv'
<1>1. edit' \in [Author -> Edit] /\ edit'[a] = e /\ \A b \in Author : b # a => edit'[b] = edit[b]
  BY DEF Sets, HistoryIInv, HistoryTypes, HistoryTypeOK, Edit, Steps
<1>2. written' = written \cup ({text} \ {NoText}) /\ written' \subseteq Text
  BY DEF Holds, HistoryIInv, HistoryTypes, HistoryTypeOK, Content
<1>3. note' \in [NotePath -> Content] /\ \A q \in NotePath : note'[q] = IF q = p THEN text ELSE note[q]
  BY DEF Holds, HistoryIInv, HistoryTypes, HistoryTypeOK
<1>4. HistoryTypes'
  BY <1>1, <1>2, <1>3 DEF HistoryIInv, HistoryTypes, HistoryTypeOK, Edit, Steps
<1>5. RowsHaveBlobs' /\ RowsNamed'
  BY DEF HistoryIInv, RowsHaveBlobs, RowsNamed
<1>6. ASSUME NEW t \in written' PROVE HistoryHeld(t)'
  <2>1. CASE t \in written
    <3>1. CASE t \in blob \/ t \in cut
      BY <3>1 DEF HistoryHeld
    <3>2. CASE \E b \in Author : edit[b].step = "keep" /\ t \in {edit[b].before, edit[b].text}
      BY <1>1, <3>2 DEF HistoryHeld
    <3>3. QED
      BY <2>1, <3>1, <3>2 DEF HistoryIInv, AllHeld, HistoryHeld
  <2>2. CASE t = text /\ t \notin written
    BY <1>1, <1>2, <2>2 DEF HistoryHeld
  <2>3. QED
    BY <1>2, <2>1, <2>2
<1>7. Read'
  BY <1>1, <1>2, <1>3 DEF HistoryIInv, Read
<1>8. QED
  BY <1>4, <1>5, <1>6, <1>7 DEF HistoryIInv, AllHeld

-----------------------------------------------------------------------------
LEMMA BeginHolds ==
  ASSUME HistoryIInv, NEW a \in Author, BeginPut(a) \/ BeginDelete(a) \/ BeginMove(a) \/ BeginRestore(a)
  PROVE  HistoryIInv'
<1>0. NewChange(a)
  BY DEF BeginPut, BeginDelete, BeginMove, BeginRestore
<1>1. edit[a].step # "keep" /\ begun' \in 0..MaxChanges
  BY <1>0, TypeFacts DEF NewChange, Is
<1>2. CASE BeginPut(a)
  <2>1. PICK p \in NotePath, text \in Text :
          Sets(a, [NoEdit EXCEPT !.step = "put", !.op = "put", !.path = p, !.before = note[p], !.text = text])
    BY <1>2 DEF BeginPut
  <2> DEFINE e == [NoEdit EXCEPT !.step = "put", !.op = "put", !.path = p, !.before = note[p], !.text = text]
  <2>2. note[p] \in Content /\ note[p] \in written \cup {NoText}
    BY TypeFacts DEF HistoryIInv, Read
  <2>3. e \in Edit /\ e.before = note[p] /\ e.step = "put" /\ Shape(e)
    <3>1. /\ e.step = "put" /\ e.op = "put" /\ e.path = p /\ e.before = note[p] /\ e.restores = 0
          /\ e.to = "none" /\ e.text = text
      BY DEF NoEdit
    <3>2. e \in Edit
      BY <2>2, NoEditType DEF Edit, Steps, PathOrNone, Content
    <3>3. QED
      BY <3>1, <3>2 DEF Shape
  <2>4. Sets(a, e)
    BY <2>1
  <2> HIDE DEF e
  <2>5. QED
    BY <1>1, <1>2, <2>2, <2>3, <2>4, ReadHolds DEF BeginPut
<1>3. CASE BeginDelete(a)
  <2>1. PICK p \in NotePath :
          Sets(a, [NoEdit EXCEPT !.step = "delete", !.op = "delete", !.path = p, !.before = note[p]])
    BY <1>3 DEF BeginDelete
  <2> DEFINE e == [NoEdit EXCEPT !.step = "delete", !.op = "delete", !.path = p, !.before = note[p]]
  <2>2. note[p] \in Content /\ note[p] \in written \cup {NoText}
    BY TypeFacts DEF HistoryIInv, Read
  <2>3. e \in Edit /\ e.before = note[p] /\ e.step = "delete" /\ Shape(e)
    <3>1. /\ e.step = "delete" /\ e.op = "delete" /\ e.path = p /\ e.before = note[p] /\ e.restores = 0
          /\ e.to = "none" /\ e.text = NoText
      BY DEF NoEdit
    <3>2. e \in Edit
      BY <2>2, NoEditType DEF Edit, Steps, PathOrNone, Content
    <3>3. QED
      BY <3>1, <3>2 DEF Shape
  <2>4. Sets(a, e)
    BY <2>1
  <2> HIDE DEF e
  <2>5. QED
    BY <1>1, <1>3, <2>2, <2>3, <2>4, ReadHolds DEF BeginDelete
<1>4. CASE BeginMove(a)
  <2>1. PICK p \in NotePath, to \in NotePath :
          Sets(a, [NoEdit EXCEPT !.step = "move", !.op = "move", !.path = p, !.to = to, !.before = note[p]])
    BY <1>4 DEF BeginMove
  <2> DEFINE e == [NoEdit EXCEPT !.step = "move", !.op = "move", !.path = p, !.to = to, !.before = note[p]]
  <2>2. note[p] \in Content /\ note[p] \in written \cup {NoText}
    BY TypeFacts DEF HistoryIInv, Read
  <2>3. e \in Edit /\ e.before = note[p] /\ e.step = "move" /\ Shape(e)
    <3>1. /\ e.step = "move" /\ e.op = "move" /\ e.path = p /\ e.before = note[p] /\ e.restores = 0
          /\ e.to = to /\ e.text = NoText
      BY DEF NoEdit
    <3>2. e \in Edit
      BY <2>2, NoEditType DEF Edit, Steps, PathOrNone, Content
    <3>3. QED
      BY <3>1, <3>2 DEF Shape
  <2>4. Sets(a, e)
    BY <2>1
  <2> HIDE DEF e
  <2>5. QED
    BY <1>1, <1>4, <2>2, <2>3, <2>4, ReadHolds DEF BeginMove
<1>5. CASE BeginRestore(a)
  <2>1. PICK c \in 1..count :
          /\ Restorable(c) /\ change[c].before \in blob
          /\ Sets(a, [NoEdit EXCEPT !.step = "previous", !.op = "put", !.path = change[c].path,
                                    !.text = change[c].before, !.restores = c])
    BY <1>5 DEF BeginRestore
  <2> DEFINE e == [NoEdit EXCEPT !.step = "previous", !.op = "put", !.path = change[c].path,
                                 !.text = change[c].before, !.restores = c]
  <2>2. c \in 1..MaxChanges /\ change[c].before \in Text
    BY <2>1, TypeFacts
  <2>3. change[c].path \in NotePath
    BY <2>1 DEF HistoryIInv, RowsNamed
  <2>4. e \in Edit /\ Shape(e) /\ e.before = NoText /\ e.step = "previous" /\ e.text \in blob
    <3>1. /\ e.step = "previous" /\ e.op = "put" /\ e.path = change[c].path /\ e.before = NoText /\ e.restores = c
          /\ e.to = "none" /\ e.text = change[c].before
      BY DEF NoEdit
    <3>a. c \in 0..MaxChanges /\ change[c].path \in PathOrNone /\ change[c].before \in Content
      BY <2>2, <2>3 DEF PathOrNone, Content
    <3>2. e \in Edit
      BY <3>a, NoEditType DEF Edit, Steps
    <3>3. QED
      BY <2>1, <2>2, <2>3, <3>1, <3>2 DEF Shape
  <2>5. Sets(a, e)
    BY <2>1
  <2> HIDE DEF e
  <2>6. QED
    BY <1>1, <1>5, <2>4, <2>5, ReadHolds DEF BeginRestore
<1>6. QED
  BY <1>2, <1>3, <1>4, <1>5

LEMMA EditType ==
  ASSUME HistoryIInv, NEW a \in Author
  PROVE  edit[a] \in Edit /\ Shape(edit[a]) /\ edit[a].before \in written \cup {NoText}
BY DEF HistoryIInv, HistoryTypes, HistoryTypeOK, Edit, Steps, Read

(* The requests that go on without writing. *)
LEMMA GoOnHolds ==
  ASSUME HistoryIInv, NEW a \in Author, MoveRead(a) \/ RestorePrevious(a) PROVE HistoryIInv'
<1> DEFINE e == edit[a]
<1>1. e \in Edit /\ Shape(e) /\ e.before \in written \cup {NoText}
  BY EditType
<1>2. begun' \in 0..MaxChanges
  BY DEF MoveRead, RestorePrevious, HistoryIInv, HistoryTypes, HistoryTypeOK
<1>3. CASE MoveRead(a)
  <2>0. e.path \in NotePath /\ e.to \in NotePath
    BY <1>1, <1>3 DEF MoveRead, Is, Shape
  <2>1. CASE note[e.path] = NoText
    <3>1. Sets(a, NoEdit) /\ NoEdit.step = "none" /\ NoEdit.before = NoText
      BY <1>3, <2>1 DEF MoveRead, Over, Sets, NoEdit
    <3>2. QED
      BY <1>2, <1>3, <3>1, NoEditType, ReadHolds DEF MoveRead, Is
  <2>2. CASE note[e.path] # NoText
    <3> DEFINE n == [e EXCEPT !.step = "move write", !.text = note[e.path]]
    <3>1. note[e.path] \in Text /\ note[e.path] \in written
      BY <2>0, <2>2 DEF HistoryIInv, HistoryTypes, HistoryTypeOK, Content, Read
    <3>2. n \in Edit /\ Shape(n) /\ n.before = e.before /\ n.step = "move write" /\ n.text = note[e.path]
      BY <1>1, <2>0, <3>1 DEF Edit, Steps, Shape, Content
    <3>3. Sets(a, n)
      BY <1>3, <2>2 DEF MoveRead
    <3> HIDE DEF n
    <3>4. QED
      BY <1>1, <1>2, <1>3, <3>1, <3>2, <3>3, ReadHolds DEF MoveRead, Is
  <2>3. QED
    BY <2>1, <2>2
<1>4. CASE RestorePrevious(a)
  <2> DEFINE n == [e EXCEPT !.step = "restore", !.before = note[e.path]]
  <2>1. e.step = "previous" /\ e.path \in NotePath /\ e.text \in Text /\ e.text \in blob
    BY <1>1, <1>4 DEF RestorePrevious, Is, Shape, HistoryIInv, Read
  <2>2. note[e.path] \in Content /\ note[e.path] \in written \cup {NoText}
    BY <2>1 DEF HistoryIInv, HistoryTypes, HistoryTypeOK, Read
  <2>3. n \in Edit /\ Shape(n) /\ n.before = note[e.path] /\ n.step = "restore" /\ n.text = e.text
    BY <1>1, <2>1, <2>2 DEF Edit, Steps, Shape
  <2>4. Sets(a, n)
    BY <1>4 DEF RestorePrevious
  <2> HIDE DEF n
  <2>5. QED
    BY <1>2, <1>4, <2>1, <2>2, <2>3, <2>4, ReadHolds DEF RestorePrevious
<1>5. QED
  BY <1>3, <1>4

(* Nothing is done: the request is over. *)
LEMMA RefusedHolds ==
  ASSUME HistoryIInv, NEW a \in Author, Over(a), edit[a].step # "keep",
         UNCHANGED <<begun, note, blob, change, count, stops, written, cut>>
  PROVE  HistoryIInv'
<1>1. Sets(a, NoEdit) /\ NoEdit.step = "none" /\ NoEdit.before = NoText /\ begun' \in 0..MaxChanges
  BY DEF Over, Sets, NoEdit, HistoryIInv, HistoryTypes, HistoryTypeOK
<1>2. QED
  BY <1>1, NoEditType, ReadHolds

LEMMA PutHolds ==
  ASSUME HistoryIInv, NEW a \in Author, Put(a) PROVE HistoryIInv'
<1> DEFINE e == edit[a]
<1>1. e \in Edit /\ Shape(e) /\ e.before \in written \cup {NoText} /\ e.step = "put"
  BY EditType DEF Put, Is
<1>2. e.path \in NotePath /\ e.text \in Text /\ e.text \in Content
  BY <1>1 DEF Shape, Content
<1>3. CASE Over(a) /\ Unwritten
  BY <1>1, <1>3, RefusedHolds DEF Put, Unwritten
<1>4. CASE Holds(e.path, e.text) /\ e.before = e.text /\ Over(a)
  <2>1. Sets(a, NoEdit) /\ NoEdit.step = "none" /\ NoEdit.before = NoText
    BY <1>4 DEF Over, Sets, NoEdit
  <2>2. QED
    BY <1>1, <1>2, <1>4, <2>1, NoEditType, HistoryWriteHolds DEF Put
<1>5. CASE Holds(e.path, e.text) /\ GoesTo(a, "keep")
  <2> DEFINE n == [e EXCEPT !.step = "keep"]
  <2>1. n \in Edit /\ Shape(n) /\ n.before = e.before /\ n.text = e.text /\ n.step = "keep"
    BY <1>1, <1>2 DEF Edit, Steps, Shape
  <2>2. Sets(a, n)
    BY <1>5 DEF GoesTo, Sets
  <2> HIDE DEF n
  <2>3. QED
    BY <1>1, <1>2, <1>5, <2>1, <2>2, HistoryWriteHolds DEF Put
<1>6. QED
  BY <1>3, <1>4, <1>5 DEF Put

LEMMA DeleteHolds ==
  ASSUME HistoryIInv, NEW a \in Author, Delete(a) PROVE HistoryIInv'
<1> DEFINE e == edit[a]
<1>1. e \in Edit /\ Shape(e) /\ e.before \in written \cup {NoText} /\ e.step = "delete"
  BY EditType DEF Delete, Is
<1>2. e.path \in NotePath /\ NoText \in Content
  BY <1>1 DEF Shape, Content
<1>3. CASE Over(a) /\ Unwritten
  BY <1>1, <1>3, RefusedHolds DEF Delete, Unwritten
<1>4. CASE Holds(e.path, NoText) /\ Over(a)
  <2>1. Sets(a, NoEdit) /\ NoEdit.step = "none" /\ NoEdit.before = NoText
    BY <1>4 DEF Over, Sets, NoEdit
  <2>2. QED
    BY <1>1, <1>2, <1>4, <2>1, NoEditType, HistoryWriteHolds DEF Delete
<1>5. CASE Holds(e.path, NoText) /\ GoesTo(a, "keep")
  <2> DEFINE n == [e EXCEPT !.step = "keep"]
  <2>1. n \in Edit /\ Shape(n) /\ n.before = e.before /\ n.step = "keep"
    BY <1>1, <1>2 DEF Edit, Steps, Shape
  <2>2. Sets(a, n)
    BY <1>5 DEF GoesTo, Sets
  <2> HIDE DEF n
  <2>3. QED
    BY <1>1, <1>2, <1>5, <2>1, <2>2, HistoryWriteHolds DEF Delete
<1>6. QED
  BY <1>3, <1>4, <1>5 DEF Delete

LEMMA MoveHolds ==
  ASSUME HistoryIInv, NEW a \in Author, MoveWrite(a) \/ MoveDelete(a) PROVE HistoryIInv'
<1> DEFINE e == edit[a]
<1>1. e \in Edit /\ Shape(e) /\ e.before \in written \cup {NoText} /\ e.step \in {"move write", "move delete"}
  BY EditType DEF MoveWrite, MoveDelete, Is
<1>2. e.path \in NotePath /\ e.to \in NotePath /\ e.text \in Text /\ e.text \in Content /\ NoText \in Content
      /\ e.text \in written /\ e.before \in Content
  BY <1>1 DEF Shape, Content, Edit, HistoryIInv, Read
<1>3. CASE MoveWrite(a)
  <2> DEFINE n == [e EXCEPT !.step = "move delete"]
  <2>1. n \in Edit /\ Shape(n) /\ n.before = e.before /\ n.text = e.text /\ n.step = "move delete"
    BY <1>1, <1>2 DEF Edit, Steps, Shape
  <2>2. Sets(a, n)
    BY <1>3 DEF MoveWrite, GoesTo, Sets
  <2> HIDE DEF n
  <2>3. QED
    BY <1>1, <1>2, <1>3, <2>1, <2>2, HistoryWriteHolds DEF MoveWrite
<1>4. CASE MoveDelete(a)
  <2>1. CASE note[e.path] = NoText
    <3>1. Sets(a, NoEdit) /\ NoEdit.step = "none" /\ NoEdit.before = NoText
      BY <1>4, <2>1 DEF MoveDelete, Over, Sets, NoEdit
    <3>2. QED
      BY <1>1, <1>2, <1>4, <3>1, NoEditType, HistoryWriteHolds DEF MoveDelete
  <2>2. CASE note[e.path] # NoText
    <3> DEFINE n == [e EXCEPT !.step = "keep", !.path = e.to, !.text = e.before]
    <3>1. n \in Edit /\ Shape(n) /\ n.before = e.before /\ n.step = "keep"
      BY <1>1, <1>2 DEF Edit, Steps, Shape, PathOrNone
    <3>2. Sets(a, n)
      BY <1>4, <2>2 DEF MoveDelete
    <3> HIDE DEF n
    <3>3. QED
      BY <1>1, <1>2, <1>4, <3>1, <3>2, HistoryWriteHolds DEF MoveDelete
  <2>3. QED
    BY <2>1, <2>2
<1>5. QED
  BY <1>3, <1>4

LEMMA RestorePutHolds ==
  ASSUME HistoryIInv, NEW a \in Author, RestorePut(a) PROVE HistoryIInv'
<1> DEFINE e == edit[a]
           n == [e EXCEPT !.step = IF e.before = e.text THEN "mark" ELSE "keep"]
<1>1. e \in Edit /\ Shape(e) /\ e.before \in written \cup {NoText} /\ e.step = "restore"
  BY EditType DEF RestorePut, Is
<1>2. e.path \in NotePath /\ e.text \in Content /\ e.text \in blob
  BY <1>1 DEF Shape, Content, HistoryIInv, Read
<1>3. n \in Edit /\ Shape(n) /\ n.before = e.before /\ n.step \in {"keep", "mark"}
  BY <1>1, <1>2 DEF Edit, Steps, Shape
<1>4. Sets(a, n)
  BY DEF RestorePut, GoesTo, Sets
<1> HIDE DEF n
<1>5. QED
  BY <1>1, <1>2, <1>3, <1>4, HistoryWriteHolds DEF RestorePut

(* The texts that a request knew go into the history, or a stop cuts them off. *)
LEMMA KeepHolds ==
  ASSUME HistoryIInv, NEW a \in Author, Keep(a) \/ Stop(a) PROVE HistoryIInv'
<1> DEFINE e == edit[a]
           texts == {e.before, e.text}
<1>1. e \in Edit /\ Shape(e) /\ e.before \in written \cup {NoText}
  BY EditType
<1>2. e.before \in Content /\ e.text \in Content
  BY <1>1 DEF Edit
<1>3. \/ edit'[a] = [e EXCEPT !.step = "row"] /\ e.step = "keep"
      \/ edit'[a] = NoEdit
  BY DEF Keep, Stop, Is, GoesTo, Over, HistoryIInv, HistoryTypes, HistoryTypeOK
<1>4. edit'[a] \in Edit /\ Shape(edit'[a])
  BY <1>1, <1>3, NoEditType DEF Edit, Steps, Shape
<1>5. \A b \in Author : b # a => edit'[b] = edit[b]
  BY DEF Keep, Stop, GoesTo, Over, HistoryIInv, HistoryTypes, HistoryTypeOK
<1>6. edit' \in [Author -> Edit]
  BY <1>4 DEF Keep, Stop, GoesTo, Over, HistoryIInv, HistoryTypes, HistoryTypeOK, Edit, Steps
<1>7. /\ blob \subseteq blob' /\ blob' \subseteq Text /\ cut \subseteq cut' /\ cut' \subseteq Content
      /\ stops' \in 0..MaxStops
  <2>1. CASE Keep(a)
    BY <1>2, <2>1, TypeFacts DEF Keep, Content
  <2>2. CASE Stop(a)
    BY <1>2, <2>2, TypeFacts DEF Stop
  <2>3. QED
    BY <2>1, <2>2
<1>8. UNCHANGED <<begun, note, change, count, written>>
  BY DEF Keep, Stop
<1>9. HistoryTypes'
  BY <1>4, <1>5, <1>6, <1>7, <1>8 DEF HistoryIInv, HistoryTypes, HistoryTypeOK, Edit, Steps
<1>10. RowsHaveBlobs' /\ RowsNamed'
  BY <1>7, <1>8 DEF HistoryIInv, RowsHaveBlobs, RowsNamed
<1>11. ASSUME NEW text \in written PROVE HistoryHeld(text)'
  <2>1. text \in texts => text \in blob' \/ text \in cut'
    BY DEF Keep, Stop, HistoryIInv, HistoryTypes, HistoryTypeOK
  <2>2. CASE text \in blob \/ text \in cut
    BY <1>7, <2>2 DEF HistoryHeld
  <2>3. ASSUME NEW b \in Author, edit[b].step = "keep", text \in {edit[b].before, edit[b].text} PROVE HistoryHeld(text)'
    <3>1. CASE b = a
      BY <2>1, <2>3, <3>1 DEF HistoryHeld
    <3>2. CASE b # a
      BY <1>5, <2>3, <3>2 DEF HistoryHeld
    <3>3. QED
      BY <3>1, <3>2
  <2>4. QED
    BY <2>2, <2>3 DEF HistoryIInv, AllHeld, HistoryHeld
<1>12. Read'
  <2>1. edit'[a].before \in written \cup {NoText} /\ edit'[a].step \in {"row", "none"}
    BY <1>1, <1>3 DEF NoEdit, Edit
  <2>2. edit'[a].step = "row" => {edit'[a].before, edit'[a].text} \ {NoText} \subseteq blob'
    <3>1. CASE Keep(a)
      <4>1. edit'[a] = [e EXCEPT !.step = "row"] /\ blob' = blob \cup ({e.before, e.text} \ {NoText})
        BY <3>1, TypeFacts DEF Keep, GoesTo
      <4>2. edit'[a].before = e.before /\ edit'[a].text = e.text
        BY <1>1, <4>1 DEF Edit
      <4>3. QED
        BY <4>1, <4>2
    <3>2. CASE Stop(a)
      BY <3>2, TypeFacts DEF Stop, Over, NoEdit
    <3>3. QED
      BY <3>1, <3>2
  <2>3. \A p \in NotePath : note'[p] \in written' \cup {NoText}
    BY <1>8 DEF HistoryIInv, Read
  <2>4. ASSUME NEW b \in Author, b # a
        PROVE  /\ edit'[b].before \in written' \cup {NoText}
               /\ edit'[b].step \in {"move write", "move delete"} => edit'[b].text \in written'
               /\ edit'[b].step \in {"previous", "restore"} => edit'[b].text \in blob'
               /\ edit'[b].step = "row" => {edit'[b].before, edit'[b].text} \ {NoText} \subseteq blob'
    BY <1>5, <1>7, <1>8, <2>4 DEF HistoryIInv, Read
  <2>5. QED
    BY <1>8, <2>1, <2>2, <2>3, <2>4 DEF Read
<1>13. QED
  BY <1>8, <1>9, <1>10, <1>11, <1>12 DEF HistoryIInv, AllHeld

(* Only a row is added, or the mark of one is set. *)
LEMMA RowHolds ==
  ASSUME HistoryIInv, NEW a \in Author, AddRow(a) \/ Mark(a) PROVE HistoryIInv'
<1> DEFINE e == edit[a]
<1>1. e \in Edit /\ Shape(e) /\ e.before \in written \cup {NoText} /\ e.step \in {"row", "mark"}
  BY EditType DEF AddRow, Mark, Is
<1>2. edit'[a] \in {NoEdit, [e EXCEPT !.step = "mark"]} /\ \A b \in Author : b # a => edit'[b] = edit[b]
  BY DEF AddRow, Mark, GoesTo, Over, HistoryIInv, HistoryTypes, HistoryTypeOK
<1>3. edit'[a] \in Edit /\ Shape(edit'[a])
  BY <1>1, <1>2, NoEditType DEF Edit, Steps, Shape
<1>4. edit' \in [Author -> Edit]
  BY <1>3 DEF AddRow, Mark, GoesTo, Over, HistoryIInv, HistoryTypes, HistoryTypeOK, Edit, Steps
<1>5. UNCHANGED <<begun, note, blob, stops, written, cut>>
  BY DEF AddRow, Mark
<1>6. /\ count' \in 0..MaxChanges /\ change' \in [1..MaxChanges -> Row] /\ RowsHaveBlobs' /\ RowsNamed'
  <2>0. change \in [1..MaxChanges -> Row] /\ count \in 0..MaxChanges /\ MaxChanges \in Nat
    BY TypeFacts
  <2>1. CASE AddRow(a)
    <3> DEFINE row == [path |-> e.path, action |-> Action(e), before |-> e.before, after |-> e.text, restores |-> 0]
    <3>1. Action(e) \in {"created", "updated", "deleted", "moved"}
      BY DEF Action
    <3>2. row \in Row /\ row.path = e.path /\ row.before = e.before /\ row.after = e.text
      BY <1>1, <3>1 DEF Row, Edit
    <3>3. e.path \in NotePath /\ {e.before, e.text} \ {NoText} \subseteq blob
      BY <1>1, <2>1 DEF AddRow, Is, Shape, HistoryIInv, Read
    <3>4. count + 1 \in 1..MaxChanges /\ count' = count + 1 /\ change' = [change EXCEPT ![count + 1] = row]
      BY <2>0, <2>1 DEF AddRow
    <3> HIDE DEF row
    <3>5. \A i \in 1..count' : change'[i] = IF i = count + 1 THEN row ELSE change[i]
      BY <2>0, <3>4
    <3>6. \A i \in 1..count' : i = count + 1 \/ i \in 1..count
      BY <2>0, <3>4
    <3>7. RowsHaveBlobs'
      BY <1>5, <3>2, <3>3, <3>5, <3>6 DEF HistoryIInv, RowsHaveBlobs
    <3>8. RowsNamed'
      BY <3>2, <3>3, <3>5, <3>6 DEF HistoryIInv, RowsNamed
    <3>9. change' \in [1..MaxChanges -> Row] /\ count' \in 0..MaxChanges
      BY <2>0, <3>2, <3>4
    <3>10. QED
      BY <3>7, <3>8, <3>9
  <2>2. CASE Mark(a)
    <3> DEFINE rows == {i \in 1..count : change[i].path = e.path}
               last == CHOOSE i \in rows : \A j \in rows : j <= i
    <3>1. count' = count /\ change' \in {change, [change EXCEPT ![last].restores = e.restores]}
      BY <2>2 DEF Mark
    <3> HIDE DEF last
    <3>a. e.restores \in 0..MaxChanges
      BY <1>1 DEF Edit
    <3>b. \A i \in 1..MaxChanges : [change[i] EXCEPT !.restores = e.restores] \in Row
      BY <2>0, <3>a DEF Row
    <3>2. \A i \in 1..MaxChanges : /\ change'[i] \in Row /\ change'[i].path = change[i].path
                                   /\ change'[i].before = change[i].before /\ change'[i].after = change[i].after
      BY <2>0, <3>1, <3>b DEF Row
    <3>3. change' \in [1..MaxChanges -> Row]
      BY <2>0, <3>1, <3>b
    <3>4. \A i \in 1..count : i \in 1..MaxChanges
      BY <2>0
    <3>5. RowsHaveBlobs' /\ RowsNamed'
      BY <1>5, <3>1, <3>2, <3>4 DEF HistoryIInv, RowsHaveBlobs, RowsNamed
    <3>6. QED
      BY <2>0, <3>1, <3>3, <3>5
  <2>3. QED
    BY <2>1, <2>2
<1>7. HistoryTypes'
  BY <1>2, <1>3, <1>4, <1>5, <1>6 DEF HistoryIInv, HistoryTypes, HistoryTypeOK, Edit, Row, Steps
<1>8. AllHeld'
  <2> SUFFICES ASSUME NEW text \in written PROVE HistoryHeld(text)'
    BY <1>5 DEF AllHeld
  <2>1. CASE text \in blob \/ text \in cut
    BY <1>5, <2>1 DEF HistoryHeld
  <2>2. ASSUME NEW b \in Author, edit[b].step = "keep", text \in {edit[b].before, edit[b].text} PROVE HistoryHeld(text)'
    BY <1>1, <1>2, <2>2 DEF HistoryHeld
  <2>3. QED
    BY <2>1, <2>2 DEF HistoryIInv, AllHeld, HistoryHeld
<1>9. Read'
  <2>1. edit'[a].before \in written \cup {NoText} /\ edit'[a].step \in {"mark", "none"}
    BY <1>1, <1>2 DEF NoEdit, Edit
  <2>2. QED
    BY <1>2, <1>5, <2>1 DEF HistoryIInv, Read
<1>10. QED
  BY <1>6, <1>7, <1>8, <1>9 DEF HistoryIInv

LEMMA HistoryStepHolds == HistoryIInv /\ [HistoryNext]_historyVars => HistoryIInv'
<1> SUFFICES ASSUME HistoryIInv, [HistoryNext]_historyVars PROVE HistoryIInv'
  OBVIOUS
<1>1. CASE UNCHANGED historyVars
  BY <1>1 DEF historyVars, HistoryIInv, HistoryTypes, HistoryTypeOK, RowsHaveBlobs, RowsNamed, AllHeld,
     HistoryHeld, Read
<1>2. CASE HistoryNext
  BY <1>2, BeginHolds, GoOnHolds, PutHolds, DeleteHolds, MoveHolds, RestorePutHolds, KeepHolds, RowHolds
     DEF HistoryNext
<1>3. QED
  BY <1>1, <1>2

(* However changes of a shared vault overlap, and wherever requests stop: a row of the history names        *)
(* stored contents only, and a text that was replaced or deleted is stored there, or in the hands of the    *)
(* request that is about to store it, unless that was stopped (SharedBackend, History.record, restore).     *)
THEOREM HistoryKeeps == HistorySpec => []HistoryInv
<1>1. HistoryIInv => HistoryInv
  BY DEF HistoryIInv, HistoryTypes, HistoryInv, ReplacedTextKept, AllHeld, HistoryHeld
<1>2. QED
  BY <1>1, HistoryInitHolds, HistoryStepHolds, PTL DEF HistorySpec

HIDE HistoryBounds

-----------------------------------------------------------------------------
(* The theorem about EmbedWorker: for any number of clients, versions, workers and losses, no worker is   *)
(* out of reach, and the loss of one worker is made good.                                                 *)

Place == {"none", "open", "hello", "start", "open locked", "hello locked", "stop", "spawn",
          "open started", "hello started", "asked"}
WorkerHeld == [step : Place, at : 0..MaxWorkers, tries : 0..2]
Known == [state : {"none", "listening", "leaving", "gone"}, version : {0} \cup Release, idle : BOOLEAN]
UnderLock == {"open locked", "hello locked", "stop", "spawn", "open started", "hello started"}
Linked == {"hello", "hello locked", "hello started", "asked"}
Fresh == {"open started", "hello started"}

LockHeld == \A c \in Client : client[c].step \in UnderLock <=> lock = c

(* Who is connected is connected to a worker that is there; who is accepted is connected.                 *)
Connected == \A c \in Client :
  /\ client[c].at # 0 => client[c].step \in Linked /\ worker[client[c].at].state \in {"listening", "leaving"}
  /\ c \in accepted => client[c].at # 0

(* Who holds the lock has looked at the worker there is, if there is one that stays.                      *)
NoneStays == Listening \ stopping = {}
Looked(k) ==
  /\ k.step = "hello locked" /\ k.at # 0 => k.at = socket
  /\ (k.step = "hello locked" /\ k.at = 0) \/ k.step \in {"stop", "spawn"} => NoneStays
LookedAgain == \A c \in Client : Looked(client[c])

IdleAlone == \A w \in Worker : worker[w].idle => \A c \in ConnectedTo(w) : c \notin accepted

(* Where all clients want one version, none stops a worker: one that was just started is there for who    *)
(* started it, one that leaves was not connected to, and who lost its worker lost it to a kill.           *)
Same == \A c, d \in Client : wants[c] = wants[d]
OfOneVersion == stopping = {} /\ \A w \in Worker, c \in Client : worker[w].state # "none" => worker[w].version = wants[c]
Found(k) == k.step \in Fresh =>
  /\ Answers /\ ~worker[socket].idle
  /\ k.step = "hello started" => k.at = socket
StartedFound == \A c \in Client : Found(client[c])
LeavingAlone == \A w \in Worker : worker[w].state = "leaving" => ConnectedTo(w) = {}
Lost(k, isAccepted) ==
  /\ k.tries = 1 => kills >= 1
  /\ k.step = "asked" /\ ~isAccepted => kills >= 1 /\ (k.tries = 1 => kills >= 2)
Losses == (\A c \in Client : Lost(client[c], c \in accepted)) /\ (failed # {} => kills >= 2)
Alike == OfOneVersion /\ StartedFound /\ LeavingAlone /\ Losses

WorkerIInv == EmbedTypeOK /\ NoneHidden /\ LockHeld /\ Connected /\ LookedAgain /\ IdleAlone /\ (Same => Alike)

LEMMA WorkerBounds == /\ MaxWorkers \in Nat /\ MaxRequests \in Nat /\ MaxKills \in Nat /\ Release \subseteq Nat
                      /\ NoOneAt \notin Client
<1>1. MaxWorkers \in {MaxWorkers, MaxRequests, MaxKills} /\ MaxRequests \in {MaxWorkers, MaxRequests, MaxKills}
      /\ MaxKills \in {MaxWorkers, MaxRequests, MaxKills}
  OBVIOUS
<1>2. QED
  BY <1>1, EmbedAssumption DEF EmbedAssumption

USE WorkerBounds

LEMMA WorkerTypes == EmbedTypeOK <=>
  /\ wants \in [Client -> Release] /\ started \in 0..MaxWorkers /\ worker \in [Worker -> Known]
  /\ stopping \subseteq Worker /\ socket \in 0..MaxWorkers /\ lock \in Client \cup {NoOneAt}
  /\ client \in [Client -> WorkerHeld] /\ accepted \subseteq Client /\ asked \in [Client -> 0..MaxRequests]
  /\ failed \subseteq Client /\ kills \in 0..MaxKills
BY DEF EmbedTypeOK, Known, WorkerHeld, Place

LEMMA WorkerFacts == (\A w \in Worker : w # 0) /\ (\A w \in 0..MaxWorkers : w = 0 \/ w \in Worker)
BY DEF Worker

LEMMA RestHeld == Rest \in WorkerHeld /\ Rest.step = "none" /\ Rest.at = 0 /\ Rest.tries = 0
BY DEF Rest, WorkerHeld, Place

LEMMA HeldFacts == WorkerIInv => \A c \in Client :
  client[c] \in WorkerHeld /\ client[c].at \in 0..MaxWorkers /\ client[c].tries \in 0..2
BY WorkerTypes DEF WorkerIInv, WorkerHeld
(* What a step of a client makes of what it is at.                                                        *)
LEMMA StepFacts ==
  ASSUME WorkerIInv, NEW c \in Client, NEW step \in Place, Step(c, step)
  PROVE  \E k \in WorkerHeld : /\ client' = [client EXCEPT ![c] = k] /\ k.step = step /\ k.at = client[c].at
                               /\ k.tries = client[c].tries
<1>1. client \in [Client -> WorkerHeld] /\ client[c] \in WorkerHeld
  BY WorkerTypes DEF WorkerIInv
<1>2. PICK k : k = [client[c] EXCEPT !.step = step]
  OBVIOUS
<1>3. k \in WorkerHeld /\ k.step = step /\ k.at = client[c].at /\ k.tries = client[c].tries
  BY <1>1, <1>2 DEF WorkerHeld
<1>4. client' = [client EXCEPT ![c] = k]
  BY <1>1, <1>2 DEF Step
<1>5. QED
  BY <1>3, <1>4

LEMMA StepAwayFacts ==
  ASSUME WorkerIInv, NEW c \in Client, NEW step \in Place, client' = [client EXCEPT ![c].step = step, ![c].at = 0]
  PROVE  \E k \in WorkerHeld : /\ client' = [client EXCEPT ![c] = k] /\ k.step = step /\ k.at = 0
                               /\ k.tries = client[c].tries
<1>1. client \in [Client -> WorkerHeld] /\ client[c] \in WorkerHeld
  BY WorkerTypes DEF WorkerIInv
<1>2. PICK k : k = [client[c] EXCEPT !.step = step, !.at = 0]
  OBVIOUS
<1>3. k \in WorkerHeld /\ k.step = step /\ k.at = 0 /\ k.tries = client[c].tries
  <2>1. 0 \in 0..MaxWorkers
    OBVIOUS
  <2>2. QED
    BY <1>1, <1>2, <2>1 DEF WorkerHeld
<1>4. client' = [client EXCEPT ![c] = k]
  BY <1>1, <1>2
<1>5. QED
  BY <1>3, <1>4

LEMMA PlaceFacts == {"none", "open", "start", "stop", "spawn", "open locked", "open started", "asked"} \subseteq Place
BY DEF Place

-----------------------------------------------------------------------------
LEMMA WorkerInitHolds == EmbedInit => WorkerIInv
<1> SUFFICES ASSUME EmbedInit PROVE WorkerIInv
  OBVIOUS
<1>1. client \in [Client -> WorkerHeld] /\ \A c \in Client : client[c] = Rest
  BY RestHeld DEF EmbedInit
<1>2. NotStarted \in Known /\ NotStarted.state = "none" /\ ~NotStarted.idle
  BY DEF NotStarted, Known
<1>3. worker \in [Worker -> Known] /\ \A w \in Worker : worker[w].state = "none" /\ ~worker[w].idle
  BY <1>2 DEF EmbedInit
<1>4. EmbedTypeOK
  BY <1>1, <1>3, WorkerTypes DEF EmbedInit
<1>5. NoneHidden /\ IdleAlone
  BY <1>3 DEF NoneHidden, Listening, IdleAlone
<1>6. LockHeld /\ Connected /\ LookedAgain
  BY <1>1, RestHeld DEF EmbedInit, LockHeld, UnderLock, Connected, LookedAgain, Looked
<1>7. Alike
  <2>1. OfOneVersion /\ LeavingAlone
    BY <1>3 DEF EmbedInit, OfOneVersion, LeavingAlone
  <2>2. StartedFound
    BY <1>1, RestHeld DEF StartedFound, Found, Fresh
  <2>4. \A c \in Client : client[c].tries = 0 /\ client[c].step = "none"
    BY <1>1, RestHeld
  <2>5. Losses
    BY <2>4 DEF EmbedInit, Losses, Lost
  <2>3. QED
    BY <2>1, <2>2, <2>5 DEF Alike
<1>8. QED
  BY <1>4, <1>5, <1>6, <1>7 DEF WorkerIInv

(* A step of one client that leaves the workers as they are.                                              *)
LEMMA ClientHolds ==
  ASSUME WorkerIInv, NEW c \in Client, NEW k \in WorkerHeld, client' = [client EXCEPT ![c] = k], UNCHANGED <<workerVars, kills>>,
         asked' \in [Client -> 0..MaxRequests], failed' \subseteq Client,
         accepted' = accepted \/ accepted' = accepted \ {c},
         k.step \in UnderLock <=> lock' = c,
         lock' = lock \/ (lock = c /\ lock' = NoOneAt) \/ (lock = NoOneAt /\ lock' = c),
         k.at # 0 => k.step \in Linked /\ (k.at = client[c].at \/ (k.at = socket /\ Answers /\ c \notin accepted')),
         c \in accepted' => k.at # 0,
         Looked(k), Same /\ Alike => Found(k) /\ Lost(k, c \in accepted') /\ (failed' = failed \/ kills >= 2)
  PROVE  WorkerIInv'
<1>1. client' \in [Client -> WorkerHeld] /\ client'[c] = k /\ \A d \in Client \ {c} : client'[d] = client[d]
  BY WorkerTypes DEF WorkerIInv
<1>2. UNCHANGED <<wants, started, worker, stopping, socket, kills>> /\ UNCHANGED Listening
  BY DEF workerVars, Listening
<1>3. EmbedTypeOK'
  BY <1>1, <1>2, WorkerTypes DEF WorkerIInv, EmbedTypeOK, WorkerHeld, Place
<1>4. NoneHidden'
  BY <1>2 DEF WorkerIInv, NoneHidden
<1>5. LockHeld'
  BY <1>1 DEF WorkerIInv, LockHeld
<1>6. Connected'
  BY <1>1, <1>2 DEF WorkerIInv, Connected, Answers, Listening
<1>7. LookedAgain'
  BY <1>1, <1>2 DEF WorkerIInv, LookedAgain, Looked, NoneStays
<1>8. IdleAlone'
  <2> SUFFICES ASSUME NEW w \in Worker, worker[w].idle, NEW d \in Client, client'[d].at = w PROVE d \notin accepted'
    BY <1>2 DEF IdleAlone, ConnectedTo
  <2>1. w # 0
    BY WorkerFacts
  <2>2. QED
    BY <1>1, <2>1 DEF WorkerIInv, IdleAlone, ConnectedTo
<1>9. ASSUME Same' PROVE Alike'
  <2>1. Same /\ Alike
    BY <1>2, <1>9 DEF Same, WorkerIInv
  <2>2. OfOneVersion'
    BY <1>2, <2>1 DEF Alike, OfOneVersion
  <2>3. StartedFound'
    BY <1>1, <1>2, <2>1 DEF Alike, StartedFound, Found, Answers
  <2>4. LeavingAlone'
    <3> SUFFICES ASSUME NEW w \in Worker, worker[w].state = "leaving", NEW d \in Client, client'[d].at = w PROVE FALSE
      BY <1>2 DEF LeavingAlone, ConnectedTo
    <3>1. w # 0 /\ \A e \in Client : client[e].at # w
      BY <2>1 DEF Worker, Alike, LeavingAlone, ConnectedTo
    <3>2. QED
      BY <1>1, <3>1 DEF Answers, Listening
  <2>5. Losses'
    BY <1>1, <1>2, <2>1 DEF Alike, Losses, Lost
  <2>6. QED
    BY <2>2, <2>3, <2>4, <2>5 DEF Alike
<1>10. QED
  BY <1>3, <1>4, <1>5, <1>6, <1>7, <1>8, <1>9 DEF WorkerIInv

(* What is there to connect to, and what is not.                                                          *)
LEMMA AnswerFacts == WorkerIInv => (Answers => socket # 0) /\ (~Answers => NoneStays)
BY DEF WorkerIInv, NoneHidden, Answers, NoneStays, Listening, Worker

LEMMA AskHolds == ASSUME WorkerIInv, NEW c \in Client, Ask(c) PROVE WorkerIInv'
<1>0. PICK k : k = [step |-> "open", at |-> 0, tries |-> 2]
  OBVIOUS
<1>1. k = [step |-> "open", at |-> 0, tries |-> 2] /\ k \in WorkerHeld /\ k.step = "open" /\ k.at = 0 /\ k.tries = 2
  <2>1. 0 \in 0..MaxWorkers /\ 2 \in 0..2
    OBVIOUS
  <2>2. QED
    BY <1>0, <2>1, PlaceFacts DEF WorkerHeld
<1>2. client' = [client EXCEPT ![c] = k] /\ UNCHANGED <<workerVars, lock, accepted, failed, kills>>
  BY <1>1 DEF Ask
<1>3. asked' \in [Client -> 0..MaxRequests] /\ failed' \subseteq Client
  <2>1. asked \in [Client -> 0..MaxRequests] /\ failed \subseteq Client
    BY WorkerTypes DEF WorkerIInv
  <2>2. asked' = [asked EXCEPT ![c] = asked[c] + 1] /\ asked[c] < MaxRequests
    BY DEF Ask
  <2>3. QED
    BY <1>2, <2>1, <2>2
<1>4. client[c].step = "none" /\ c \notin accepted /\ lock # c
  BY DEF Ask, WorkerIInv, Connected, Linked, LockHeld, UnderLock
<1>5. k.step \notin UnderLock /\ Looked(k) /\ Found(k) /\ Lost(k, c \in accepted)
  BY <1>1 DEF UnderLock, Looked, Found, Fresh, Lost
<1>6. QED
  BY <1>1, <1>2, <1>3, <1>4, <1>5, ClientHolds

LEMMA OpenHolds == ASSUME WorkerIInv, NEW c \in Client, Open(c) PROVE WorkerIInv'
<1>1. client[c].step \in {"open", "open locked", "open started"}
      /\ UNCHANGED <<workerVars, lock, accepted, asked, failed, kills>>
  BY DEF Open
<1>2. PICK step \in Place : step = CASE client[c].step = "open" -> "hello" [] client[c].step = "open locked" -> "hello locked"
                   [] client[c].step = "open started" -> "hello started"
  BY <1>1 DEF Place
<1>3. /\ (client[c].step = "open" => step = "hello") /\ (client[c].step = "open locked" => step = "hello locked")
      /\ (client[c].step = "open started" => step = "hello started")
  BY <1>2
<1>4. PICK at \in 0..MaxWorkers : at = IF Answers THEN socket ELSE 0
  BY WorkerTypes DEF WorkerIInv
<1>5. PICK k : k = [client[c] EXCEPT !.step = step, !.at = at]
  OBVIOUS
<1>6. k \in WorkerHeld /\ k.step = step /\ k.at = at /\ k.tries = client[c].tries
  <2>1. client[c] \in WorkerHeld
    BY HeldFacts
  <2>2. QED
    BY <1>5, <2>1 DEF WorkerHeld
<1>7. client' = [client EXCEPT ![c] = k]
  BY <1>2, <1>4, <1>5 DEF Open, Connects
<1>8. c \notin accepted
  BY <1>1 DEF WorkerIInv, Connected, Linked
<1>9. Looked(k)
  BY <1>4, <1>6, <1>1, <1>3, AnswerFacts DEF Looked
<1>10. ASSUME Same, Alike PROVE Found(k) /\ Lost(k, c \in accepted)
  <2>1. Found(k)
    BY <1>1, <1>3, <1>4, <1>6, <1>10 DEF Alike, StartedFound, Found, Fresh
  <2>2. Lost(k, c \in accepted)
    BY <1>1, <1>3, <1>6, <1>10 DEF Alike, Losses, Lost
  <2>3. QED
    BY <2>1, <2>2
<1>11. k.step \in UnderLock <=> lock' = c
  BY <1>1, <1>3, <1>6 DEF WorkerIInv, LockHeld, UnderLock
<1>12. k.at # 0 => k.step \in Linked /\ k.at = socket /\ Answers
  BY <1>1, <1>3, <1>4, <1>6 DEF Linked
<1>13. asked' \in [Client -> 0..MaxRequests] /\ failed' \subseteq Client
  BY <1>1, WorkerTypes DEF WorkerIInv
<1>14. QED
  BY <1>1, <1>6, <1>7, <1>8, <1>9, <1>10, <1>11, <1>12, <1>13, ClientHolds

LEMMA AcceptHolds == ASSUME WorkerIInv, NEW w \in Worker, Accept(w) PROVE WorkerIInv'
<1>1. PICK c \in ConnectedTo(w) \ accepted : accepted' = accepted \cup {c}
  BY DEF Accept
<1>2. c \in Client /\ client[c].at = w /\ w # 0 /\ w \in Listening
  BY <1>1 DEF ConnectedTo, Worker, Accept
<1>3. worker' = [worker EXCEPT ![w].idle = FALSE]
      /\ UNCHANGED <<wants, started, stopping, socket, lock, client, asked, failed, kills>>
  BY DEF Accept
<1>4. PICK k \in Known : k = [worker[w] EXCEPT !.idle = FALSE]
  <2>1. worker[w] \in Known
    BY WorkerTypes DEF WorkerIInv
  <2>2. [worker[w] EXCEPT !.idle = FALSE] \in Known
    BY <2>1 DEF Known
  <2>3. QED
    BY <2>2
<1>5. worker' = [worker EXCEPT ![w] = k] /\ k.state = worker[w].state /\ k.version = worker[w].version /\ ~k.idle
  BY <1>3, <1>4, WorkerTypes DEF WorkerIInv, Known
<1>6. worker' \in [Worker -> Known] /\ worker'[w] = k /\ \A v \in Worker \ {w} : worker'[v] = worker[v]
  BY <1>5, WorkerTypes DEF WorkerIInv
<1>7. Listening' = Listening /\ \A v \in Worker : worker'[v].state = worker[v].state /\ worker'[v].version = worker[v].version
  BY <1>5, <1>6 DEF Listening
<1>8. EmbedTypeOK'
  BY <1>1, <1>2, <1>3, <1>6, WorkerTypes DEF WorkerIInv, EmbedTypeOK, Known
<1>9. NoneHidden' /\ LockHeld' /\ LookedAgain'
  BY <1>3, <1>7 DEF WorkerIInv, NoneHidden, LockHeld, LookedAgain, Looked, NoneStays
<1>10. Connected'
  <2>1. \A d \in Client : client[d].at \in Worker \/ client[d].at = 0
    BY HeldFacts DEF Worker
  <2>2. QED
    BY <1>1, <1>2, <1>3, <1>7, <2>1 DEF WorkerIInv, Connected
<1>11. IdleAlone'
  BY <1>1, <1>2, <1>3, <1>5, <1>6 DEF WorkerIInv, IdleAlone, ConnectedTo
<1>12. ASSUME Same' PROVE Alike'
  <2>1. Same /\ Alike
    BY <1>3, <1>12 DEF Same, WorkerIInv
  <2>2. OfOneVersion'
    BY <1>3, <1>7, <2>1 DEF Alike, OfOneVersion
  <2>3. StartedFound'
    BY <1>3, <1>5, <1>6, <1>7, <2>1 DEF Alike, StartedFound, Found, Answers, Listening
  <2>4. LeavingAlone'
    BY <1>3, <1>7, <2>1 DEF Alike, LeavingAlone, ConnectedTo
  <2>5. Losses'
    BY <1>1, <1>3, <2>1 DEF Alike, Losses, Lost
  <2>6. QED
    BY <2>2, <2>3, <2>4, <2>5 DEF Alike
<1>13. QED
  BY <1>8, <1>9, <1>10, <1>11, <1>12 DEF WorkerIInv

(* Where all want one version, who is greeted is greeted by a worker of it.                               *)
LEMMA GreetingMatches == ASSUME WorkerIInv, NEW c \in Client, c \in accepted, Same PROVE Matches(c)
<1>1. client[c].at # 0 /\ worker[client[c].at].state \in {"listening", "leaving"} /\ client[c].at \in Worker
  BY HeldFacts DEF WorkerIInv, Connected, Worker
<1>2. QED
  BY <1>1 DEF Matches, WorkerIInv, Alike, OfOneVersion

(* A client whose worker matches asks it.                                                                 *)
LEMMA AsksHolds ==
  ASSUME WorkerIInv, NEW c \in Client, Matches(c), Step(c, "asked"), client[c].step \in {"hello", "hello locked", "hello started"},
         UNCHANGED <<workerVars, accepted, asked, failed, kills>>,
         lock' = IF client[c].step = "hello" THEN lock ELSE NoOneAt
  PROVE  WorkerIInv'
<1>1. PICK k \in WorkerHeld : /\ client' = [client EXCEPT ![c] = k] /\ k.step = "asked" /\ k.at = client[c].at
                       /\ k.tries = client[c].tries
  BY PlaceFacts, StepFacts
<1>2. k.step = "asked" /\ k.at = client[c].at /\ k.tries = client[c].tries
  BY <1>1
<1>3. client' = [client EXCEPT ![c] = k]
  BY <1>1
<1>4. c \in accepted /\ client[c].at # 0
  BY DEF Matches, WorkerIInv, Connected
<1>5. Looked(k) /\ Found(k) /\ k.step \notin UnderLock /\ k.step \in Linked
  BY <1>2 DEF Looked, Found, Fresh, UnderLock, Linked
<1>6. lock = IF client[c].step = "hello" THEN lock ELSE c
  BY DEF WorkerIInv, LockHeld, UnderLock
<1>7. lock' # c
  BY DEF WorkerIInv, LockHeld, UnderLock
<1>8. Same /\ Alike => Lost(k, c \in accepted')
  BY <1>2, <1>4 DEF Alike, Losses, Lost
<1>9. asked' \in [Client -> 0..MaxRequests] /\ failed' \subseteq Client
  BY WorkerTypes DEF WorkerIInv
<1>10. QED
  BY <1>2, <1>3, <1>4, <1>5, <1>6, <1>7, <1>8, <1>9, ClientHolds

LEMMA GreetedHolds == ASSUME WorkerIInv, NEW c \in Client, Greeted(c) PROVE WorkerIInv'
<1>1. client[c].step = "hello" /\ UNCHANGED <<workerVars, lock, asked, failed, kills>>
  BY DEF Greeted
<1>2. CASE Matches(c) /\ Step(c, "asked") /\ UNCHANGED accepted
  BY <1>1, <1>2, AsksHolds
<1>3. CASE client' = [client EXCEPT ![c].step = "start", ![c].at = 0] /\ accepted' = accepted \ {c}
  <2>1. PICK k \in WorkerHeld : /\ client' = [client EXCEPT ![c] = k] /\ k.step = "start" /\ k.at = 0
                         /\ k.tries = client[c].tries
    BY <1>3, PlaceFacts, StepAwayFacts
  <2>2. k.step = "start" /\ k.at = 0 /\ k.tries = client[c].tries
    BY <2>1
  <2>3. client' = [client EXCEPT ![c] = k]
    BY <2>1
  <2>4. Looked(k) /\ Found(k) /\ k.step \notin UnderLock
    BY <2>2 DEF Looked, Found, Fresh, UnderLock
  <2>5. lock # c
    BY <1>1 DEF WorkerIInv, LockHeld, UnderLock
  <2>6. Same /\ Alike => Lost(k, c \in accepted')
    BY <2>2 DEF Alike, Losses, Lost
  <2>7. asked' \in [Client -> 0..MaxRequests] /\ failed' \subseteq Client
    BY <1>1, WorkerTypes DEF WorkerIInv
  <2>8. QED
    BY <1>1, <1>3, <2>2, <2>3, <2>4, <2>5, <2>6, <2>7, ClientHolds
<1>4. QED
  BY <1>2, <1>3 DEF Greeted

LEMMA LockHolds == ASSUME WorkerIInv, NEW c \in Client, Lock(c) PROVE WorkerIInv'
<1>1. client[c].step = "start" /\ lock = NoOneAt /\ lock' = c /\ UNCHANGED <<workerVars, accepted, asked, failed, kills>>
  BY DEF Lock
<1>2. PICK k \in WorkerHeld : /\ client' = [client EXCEPT ![c] = k] /\ k.step = "open locked" /\ k.at = client[c].at
                       /\ k.tries = client[c].tries
  BY PlaceFacts, StepFacts DEF Lock
<1>3. k.step = "open locked" /\ k.at = client[c].at /\ k.tries = client[c].tries
  BY <1>2
<1>4. client' = [client EXCEPT ![c] = k]
  BY <1>2
<1>5. client[c].at = 0 /\ c \notin accepted
  BY <1>1 DEF WorkerIInv, Connected, Linked
<1>6. Looked(k) /\ Found(k) /\ k.step \in UnderLock
  BY <1>3 DEF Looked, Found, Fresh, UnderLock
<1>7. Same /\ Alike => Lost(k, c \in accepted')
  BY <1>3 DEF Alike, Losses, Lost
<1>8. asked' \in [Client -> 0..MaxRequests] /\ failed' \subseteq Client
  BY <1>1, WorkerTypes DEF WorkerIInv
<1>9. QED
  BY <1>1, <1>3, <1>4, <1>5, <1>6, <1>7, <1>8, ClientHolds

(* The worker of another version is told to stop: it is the one that the path names.                      *)
LEMMA TellsToStopHolds ==
  ASSUME WorkerIInv, NEW c \in Client, client[c].step = "hello locked", c \in accepted, ~Matches(c),
         stopping' = stopping \cup {client[c].at},
         client' = [client EXCEPT ![c].step = "stop", ![c].at = 0], accepted' = accepted \ {c},
         UNCHANGED <<wants, started, worker, socket, lock, asked, failed, kills>>
  PROVE  WorkerIInv'
<1>1. PICK k \in WorkerHeld : /\ client' = [client EXCEPT ![c] = k] /\ k.step = "stop" /\ k.at = 0
                       /\ k.tries = client[c].tries
  BY PlaceFacts, StepAwayFacts
<1>2. k.step = "stop" /\ k.at = 0 /\ client' = [client EXCEPT ![c] = k]
  BY <1>1
<1>3. client' \in [Client -> WorkerHeld] /\ client'[c] = k /\ \A d \in Client \ {c} : client'[d] = client[d]
  BY <1>2, WorkerTypes DEF WorkerIInv
<1>4. client[c].at # 0 /\ client[c].at \in Worker /\ client[c].at = socket
  <2>1. client[c].at # 0
    BY DEF WorkerIInv, Connected
  <2>2. client[c].at = socket
    BY <2>1 DEF WorkerIInv, LookedAgain, Looked
  <2>3. client[c].at \in Worker
    <3>1. client[c].at \in 0..MaxWorkers
      BY HeldFacts
    <3>2. QED
      BY <2>1, <3>1, WorkerFacts
  <2>4. QED
    BY <2>1, <2>2, <2>3
<1>5. Listening' = Listening /\ Listening \ stopping' = {}
  BY <1>4 DEF Listening, WorkerIInv, NoneHidden
<1>6. EmbedTypeOK'
  BY <1>3, <1>4, WorkerTypes DEF WorkerIInv, EmbedTypeOK, WorkerHeld, Place
<1>7. NoneHidden'
  BY <1>5 DEF NoneHidden
<1>8. LockHeld'
  BY <1>2, <1>3 DEF WorkerIInv, LockHeld, UnderLock
<1>9. Connected'
  BY <1>2, <1>3 DEF WorkerIInv, Connected
<1>10. LookedAgain'
  <2> SUFFICES ASSUME NEW d \in Client PROVE Looked(client[d])'
    BY DEF LookedAgain
  <2>1. NoneStays'
    BY <1>5 DEF NoneStays
  <2>2. client'[d].step = "hello locked" /\ client'[d].at # 0 => client'[d].at = socket
    BY <1>2, <1>3 DEF WorkerIInv, LookedAgain, Looked
  <2>3. QED
    BY <2>1, <2>2 DEF Looked
<1>11. IdleAlone'
  <2> SUFFICES ASSUME NEW w \in Worker, worker[w].idle, NEW d \in Client, client'[d].at = w PROVE d \notin accepted'
    BY DEF IdleAlone, ConnectedTo
  <2>1. w # 0
    BY WorkerFacts
  <2>2. d # c /\ client[d].at = w
    BY <1>2, <1>3, <2>1
  <2>3. QED
    BY <2>2 DEF WorkerIInv, IdleAlone, ConnectedTo
<1>12. ~Same'
  BY GreetingMatches DEF Same
<1>13. QED
  BY <1>6, <1>7, <1>8, <1>9, <1>10, <1>11, <1>12 DEF WorkerIInv

LEMMA GreetedLockedHolds == ASSUME WorkerIInv, NEW c \in Client, GreetedLocked(c) PROVE WorkerIInv'
<1>1. client[c].step = "hello locked" /\ UNCHANGED <<wants, started, worker, socket, asked, failed, kills>>
  BY DEF GreetedLocked
<1>2. CASE Matches(c) /\ Step(c, "asked") /\ lock' = NoOneAt /\ UNCHANGED <<stopping, accepted>>
  BY <1>1, <1>2, AsksHolds DEF workerVars
<1>3. CASE NoAnswer(c) /\ Step(c, "spawn") /\ UNCHANGED <<stopping, accepted, lock>>
  <2>1. PICK k \in WorkerHeld : /\ client' = [client EXCEPT ![c] = k] /\ k.step = "spawn" /\ k.at = client[c].at
                         /\ k.tries = client[c].tries
    BY <1>3, PlaceFacts, StepFacts
  <2>2. k.step = "spawn" /\ k.at = 0 /\ k.tries = client[c].tries
    BY <2>1, <1>3 DEF NoAnswer
  <2>3. client' = [client EXCEPT ![c] = k]
    BY <2>1
  <2>4. Looked(k) /\ Found(k) /\ k.step \in UnderLock
    BY <1>1, <1>3, <2>2 DEF WorkerIInv, LookedAgain, Looked, NoAnswer, Found, Fresh, UnderLock
  <2>5. lock = c
    BY <1>1 DEF WorkerIInv, LockHeld, UnderLock
  <2>6. c \notin accepted /\ (Same /\ Alike => Lost(k, c \in accepted'))
    BY <1>3, <2>2 DEF Alike, Losses, Lost, WorkerIInv, Connected, NoAnswer
  <2>7. asked' \in [Client -> 0..MaxRequests] /\ failed' \subseteq Client
    BY <1>1, WorkerTypes DEF WorkerIInv
  <2>8. UNCHANGED <<workerVars, kills, accepted, failed, lock>>
    BY <1>1, <1>3 DEF workerVars
  <2>9. QED
    BY <2>2, <2>3, <2>4, <2>5, <2>6, <2>7, <2>8, ClientHolds
<1>4. CASE /\ c \in accepted /\ ~Matches(c)
           /\ stopping' = stopping \cup {client[c].at}
           /\ client' = [client EXCEPT ![c].step = "stop", ![c].at = 0] /\ accepted' = accepted \ {c}
           /\ UNCHANGED lock
  BY <1>1, <1>4, TellsToStopHolds
<1>5. QED
  BY <1>2, <1>3, <1>4 DEF GreetedLocked

LEMMA StoppedHolds == ASSUME WorkerIInv, NEW c \in Client, Stopped(c) PROVE WorkerIInv'
<1>1. client[c].step = "stop" /\ UNCHANGED <<workerVars, lock, accepted, asked, failed, kills>>
  BY DEF Stopped
<1>2. PICK k \in WorkerHeld : /\ client' = [client EXCEPT ![c] = k] /\ k.step = "spawn" /\ k.at = client[c].at
                       /\ k.tries = client[c].tries
  BY PlaceFacts, StepFacts DEF Stopped
<1>3. k.step = "spawn" /\ k.at = client[c].at /\ k.tries = client[c].tries
  BY <1>2
<1>4. client' = [client EXCEPT ![c] = k]
  BY <1>2
<1>5. client[c].at = 0 /\ c \notin accepted
  BY <1>1 DEF WorkerIInv, Connected, Linked
<1>6. Looked(k) /\ Found(k) /\ k.step \in UnderLock
  BY <1>1, <1>3 DEF WorkerIInv, LookedAgain, Looked, Found, Fresh, UnderLock
<1>7. lock' = c
  BY <1>1 DEF WorkerIInv, LockHeld, UnderLock
<1>8. Same /\ Alike => Lost(k, c \in accepted')
  BY <1>3 DEF Alike, Losses, Lost
<1>9. asked' \in [Client -> 0..MaxRequests] /\ failed' \subseteq Client
  BY <1>1, WorkerTypes DEF WorkerIInv
<1>10. QED
  BY <1>1, <1>3, <1>4, <1>5, <1>6, <1>7, <1>8, <1>9, ClientHolds

(* A worker is started where none stays.                                                                  *)
LEMMA SpawnHolds == ASSUME WorkerIInv, NEW c \in Client, Spawn(c) PROVE WorkerIInv'
<1>1. /\ client[c].step = "spawn" /\ started < MaxWorkers /\ started' = started + 1 /\ socket' = started + 1
      /\ worker' = [worker EXCEPT ![started + 1] = [state |-> "listening", version |-> wants[c], idle |-> FALSE]]
      /\ UNCHANGED <<wants, stopping, lock, accepted, asked, failed, kills>>
  BY DEF Spawn
<1>2. started + 1 \in Worker /\ socket' \in 0..MaxWorkers /\ socket' # 0 /\ started' \in 0..MaxWorkers
  BY <1>1, WorkerTypes DEF WorkerIInv, Worker
<1>3. PICK new \in Known : /\ new = [state |-> "listening", version |-> wants[c], idle |-> FALSE]
                           /\ new.state = "listening" /\ new.version = wants[c] /\ ~new.idle
  <2>1. wants[c] \in {0} \cup Release
    BY WorkerTypes DEF WorkerIInv
  <2>2. [state |-> "listening", version |-> wants[c], idle |-> FALSE] \in Known
    BY <2>1 DEF Known
  <2>3. QED
    BY <2>2
<1>4. /\ worker' \in [Worker -> Known] /\ worker'[socket'] = new
      /\ \A w \in Worker \ {socket'} : worker'[w] = worker[w]
  BY <1>1, <1>2, <1>3, WorkerTypes DEF WorkerIInv
<1>5. PICK k \in WorkerHeld : /\ client' = [client EXCEPT ![c] = k] /\ k.step = "open started" /\ k.at = client[c].at
                       /\ k.tries = client[c].tries
  BY PlaceFacts, StepFacts DEF Spawn
<1>6. k.step = "open started" /\ k.at = client[c].at /\ k.tries = client[c].tries
  BY <1>5
<1>7. client' \in [Client -> WorkerHeld] /\ client'[c] = k /\ \A d \in Client \ {c} : client'[d] = client[d]
  BY <1>5, WorkerTypes DEF WorkerIInv
<1>8. client[c].at = 0 /\ c \notin accepted
  BY <1>1 DEF WorkerIInv, Connected, Linked
<1>9. Listening \ stopping = {} /\ Listening' = Listening \cup {socket'}
  <2>0. Looked(client[c])
    BY DEF WorkerIInv, LookedAgain
  <2>1. Listening \ stopping = {}
    BY <1>1, <2>0 DEF Looked, NoneStays
  <2>2. Listening' = Listening \cup {socket'}
    <3>1. \A w \in Worker : worker'[w].state = "listening" <=> w = socket' \/ worker[w].state = "listening"
      BY <1>3, <1>4
    <3>2. socket' \in Worker
      BY <1>1, <1>2
    <3>3. QED
      BY <3>1, <3>2 DEF Listening
  <2>3. QED
    BY <2>1, <2>2
<1>10. lock = c /\ \A d \in Client \ {c} : client[d].step \notin UnderLock
  BY <1>1 DEF WorkerIInv, LockHeld, UnderLock
<1>11. EmbedTypeOK'
  BY <1>1, <1>2, <1>4, <1>7, WorkerTypes DEF WorkerIInv, EmbedTypeOK, WorkerHeld, Place, Known
<1>12. NoneHidden'
  BY <1>1, <1>9 DEF NoneHidden
<1>13. LockHeld'
  BY <1>1, <1>6, <1>7, <1>10 DEF LockHeld, UnderLock
<1>140. \A d \in Client : client'[d].at = client[d].at
  BY <1>6, <1>7
<1>14. Connected'
  <2>1. \A d \in Client : client'[d].at = client[d].at /\ (client[d].at = 0 \/ client[d].at \in Worker)
    BY <1>140, HeldFacts DEF Worker
  <2>2. \A w \in Worker : worker'[w].state = worker[w].state \/ worker'[w].state = "listening"
    BY <1>3, <1>4
  <2>3. QED
    BY <1>1, <1>7, <1>8, <2>1, <2>2 DEF WorkerIInv, Connected
<1>15. LookedAgain'
  BY <1>6, <1>7, <1>10 DEF LookedAgain, Looked, UnderLock
<1>16. IdleAlone'
  <2> SUFFICES ASSUME NEW w \in Worker, worker'[w].idle, NEW d \in Client, client'[d].at = w PROVE d \notin accepted
    BY <1>1 DEF IdleAlone, ConnectedTo
  <2>1. worker[w].idle /\ client[d].at = w
    BY <1>3, <1>4, <1>140
  <2>2. QED
    BY <2>1 DEF WorkerIInv, IdleAlone, ConnectedTo
<1>17. ASSUME Same' PROVE Alike'
  <2>1. Same /\ Alike
    BY <1>1, <1>17 DEF Same, WorkerIInv
  <2>2. OfOneVersion'
    BY <1>1, <1>3, <1>4, <2>1 DEF Alike, OfOneVersion, Same
  <2>3. StartedFound'
    <3>1. Answers' /\ ~worker'[socket'].idle
      BY <1>3, <1>4, <1>9 DEF Answers
    <3>2. \A d \in Client : client'[d].step # "hello started"
      BY <1>6, <1>7, <1>10 DEF UnderLock
    <3>3. QED
      BY <3>1, <3>2 DEF StartedFound, Found
  <2>4. LeavingAlone'
    <3> SUFFICES ASSUME NEW w \in Worker, worker'[w].state = "leaving", NEW d \in Client, client'[d].at = w PROVE FALSE
      BY DEF LeavingAlone, ConnectedTo
    <3>1. worker[w].state = "leaving" /\ client[d].at = w
      BY <1>3, <1>4, <1>140
    <3>2. QED
      BY <2>1, <3>1 DEF Alike, LeavingAlone, ConnectedTo
  <2>5. Losses'
    BY <1>1, <1>6, <1>7, <2>1 DEF Alike, Losses, Lost
  <2>6. QED
    BY <2>2, <2>3, <2>4, <2>5 DEF Alike
<1>18. QED
  BY <1>11, <1>12, <1>13, <1>14, <1>15, <1>16, <1>17 DEF WorkerIInv

LEMMA GreetedStartedHolds == ASSUME WorkerIInv, NEW c \in Client, GreetedStarted(c) PROVE WorkerIInv'
<1>1. /\ client[c].step = "hello started" /\ lock' = NoOneAt /\ UNCHANGED <<workerVars, asked, kills>>
      /\ accepted' = IF Matches(c) THEN accepted ELSE accepted \ {c}
  BY DEF GreetedStarted
<1>2. CASE Matches(c) /\ Step(c, "asked") /\ UNCHANGED failed
  BY <1>1, <1>2, AsksHolds
<1>3. CASE /\ NoAnswer(c) \/ (c \in accepted /\ ~Matches(c))
           /\ client' = [client EXCEPT ![c] = Rest] /\ failed' = failed \cup {c}
  <2>1. accepted' = accepted \ {c}
    BY <1>1, <1>3 DEF Matches, NoAnswer, WorkerIInv, Connected
  <2>2. Looked(Rest) /\ Found(Rest) /\ Rest.step \notin UnderLock
    BY RestHeld DEF Looked, Found, Fresh, UnderLock
  <2>3. lock = c /\ lock' # c
    BY <1>1 DEF WorkerIInv, LockHeld, UnderLock
  <2>4. ~(Same /\ Alike)
    <3> SUFFICES ASSUME Same, Alike PROVE FALSE
      OBVIOUS
    <3>1. client[c].at = socket /\ Answers
      BY <1>1 DEF Alike, StartedFound, Found, Fresh
    <3>2. ~NoAnswer(c)
      BY <3>1, AnswerFacts DEF NoAnswer
    <3>3. QED
      BY <1>3, <3>2, GreetingMatches
  <2>5. asked' \in [Client -> 0..MaxRequests] /\ failed' \subseteq Client
    BY <1>1, <1>3, WorkerTypes DEF WorkerIInv
  <2>6. QED
    BY <1>1, <1>3, <2>1, <2>2, <2>3, <2>4, <2>5, RestHeld, ClientHolds
<1>4. QED
  BY <1>2, <1>3 DEF GreetedStarted

LEMMA AnsweredHolds == ASSUME WorkerIInv, NEW c \in Client, Answered(c) PROVE WorkerIInv'
<1>1. client[c].step = "asked" /\ client' = [client EXCEPT ![c] = Rest] /\ accepted' = accepted \ {c}
      /\ UNCHANGED <<workerVars, lock, asked, failed, kills>>
  BY DEF Answered
<1>2. Looked(Rest) /\ Found(Rest) /\ Rest.step \notin UnderLock /\ Lost(Rest, c \in accepted')
  BY RestHeld DEF Looked, Found, Fresh, UnderLock, Lost
<1>3. lock' # c
  BY <1>1 DEF WorkerIInv, LockHeld, UnderLock
<1>4. asked' \in [Client -> 0..MaxRequests] /\ failed' \subseteq Client
  BY <1>1, WorkerTypes DEF WorkerIInv
<1>5. QED
  BY <1>1, <1>2, <1>3, <1>4, RestHeld, ClientHolds

LEMMA WentAwayHolds == ASSUME WorkerIInv, NEW c \in Client, WentAway(c) PROVE WorkerIInv'
<1>1. client[c].step = "asked" /\ c \notin accepted /\ UNCHANGED <<workerVars, lock, accepted, asked, kills>>
  BY DEF WentAway
<1>2. lock' # c /\ asked' \in [Client -> 0..MaxRequests]
  BY <1>1, WorkerTypes DEF WorkerIInv, LockHeld, UnderLock
<1>3. CASE /\ client[c].tries > 1
           /\ client' = [client EXCEPT ![c] = [step |-> "open", at |-> 0, tries |-> @.tries - 1]] /\ UNCHANGED failed
  <2>0. client[c].tries - 1 \in 0..2 /\ 0 \in 0..MaxWorkers
    BY <1>3, HeldFacts
  <2>1. PICK k \in WorkerHeld : /\ k = [step |-> "open", at |-> 0, tries |-> client[c].tries - 1]
                                /\ k.step = "open" /\ k.at = 0 /\ k.tries = client[c].tries - 1
    <3>1. [step |-> "open", at |-> 0, tries |-> client[c].tries - 1] \in WorkerHeld
      BY <2>0, PlaceFacts DEF WorkerHeld
    <3>2. QED
      BY <3>1
  <2>2. client' = [client EXCEPT ![c] = k]
    BY <1>3, <2>1
  <2>3. Looked(k) /\ Found(k) /\ k.step \notin UnderLock
    BY <2>1 DEF Looked, Found, Fresh, UnderLock
  <2>4. Same /\ Alike => Lost(k, c \in accepted')
    BY <1>1, <2>1 DEF Alike, Losses, Lost
  <2>5. failed' \subseteq Client
    BY <1>3, WorkerTypes DEF WorkerIInv
  <2>6. QED
    BY <1>1, <1>2, <1>3, <2>1, <2>2, <2>3, <2>4, <2>5, ClientHolds
<1>4. CASE client[c].tries = 1 /\ client' = [client EXCEPT ![c] = Rest] /\ failed' = failed \cup {c}
  <2>1. Looked(Rest) /\ Found(Rest) /\ Rest.step \notin UnderLock /\ Lost(Rest, c \in accepted')
    BY RestHeld DEF Looked, Found, Fresh, UnderLock, Lost
  <2>2. Same /\ Alike => kills >= 2
    BY <1>1, <1>4 DEF Alike, Losses, Lost
  <2>3. failed' \subseteq Client
    BY <1>4, WorkerTypes DEF WorkerIInv
  <2>4. QED
    BY <1>1, <1>2, <1>4, <2>1, <2>2, <2>3, RestHeld, ClientHolds
<1>5. QED
  BY <1>3, <1>4 DEF WentAway
-----------------------------------------------------------------------------
LEMMA GrowsIdleHolds == ASSUME WorkerIInv, NEW w \in Worker, GrowsIdle(w) PROVE WorkerIInv'
<1>1. /\ worker' = [worker EXCEPT ![w].idle = TRUE] /\ ConnectedTo(w) = {} /\ ~\E c \in Client : client[c].step \in Starting
      /\ UNCHANGED <<wants, started, stopping, socket, lock, client, accepted, asked, failed, kills>>
  BY DEF GrowsIdle
<1>2. PICK k \in Known : k = [worker[w] EXCEPT !.idle = TRUE]
  <2>1. worker[w] \in Known
    BY WorkerTypes DEF WorkerIInv
  <2>2. [worker[w] EXCEPT !.idle = TRUE] \in Known
    BY <2>1 DEF Known
  <2>3. QED
    BY <2>2
<1>3. worker' = [worker EXCEPT ![w] = k] /\ k.state = worker[w].state /\ k.version = worker[w].version
  BY <1>1, <1>2, WorkerTypes DEF WorkerIInv, Known
<1>4. worker' \in [Worker -> Known] /\ worker'[w] = k /\ \A v \in Worker \ {w} : worker'[v] = worker[v]
  BY <1>3, WorkerTypes DEF WorkerIInv
<1>5. Listening' = Listening /\ \A v \in Worker : worker'[v].state = worker[v].state /\ worker'[v].version = worker[v].version
  BY <1>3, <1>4 DEF Listening
<1>6. EmbedTypeOK'
  BY <1>1, <1>4, WorkerTypes DEF WorkerIInv, EmbedTypeOK, Known
<1>7. NoneHidden' /\ LockHeld' /\ LookedAgain'
  BY <1>1, <1>5 DEF WorkerIInv, NoneHidden, LockHeld, LookedAgain, Looked, NoneStays
<1>8. Connected'
  <2>1. \A d \in Client : client[d].at \in Worker \/ client[d].at = 0
    BY HeldFacts DEF Worker
  <2>2. QED
    BY <1>1, <1>5, <2>1 DEF WorkerIInv, Connected
<1>9. IdleAlone'
  BY <1>1, <1>4 DEF WorkerIInv, IdleAlone, ConnectedTo
<1>10. ASSUME Same' PROVE Alike'
  <2>1. Same /\ Alike
    BY <1>1, <1>10 DEF Same, WorkerIInv
  <2>2. OfOneVersion' /\ LeavingAlone' /\ Losses'
    BY <1>1, <1>5, <2>1 DEF Alike, OfOneVersion, LeavingAlone, ConnectedTo, Losses, Lost
  <2>3. StartedFound'
    BY <1>1 DEF StartedFound, Found, Fresh, Starting
  <2>4. QED
    BY <2>2, <2>3 DEF Alike
<1>11. QED
  BY <1>6, <1>7, <1>8, <1>9, <1>10 DEF WorkerIInv

(* A worker that leaves or goes, and the connections that are cut with it.                                *)
LEMMA CutHolds ==
  ASSUME WorkerIInv, NEW w \in Worker, NEW state \in {"leaving", "gone"}, worker[w].state \in {"listening", "leaving"},
         worker' = [worker EXCEPT ![w].state = state], NEW cs \in SUBSET ConnectedTo(w), Cut(cs),
         UNCHANGED <<wants, started, stopping, lock, asked, failed>>,
         socket' = socket \/ (socket' = 0 /\ lock = NoOneAt /\ ~Answers),
         kills' \in 0..MaxKills, kills' >= kills, state = "gone" => cs = ConnectedTo(w),
         Same /\ Alike => cs = ConnectedTo(w), Same /\ Alike /\ cs \cap accepted # {} => kills' > kills,
         Same /\ Alike /\ (\E c \in Client : client[c].step \in Fresh) => w # socket
  PROVE  WorkerIInv'
<1>1. PICK k \in Known : k = [worker[w] EXCEPT !.state = state]
  <2>1. worker[w] \in Known
    BY WorkerTypes DEF WorkerIInv
  <2>2. [worker[w] EXCEPT !.state = state] \in Known
    BY <2>1 DEF Known
  <2>3. QED
    BY <2>2
<1>2. worker' = [worker EXCEPT ![w] = k] /\ k.state = state /\ k.version = worker[w].version /\ k.idle = worker[w].idle
  BY <1>1, WorkerTypes DEF WorkerIInv, Known
<1>3. worker' \in [Worker -> Known] /\ worker'[w] = k /\ \A v \in Worker \ {w} : worker'[v] = worker[v]
  BY <1>2, WorkerTypes DEF WorkerIInv
<1>4. Listening' = Listening \ {w}
  BY <1>2, <1>3 DEF Listening
<1>5. \A c \in Client :
        /\ client'[c] \in WorkerHeld /\ client'[c].step = client[c].step /\ client'[c].tries = client[c].tries
        /\ client'[c].at = IF c \in cs THEN 0 ELSE client[c].at
  BY HeldFacts DEF Cut, WorkerHeld
<1>6. client' \in [Client -> WorkerHeld] /\ accepted' = accepted \ cs
  BY <1>5 DEF Cut
<1>7. cs \subseteq Client /\ w # 0 /\ \A c \in cs : client[c].at = w
  BY DEF ConnectedTo, Worker
<1>8. EmbedTypeOK'
  <2>1. socket' \in 0..MaxWorkers
    BY WorkerTypes DEF WorkerIInv
  <2>2. QED
    BY <1>3, <1>6, <2>1, WorkerTypes DEF WorkerIInv, EmbedTypeOK, WorkerHeld, Place, Known
<1>9. NoneHidden'
  BY <1>4 DEF WorkerIInv, NoneHidden, Answers
<1>10. LockHeld'
  BY <1>5 DEF WorkerIInv, LockHeld
<1>11. Connected'
  <2> SUFFICES ASSUME NEW c \in Client
               PROVE  /\ client'[c].at # 0 =>
                           client'[c].step \in Linked /\ worker'[client'[c].at].state \in {"listening", "leaving"}
                      /\ c \in accepted' => client'[c].at # 0
    BY DEF Connected
  <2>1. c \in accepted' => client'[c].at # 0
    BY <1>5, <1>6 DEF WorkerIInv, Connected
  <2>2. ASSUME client'[c].at # 0 PROVE worker'[client'[c].at].state \in {"listening", "leaving"}
    <3>1. client'[c].at = client[c].at /\ c \notin cs /\ client[c].at \in Worker
      BY <1>5, <2>2, HeldFacts DEF Worker
    <3>2. CASE client[c].at = w
      BY <1>2, <1>3, <3>1, <3>2 DEF ConnectedTo
    <3>3. CASE client[c].at # w
      BY <1>3, <2>2, <3>1, <3>3 DEF WorkerIInv, Connected
    <3>4. QED
      BY <3>2, <3>3
  <2>3. client'[c].at # 0 => client'[c].step \in Linked
    BY <1>5 DEF WorkerIInv, Connected
  <2>4. QED
    BY <2>1, <2>2, <2>3
<1>12. LookedAgain'
  <2> SUFFICES ASSUME NEW c \in Client PROVE Looked(client[c])'
    BY DEF LookedAgain
  <2>1. CASE client[c].step \notin UnderLock
    BY <1>5, <2>1 DEF Looked, UnderLock
  <2>2. CASE client[c].step \in UnderLock
    <3>1. socket' = socket /\ Looked(client[c])
      BY <2>2 DEF WorkerIInv, LockHeld, LookedAgain
    <3>2. NoneStays => NoneStays'
      BY <1>4 DEF NoneStays
    <3>3. ASSUME c \in cs, client[c].step = "hello locked" PROVE NoneStays'
      <4>1. socket = w
        BY <1>7, <3>1, <3>3 DEF Looked
      <4>2. QED
        BY <1>4, <4>1 DEF WorkerIInv, NoneHidden, NoneStays
    <3>4. client'[c].step = client[c].step /\ (c \notin cs => client'[c].at = client[c].at) /\ (c \in cs => client'[c].at = 0)
      BY <1>5
    <3>5. QED
      BY <3>1, <3>2, <3>3, <3>4 DEF Looked
  <2>3. QED
    BY <2>1, <2>2
<1>13. IdleAlone'
  BY <1>2, <1>3, <1>5, <1>6, <1>7 DEF WorkerIInv, IdleAlone, ConnectedTo, Worker
<1>14. ASSUME Same' PROVE Alike'
  <2>1. Same /\ Alike
    BY <1>14 DEF Same, WorkerIInv
  <2>2. OfOneVersion'
    BY <1>2, <1>3, <2>1 DEF Alike, OfOneVersion
  <2>3. StartedFound'
    <3> SUFFICES ASSUME NEW c \in Client, client[c].step \in Fresh PROVE Found(client[c])'
      BY <1>5 DEF StartedFound, Found
    <3>1. w # socket /\ Answers /\ ~worker[socket].idle /\ (client[c].step = "hello started" => client[c].at = socket)
      BY <2>1 DEF Alike, StartedFound, Found
    <3>2. socket' = socket /\ Answers' /\ ~worker'[socket].idle
      BY <1>3, <1>4, <3>1 DEF Answers, Listening
    <3>3. c \notin cs \/ client[c].step # "hello started"
      BY <1>7, <3>1
    <3>4. QED
      BY <1>5, <3>1, <3>2, <3>3 DEF Found
  <2>4. LeavingAlone'
    <3> SUFFICES ASSUME NEW v \in Worker, worker'[v].state = "leaving", NEW c \in Client, client'[c].at = v PROVE FALSE
      BY DEF LeavingAlone, ConnectedTo
    <3>1. v # 0 /\ c \notin cs /\ client[c].at = v
      BY <1>5 DEF Worker
    <3>2. v # w
      BY <2>1, <3>1 DEF ConnectedTo
    <3>3. QED
      BY <1>3, <2>1, <3>1, <3>2 DEF Alike, LeavingAlone, ConnectedTo
  <2>5. Losses'
    <3>0. kills \in Nat /\ kills' \in Nat
      BY WorkerTypes DEF WorkerIInv
    <3>1. failed' # {} => kills' >= 2
      BY <2>1, <3>0 DEF Alike, Losses
    <3>2. ASSUME NEW c \in Client PROVE Lost(client[c], c \in accepted)'
      <4>1. Lost(client[c], c \in accepted)
        BY <2>1 DEF Alike, Losses
      <4>2. client'[c].step = client[c].step /\ client'[c].tries = client[c].tries
        BY <1>5
      <4>3. CASE c \in cs /\ c \in accepted
        <5>1. kills' >= kills + 1
          BY <2>1, <3>0, <4>3
        <5>2. QED
          BY <3>0, <4>1, <4>2, <5>1 DEF Lost
      <4>4. CASE ~(c \in cs /\ c \in accepted)
        <5>1. c \in accepted' <=> c \in accepted
          BY <1>6, <4>4
        <5>2. QED
          BY <3>0, <4>1, <4>2, <5>1 DEF Lost
      <4>5. QED
        BY <4>3, <4>4
    <3>3. QED
      BY <3>1, <3>2 DEF Losses
  <2>6. QED
    BY <2>2, <2>3, <2>4, <2>5 DEF Alike
<1>15. QED
  BY <1>8, <1>9, <1>10, <1>11, <1>12, <1>13, <1>14 DEF WorkerIInv

(* Where nobody was told to stop, who leaves was idle: nobody was accepted, and everybody is cut.         *)
LEMMA LeaveHolds == ASSUME WorkerIInv, NEW w \in Worker, Leave(w) PROVE WorkerIInv'
<1>1. /\ w \in Listening /\ (worker[w].idle \/ w \in stopping) /\ worker' = [worker EXCEPT ![w].state = "leaving"]
      /\ Cut(ConnectedTo(w) \ accepted) /\ UNCHANGED <<wants, started, stopping, socket, lock, asked, failed, kills>>
  BY DEF Leave
<1>2. worker[w].state \in {"listening", "leaving"} /\ kills' \in 0..MaxKills /\ kills' >= kills
  BY <1>1, WorkerTypes DEF WorkerIInv, Listening
<1>3. ConnectedTo(w) \ accepted \in SUBSET ConnectedTo(w) /\ (ConnectedTo(w) \ accepted) \cap accepted = {}
  OBVIOUS
<1>4. ASSUME Same, Alike PROVE ConnectedTo(w) \ accepted = ConnectedTo(w) /\ worker[w].idle
  BY <1>1, <1>4 DEF Alike, OfOneVersion, WorkerIInv, IdleAlone
<1>5. ASSUME Same, Alike, \E c \in Client : client[c].step \in Fresh PROVE w # socket
  BY <1>4, <1>5 DEF Alike, StartedFound, Found
<1>6. QED
  BY <1>1, <1>2, <1>3, <1>4, <1>5, CutHolds

LEMMA UnlinkHolds == ASSUME WorkerIInv, NEW w \in Worker, Unlink(w) PROVE WorkerIInv'
<1>1. /\ worker[w].state = "leaving" /\ lock = NoOneAt /\ socket' = IF Answers THEN socket ELSE 0
      /\ worker' = [worker EXCEPT ![w].state = "gone"] /\ Cut(ConnectedTo(w))
      /\ UNCHANGED <<wants, started, stopping, lock, asked, failed, kills>>
  BY DEF Unlink
<1>2. kills' \in 0..MaxKills /\ kills' >= kills
  BY <1>1, WorkerTypes DEF WorkerIInv
<1>3. Same /\ Alike => ConnectedTo(w) \cap accepted = {}
  BY <1>1 DEF Alike, LeavingAlone
<1>4. \A c \in Client : client[c].step \notin Fresh
  BY <1>1 DEF WorkerIInv, LockHeld, Fresh, UnderLock
<1>5. QED
  BY <1>1, <1>2, <1>3, <1>4, CutHolds

LEMMA KilledWorkerHolds == ASSUME WorkerIInv, NEW w \in Worker, KilledWorker(w) PROVE WorkerIInv'
<1>1. /\ kills < MaxKills /\ kills' = kills + 1 /\ worker[w].state \in {"listening", "leaving"}
      /\ worker' = [worker EXCEPT ![w].state = "gone"] /\ Cut(ConnectedTo(w))
      /\ UNCHANGED <<wants, started, stopping, socket, lock, asked, failed>>
  BY DEF KilledWorker
<1>2. kills' \in 0..MaxKills /\ kills' >= kills /\ kills' > kills
  BY <1>1, WorkerTypes DEF WorkerIInv
<1>3. \A c \in Client : client[c].step \notin Fresh
  BY DEF KilledWorker, Starting, Fresh
<1>4. QED
  BY <1>1, <1>2, <1>3, CutHolds

LEMMA WorkerNextHolds == WorkerIInv /\ [EmbedNext]_embedVars => WorkerIInv'
<1> SUFFICES ASSUME WorkerIInv, [EmbedNext]_embedVars PROVE WorkerIInv'
  OBVIOUS
<1>1. CASE UNCHANGED embedVars
  <2>1. EmbedTypeOK' /\ NoneHidden' /\ LockHeld' /\ Connected' /\ LookedAgain' /\ IdleAlone'
    BY <1>1 DEF embedVars, WorkerIInv, EmbedTypeOK, NoneHidden, LockHeld, Connected, LookedAgain, Looked, NoneStays,
       IdleAlone,
                Listening, ConnectedTo
  <2>2. Same' => Alike'
    BY <1>1 DEF embedVars, WorkerIInv, Same, Alike, OfOneVersion, StartedFound, Found, LeavingAlone, Losses, Lost,
       Answers,
                Listening, ConnectedTo
  <2>3. QED
    BY <2>1, <2>2 DEF WorkerIInv
<1>2. ASSUME NEW c \in Client, Ask(c) \/ ClientGoes(c) PROVE WorkerIInv'
  BY <1>2, AskHolds, OpenHolds, GreetedHolds, LockHolds, GreetedLockedHolds, StoppedHolds, SpawnHolds,
     GreetedStartedHolds, AnsweredHolds, WentAwayHolds DEF ClientGoes
<1>3. ASSUME NEW w \in Worker, Accept(w) \/ Unlink(w) \/ GrowsIdle(w) \/ Leave(w) \/ KilledWorker(w) PROVE WorkerIInv'
  BY <1>3, AcceptHolds, UnlinkHolds, GrowsIdleHolds, LeaveHolds, KilledWorkerHolds
<1>4. QED
  BY <1>1, <1>2, <1>3 DEF EmbedNext

(* However starts, stops, departures and deaths fall together, the path names every worker that listens   *)
(* and stays, so that there is one at most; and clients of one version get their answers over the loss of *)
(* a worker (embed_worker.py: serve, daemonize; embedding.py: SharedEmbedder._connect, _request).         *)
THEOREM WorkerReached == EmbedSpec => []WorkerInv
<1>1. WorkerIInv => WorkerInv
  <2> SUFFICES ASSUME WorkerIInv PROVE OneLossSurvived
    BY DEF WorkerIInv, WorkerInv
  <2>1. kills \in Nat
    BY WorkerTypes DEF WorkerIInv
  <2>2. QED
    BY <2>1 DEF WorkerIInv, Same, Alike, Losses, OneLossSurvived
<1>2. QED
  BY <1>1, WorkerInitHolds, WorkerNextHolds, PTL DEF EmbedSpec

HIDE WorkerBounds

-----------------------------------------------------------------------------
(* The theorem about Vectors: for any number of processes, of searching threads in each, of notes and of  *)
(* faults, a matrix that counts as current is, unless two threads read it at once, and processes embed    *)
(* one at a time unless a lease ran out under its owner.                                                  *)

VectorsHeld == [step : {"none", "drop", "lease", "pending", "embed", "release"},
         batch : SUBSET Note, read : [Note -> Version]]
SearchSteps == {"none", "rows", "read", "vectors", "generation"}
Search == [step : SearchSteps, of : Nat, rows : [Note -> Version]]
Matrix == [of : Nat, rows : [Note -> Version], vectors : [Note -> Version]]
Lease == [held : BOOLEAN, by : Process \cup {Nobody}, late : BOOLEAN]

(* Nobody has read a generation that is yet to come. *)
Behind ==
  /\ generation >= 1
  /\ \A t \in Searcher : search[t].of <= generation
  /\ \A p \in Process : matrix[p].of <= generation

(* What a search has read is of the generation it read before, or of a later one. *)
ReadAfter == \A t \in Searcher :
  search[t].step \in {"read", "vectors", "generation"} /\ search[t].of = generation => search[t].rows = embedded

(* A search that reads a matrix while no other one does: until it has assigned all of it, the matrix is of
   an older generation. *)
Alone == \A t \in Searcher : Loads(t) /\ ~crossed[RunsIn[t]] =>
  /\ \A u \in Searcher \ {t} : RunsIn[u] = RunsIn[t] => ~Loads(u)
  /\ matrix[RunsIn[t]].of < generation
  /\ search[t].step \in {"vectors", "generation"} => matrix[RunsIn[t]].rows = search[t].rows
  /\ search[t].step = "generation" => matrix[RunsIn[t]].vectors = search[t].rows

MatrixKept == MatrixCurrent /\ Behind /\ ReadAfter /\ Alone

(* Who embeds has the lease; a lease that is late is one whose owner is gone. *)
Busy(p) == embedding[p].step \in {"pending", "embed"}
OwnersEmbed == overrun \/ \A p \in Process : Busy(p) => lease.held /\ lease.by = p
LateLost == lease.late => overrun \/ lease.by = Nobody

VectorsIInv == VectorsTypeOK /\ MatrixKept /\ OwnersEmbed /\ LateLost

LEMMA VectorsBounds == MaxSyncs \in Nat /\ MaxFaults \in Nat /\ Nobody \notin Process /\ IsFiniteSet(Note)
                /\ \A t \in Searcher : RunsIn[t] \in Process
<1>1. MaxSyncs \in {MaxSyncs, MaxFaults} /\ MaxFaults \in {MaxSyncs, MaxFaults}
  OBVIOUS
<1>2. QED
  BY <1>1, VectorsAssumption DEF VectorsAssumption

USE VectorsBounds

LEMMA VectorsTypes == VectorsTypeOK <=>
  /\ syncs \in 0..MaxSyncs /\ version \in [Note -> Version] /\ embedded \in [Note -> Version] /\ generation \in Nat
  /\ lease \in Lease /\ embedding \in [Process -> VectorsHeld]
  /\ search \in [Searcher -> Search] /\ matrix \in [Process -> Matrix] /\ crossed \in [Process -> BOOLEAN]
  /\ faults \in 0..MaxFaults /\ overrun \in BOOLEAN
BY DEF VectorsTypeOK, Lease, VectorsHeld, Search, SearchSteps, Matrix

(* The types of what begins. *)
LEMMA Beginnings ==
  /\ [n \in Note |-> NoVersion] \in [Note -> Version] /\ Resting \in VectorsHeld /\ NoMatrix \in Matrix /\ NoLease \in Lease
  /\ Answering \in Search /\ Answering.step = "none" /\ Answering.of = 0
  /\ NoRows \in [Note -> Version] /\ Resting.step = "none" /\ NoMatrix.of = 0 /\ ~NoLease.late
<1>1. NoVersion \in Version
  BY DEF NoVersion, Version
<1>2. [n \in Note |-> NoVersion] \in [Note -> Version]
  BY <1>1
<1>3. QED
  BY <1>2 DEF Resting, VectorsHeld, NoRows, NoMatrix, Matrix, NoLease, Lease, Answering, Search, SearchSteps
-----------------------------------------------------------------------------
LEMMA VectorsInitHolds == VectorsInit => VectorsIInv
<1> SUFFICES ASSUME VectorsInit PROVE VectorsIInv
  OBVIOUS
<1>1. embedding \in [Process -> VectorsHeld] /\ search \in [Searcher -> Search] /\ matrix \in [Process -> Matrix]
     /\ crossed \in [Process -> BOOLEAN]
  BY Beginnings DEF VectorsInit
<1>20. /\ syncs \in 0..MaxSyncs /\ faults \in 0..MaxFaults /\ generation \in Nat /\ overrun \in BOOLEAN
       /\ version \in [Note -> Version] /\ embedded \in [Note -> Version] /\ lease \in Lease
  <2>1. syncs = 0 /\ faults = 0 /\ generation = 1 /\ overrun = FALSE
    BY DEF VectorsInit
  <2>2. version \in [Note -> Version] /\ embedded \in [Note -> Version] /\ lease \in Lease
    BY Beginnings DEF VectorsInit
  <2>3. 0 \in 0..MaxSyncs /\ 0 \in 0..MaxFaults /\ 1 \in Nat
    OBVIOUS
  <2>4. QED
    BY <2>1, <2>2, <2>3, Zenon
<1>2. VectorsTypeOK
  BY <1>1, <1>20, VectorsTypes
<1>3. MatrixKept
  BY Beginnings DEF VectorsInit, MatrixKept, MatrixCurrent, Behind, ReadAfter, Alone, Loads
<1>4. OwnersEmbed /\ LateLost
  BY Beginnings DEF VectorsInit, OwnersEmbed, LateLost, Busy
<1>5. QED
  BY <1>2, <1>3, <1>4 DEF VectorsIInv

(* Where the vectors stay, what was read of them stays as good as it was. *)
LEMMA IndexKept ==
  ASSUME VectorsIInv, UNCHANGED <<embedded, generation, searchVars>>
  PROVE  MatrixKept'
BY DEF searchVars, VectorsIInv, MatrixKept, MatrixCurrent, Behind, ReadAfter, Alone, Loads

(* Where vectors change, the generation does. *)
LEMMA IndexChanged ==
  ASSUME VectorsIInv, NEW S \in SUBSET Note, generation' = generation + Cardinality(S), UNCHANGED searchVars,
         S = {} => embedded' = embedded
  PROVE  MatrixKept' /\ generation' \in Nat
<1>1. IsFiniteSet(S) /\ Cardinality(S) \in Nat /\ (Cardinality(S) = 0 <=> S = {})
  BY FS_Subset, FS_CardinalityType, FS_EmptySet
<1>2. generation' \in Nat /\ generation' >= generation /\ (S # {} => generation' > generation)
  BY <1>1 DEF VectorsIInv, VectorsTypeOK
<1>3. /\ generation \in Nat
      /\ \A t \in Searcher : search[t].of \in Nat
      /\ \A p \in Process : matrix[p].of \in Nat
  BY DEF VectorsIInv, VectorsTypeOK
<1>4. /\ UNCHANGED <<search, matrix, crossed>>
      /\ MatrixCurrent /\ Behind /\ ReadAfter /\ Alone
  BY DEF searchVars, VectorsIInv, MatrixKept
<1>5. Behind'
  BY <1>2, <1>3, <1>4 DEF Behind
<1>6. MatrixCurrent'
  BY <1>1, <1>2, <1>3, <1>4 DEF Behind, MatrixCurrent
<1>7. ReadAfter'
  BY <1>1, <1>2, <1>3, <1>4 DEF Behind, ReadAfter
<1>8. Alone'
  BY <1>2, <1>3, <1>4 DEF Alone, Loads
<1>9. QED
  BY <1>2, <1>5, <1>6, <1>7, <1>8 DEF MatrixKept

(* What a step of one thread leaves of the others. *)
LEMMA ThreadFacts ==
  ASSUME VectorsIInv, NEW p \in Process, NEW e \in VectorsHeld, embedding' = [embedding EXCEPT ![p] = e]
  PROVE  embedding' \in [Process -> VectorsHeld] /\ embedding'[p] = e /\ \A q \in Process \ {p} : embedding'[q] = embedding[q]
BY VectorsTypes DEF VectorsIInv

LEMMA MovesFacts ==
  ASSUME VectorsIInv, NEW p \in Process, NEW step \in {"none", "drop", "lease", "pending", "embed", "release"}, Moves(p, step)
  PROVE  /\ embedding' \in [Process -> VectorsHeld] /\ embedding'[p].step = step
         /\ \A q \in Process \ {p} : embedding'[q] = embedding[q]
<1>1. embedding \in [Process -> VectorsHeld]
  BY VectorsTypes DEF VectorsIInv
<1>2. PICK e \in VectorsHeld : e = [embedding[p] EXCEPT !.step = step]
  BY <1>1 DEF VectorsHeld
<1>3. embedding' = [embedding EXCEPT ![p] = e] /\ e.step = step
  BY <1>1, <1>2 DEF Moves, VectorsHeld
<1>4. QED
  BY <1>3, ThreadFacts

(* A thread that goes on without beginning to embed, while the lease stays. *)
LEMMA ThreadHolds ==
  ASSUME VectorsIInv, NEW p \in Process, embedding' \in [Process -> VectorsHeld],
         \A q \in Process \ {p} : embedding'[q] = embedding[q],
         Busy(p)' => Busy(p), UNCHANGED <<lease, overrun>>
  PROVE  OwnersEmbed' /\ LateLost'
BY DEF VectorsIInv, OwnersEmbed, LateLost, Busy

LEMMA SyncHolds == ASSUME VectorsIInv, NEW n \in Note, Sync(n) PROVE VectorsIInv'
<1>1. PICK v \in Version : version' = [version EXCEPT ![n] = v]
  BY DEF Sync
<1>2. syncs' \in 0..MaxSyncs /\ version' \in [Note -> Version]
  BY <1>1, VectorsTypes DEF Sync, VectorsIInv
<1>3. UNCHANGED <<embedded, generation, lease, embedding, searchVars, faults, overrun>>
  BY DEF Sync
<1>4. VectorsTypeOK'
  BY <1>2, <1>3, VectorsTypes DEF VectorsIInv, VectorsTypeOK, searchVars
<1>5. MatrixKept'
  BY <1>3, IndexKept
<1>6. OwnersEmbed' /\ LateLost'
  BY <1>3 DEF VectorsIInv, OwnersEmbed, LateLost, Busy
<1>7. QED
  BY <1>4, <1>5, <1>6 DEF VectorsIInv

LEMMA RefreshHolds == ASSUME VectorsIInv, NEW p \in Process, Refresh(p) PROVE VectorsIInv'
<1>1. Moves(p, "drop") /\ UNCHANGED <<indexVars, lease, searchVars, faults, overrun>>
  BY DEF Refresh
<1>2. /\ embedding' \in [Process -> VectorsHeld] /\ embedding'[p].step = "drop"
      /\ \A q \in Process \ {p} : embedding'[q] = embedding[q]
  BY <1>1, MovesFacts
<1>3. VectorsTypeOK'
  BY <1>1, <1>2 DEF VectorsIInv, VectorsTypeOK, VectorsHeld, searchVars, indexVars
<1>4. MatrixKept'
  BY <1>1, IndexKept DEF indexVars
<1>5. OwnersEmbed' /\ LateLost'
  BY <1>1, <1>2, ThreadHolds DEF Busy
<1>6. QED
  BY <1>3, <1>4, <1>5 DEF VectorsIInv

LEMMA DropStaleHolds == ASSUME VectorsIInv, NEW p \in Process, DropStale(p) PROVE VectorsIInv'
<1>1. /\ Moves(p, "lease") /\ UNCHANGED <<syncs, version, lease, searchVars, faults, overrun>>
      /\ embedded' = [n \in Note |-> IF n \in Stale THEN NoVersion ELSE embedded[n]]
      /\ generation' = generation + Cardinality(Stale)
  BY DEF DropStale
<1>2. /\ embedding' \in [Process -> VectorsHeld] /\ embedding'[p].step = "lease"
      /\ \A q \in Process \ {p} : embedding'[q] = embedding[q]
  BY <1>1, MovesFacts
<1>3. embedded' \in [Note -> Version] /\ (Stale = {} => embedded' = embedded)
  BY <1>1 DEF VectorsIInv, VectorsTypeOK, NoVersion, Version
<1>4. Stale \subseteq Note
  BY DEF Stale
<1>5. MatrixKept' /\ generation' \in Nat
  BY <1>1, <1>3, <1>4, IndexChanged
<1>6. VectorsTypeOK'
  BY <1>1, <1>2, <1>3, <1>5 DEF VectorsIInv, VectorsTypeOK, VectorsHeld, searchVars
<1>7. OwnersEmbed' /\ LateLost'
  BY <1>1, <1>2, ThreadHolds DEF Busy
<1>8. QED
  BY <1>5, <1>6, <1>7 DEF VectorsIInv

(* Nobody else is embedding when a lease is taken, unless one ran out under its owner. *)
LEMMA TakeLeaseHolds == ASSUME VectorsIInv, NEW p \in Process, TakeLease(p) PROVE VectorsIInv'
<1>1. UNCHANGED <<indexVars, searchVars, faults, overrun>>
  BY DEF TakeLease
<1>2. MatrixKept'
  BY <1>1, IndexKept DEF indexVars
<1>3. CASE lease.held /\ lease.by # p /\ ~lease.late
  <2>1. Moves(p, "release") /\ UNCHANGED lease
    BY <1>3 DEF TakeLease
  <2>2. /\ embedding' \in [Process -> VectorsHeld] /\ embedding'[p].step = "release"
        /\ \A q \in Process \ {p} : embedding'[q] = embedding[q]
    BY <2>1, MovesFacts
  <2>3. VectorsTypeOK'
    BY <1>1, <2>1, <2>2 DEF VectorsIInv, VectorsTypeOK, VectorsHeld, searchVars, indexVars
  <2>4. OwnersEmbed' /\ LateLost'
    BY <1>1, <2>1, <2>2, ThreadHolds DEF Busy
  <2>5. QED
    BY <1>2, <2>3, <2>4 DEF VectorsIInv
<1>4. CASE ~(lease.held /\ lease.by # p /\ ~lease.late)
  <2>1. Moves(p, "pending") /\ lease' = [held |-> TRUE, by |-> p, late |-> FALSE]
    BY <1>4 DEF TakeLease
  <2>2. /\ embedding' \in [Process -> VectorsHeld] /\ embedding'[p].step = "pending"
        /\ \A q \in Process \ {p} : embedding'[q] = embedding[q]
    BY <2>1, MovesFacts
  <2>3. lease' \in Lease /\ lease'.held /\ lease'.by = p /\ ~lease'.late
    BY <2>1 DEF Lease
  <2>4. VectorsTypeOK'
    BY <1>1, <2>2, <2>3 DEF VectorsIInv, VectorsTypeOK, VectorsHeld, Lease, searchVars, indexVars
  <2>5. ASSUME ~overrun, NEW q \in Process, q # p PROVE ~Busy(q)
    BY <1>4, <2>5 DEF VectorsIInv, OwnersEmbed, LateLost
  <2>6. OwnersEmbed'
    BY <1>1, <2>2, <2>3, <2>5 DEF OwnersEmbed, Busy
  <2>7. LateLost'
    BY <2>3 DEF LateLost
  <2>8. QED
    BY <1>2, <2>4, <2>6, <2>7 DEF VectorsIInv
<1>5. QED
  BY <1>3, <1>4

LEMMA ReadPendingHolds == ASSUME VectorsIInv, NEW p \in Process, ReadPending(p) PROVE VectorsIInv'
<1>1. UNCHANGED <<indexVars, lease, searchVars, faults, overrun>> /\ Busy(p)
  BY DEF ReadPending, At, Busy
<1>2. /\ embedding' \in [Process -> VectorsHeld]
      /\ \A q \in Process \ {p} : embedding'[q] = embedding[q]
  <2>1. CASE Moves(p, "release")
    BY <2>1, MovesFacts
  <2>2. CASE \E batch \in SUBSET Pending : embedding' = [embedding EXCEPT ![p] = [step |-> "embed", batch |-> batch,
              read |-> [n \in Note |-> IF n \in batch THEN version[n] ELSE NoVersion]]]
    <3>1. PICK batch \in SUBSET Pending : embedding' = [embedding EXCEPT ![p] = [step |-> "embed", batch |-> batch,
              read |-> [n \in Note |-> IF n \in batch THEN version[n] ELSE NoVersion]]]
      BY <2>2
    <3>2. [n \in Note |-> IF n \in batch THEN version[n] ELSE NoVersion] \in [Note -> Version]
      BY DEF VectorsIInv, VectorsTypeOK, NoVersion, Version
    <3>3. batch \in SUBSET Note
      BY DEF Pending
    <3>4. [step |-> "embed", batch |-> batch,
           read |-> [n \in Note |-> IF n \in batch THEN version[n] ELSE NoVersion]] \in VectorsHeld
      BY <3>2, <3>3 DEF VectorsHeld
    <3>5. QED
      BY <3>1, <3>4, ThreadFacts
  <2>3. QED
    BY <2>1, <2>2 DEF ReadPending
<1>3. VectorsTypeOK'
  BY <1>1, <1>2 DEF VectorsIInv, VectorsTypeOK, VectorsHeld, searchVars, indexVars
<1>4. MatrixKept'
  BY <1>1, IndexKept DEF indexVars
<1>5. OwnersEmbed' /\ LateLost'
  BY <1>1, <1>2, ThreadHolds
<1>6. QED
  BY <1>3, <1>4, <1>5 DEF VectorsIInv

LEMMA VectorsWriteHolds == ASSUME VectorsIInv, NEW p \in Process, Write(p) PROVE VectorsIInv'
<1>1. PICK current : current = {n \in embedding[p].batch : version[n] = embedding[p].read[n]}
  OBVIOUS
<1>2. /\ embedding' = [embedding EXCEPT ![p] = [Resting EXCEPT !.step = "lease"]]
      /\ embedded' = [n \in Note |-> IF n \in current THEN version[n] ELSE embedded[n]]
      /\ generation' = generation + Cardinality(current)
      /\ UNCHANGED <<syncs, version, lease, searchVars, faults, overrun>>
  BY <1>1 DEF Write
<1>3. PICK e \in VectorsHeld : e = [Resting EXCEPT !.step = "lease"] /\ e.step = "lease"
  <2>1. PICK e : e = [Resting EXCEPT !.step = "lease"]
    OBVIOUS
  <2>2. e \in VectorsHeld /\ e.step = "lease"
    BY <2>1, Beginnings DEF VectorsHeld
  <2>3. QED
    BY <2>1, <2>2
<1>4. /\ embedding' \in [Process -> VectorsHeld] /\ embedding'[p].step = "lease"
      /\ \A q \in Process \ {p} : embedding'[q] = embedding[q]
  BY <1>2, <1>3, ThreadFacts
<1>5. current \subseteq Note
  BY <1>1 DEF VectorsIInv, VectorsTypeOK
<1>6. embedded' \in [Note -> Version] /\ (current = {} => embedded' = embedded)
  BY <1>2 DEF VectorsIInv, VectorsTypeOK
<1>7. MatrixKept' /\ generation' \in Nat
  BY <1>2, <1>5, <1>6, IndexChanged
<1>8. VectorsTypeOK'
  BY <1>2, <1>4, <1>6, <1>7 DEF VectorsIInv, VectorsTypeOK, VectorsHeld, searchVars
<1>9. OwnersEmbed' /\ LateLost'
  BY <1>2, <1>4, ThreadHolds DEF Busy
<1>10. QED
  BY <1>7, <1>8, <1>9 DEF VectorsIInv

LEMMA EmbedderFailsHolds == ASSUME VectorsIInv, NEW p \in Process, EmbedderFails(p) PROVE VectorsIInv'
<1>1. Moves(p, "release") /\ UNCHANGED <<indexVars, lease, searchVars, overrun>> /\ faults' \in 0..MaxFaults
  BY DEF EmbedderFails, VectorsIInv, VectorsTypeOK
<1>2. /\ embedding' \in [Process -> VectorsHeld] /\ embedding'[p].step = "release"
      /\ \A q \in Process \ {p} : embedding'[q] = embedding[q]
  BY <1>1, MovesFacts
<1>3. VectorsTypeOK'
  BY <1>1, <1>2 DEF VectorsIInv, VectorsTypeOK, VectorsHeld, searchVars, indexVars
<1>4. MatrixKept'
  BY <1>1, IndexKept DEF indexVars
<1>5. OwnersEmbed' /\ LateLost'
  BY <1>1, <1>2, ThreadHolds DEF Busy
<1>6. QED
  BY <1>3, <1>4, <1>5 DEF VectorsIInv

(* Who was refused gives nothing away; who had the lease no longer embeds. *)
LEMMA ReleaseLeaseHolds == ASSUME VectorsIInv, NEW p \in Process, ReleaseLease(p) PROVE VectorsIInv'
<1>1. /\ embedding[p].step = "release" /\ embedding' = [embedding EXCEPT ![p] = Resting]
      /\ lease' = IF lease.held /\ lease.by = p THEN NoLease ELSE lease
      /\ UNCHANGED <<indexVars, searchVars, faults, overrun>>
  BY DEF ReleaseLease, At, Rests
<1>2. embedding' \in [Process -> VectorsHeld] /\ embedding'[p] = Resting /\ \A q \in Process \ {p} : embedding'[q] = embedding[q]
  BY <1>1, Beginnings, ThreadFacts
<1>3. lease' \in Lease
  BY <1>1, Beginnings, VectorsTypes DEF VectorsIInv
<1>4. VectorsTypeOK'
  BY <1>1, <1>2, <1>3 DEF VectorsIInv, VectorsTypeOK, VectorsHeld, Lease, searchVars, indexVars
<1>5. MatrixKept'
  BY <1>1, IndexKept DEF indexVars
<1>6. OwnersEmbed'
  BY <1>1, <1>2, Beginnings DEF VectorsIInv, OwnersEmbed, Busy
<1>7. LateLost'
  BY <1>1, Beginnings DEF VectorsIInv, LateLost
<1>8. QED
  BY <1>4, <1>5, <1>6, <1>7 DEF VectorsIInv

LEMMA LeaseRunsOutHolds == ASSUME VectorsIInv, LeaseRunsOut PROVE VectorsIInv'
<1>1. lease' = [lease EXCEPT !.late = TRUE] /\ lease \in Lease /\ overrun \in BOOLEAN
  BY VectorsTypes DEF LeaseRunsOut, VectorsIInv
<1>2. lease' \in Lease /\ lease'.held = lease.held /\ lease'.by = lease.by /\ lease'.late
  BY <1>1 DEF Lease
<1>3. faults' \in 0..MaxFaults
  BY DEF LeaseRunsOut, VectorsIInv, VectorsTypeOK
<1>4. overrun' = (overrun \/ lease.by # Nobody) /\ UNCHANGED <<indexVars, embedding, searchVars>>
  BY DEF LeaseRunsOut
<1>5. overrun' \in BOOLEAN
  BY <1>1, <1>4
<1>6. VectorsTypeOK'
  BY <1>2, <1>3, <1>4, <1>5 DEF VectorsIInv, VectorsTypeOK, Lease, searchVars, indexVars
<1>7. MatrixKept'
  BY <1>4, IndexKept DEF indexVars
<1>8. OwnersEmbed'
  BY <1>2, <1>4 DEF VectorsIInv, OwnersEmbed, Busy
<1>9. LateLost'
  BY <1>2, <1>4 DEF LateLost
<1>10. QED
  BY <1>6, <1>7, <1>8, <1>9 DEF VectorsIInv

LEMMA KilledHolds == ASSUME VectorsIInv, NEW p \in Process, Killed(p) PROVE VectorsIInv'
<1>1. /\ embedding' = [embedding EXCEPT ![p] = Resting]
      /\ lease' = IF lease.held /\ lease.by = p THEN [lease EXCEPT !.by = Nobody] ELSE lease
      /\ search' = [t \in Searcher |-> IF RunsIn[t] = p THEN Answering ELSE search[t]]
      /\ matrix' = [matrix EXCEPT ![p] = NoMatrix] /\ crossed' = [crossed EXCEPT ![p] = FALSE]
      /\ UNCHANGED <<indexVars, overrun>>
  BY DEF Killed, Rests
<1>2. embedding' \in [Process -> VectorsHeld] /\ embedding'[p] = Resting /\ \A q \in Process \ {p} : embedding'[q] = embedding[q]
  BY <1>1, Beginnings, ThreadFacts
<1>3. /\ lease' \in Lease /\ lease'.held = lease.held /\ lease'.late = lease.late
      /\ lease'.by = IF lease.held /\ lease.by = p THEN Nobody ELSE lease.by
  BY <1>1, VectorsTypes DEF VectorsIInv, Lease
<1>4. search' \in [Searcher -> Search] /\ matrix' \in [Process -> Matrix] /\ crossed' \in [Process -> BOOLEAN]
  BY <1>1, Beginnings, VectorsTypes DEF VectorsIInv
<1>5. faults' \in 0..MaxFaults
  BY DEF Killed, VectorsIInv, VectorsTypeOK
<1>6. VectorsTypeOK'
  BY <1>1, <1>2, <1>3, <1>4, <1>5, VectorsTypes DEF VectorsIInv, VectorsTypeOK, VectorsHeld, Lease, Search, SearchSteps, Matrix,
     indexVars
<1>7. generation' = generation /\ embedded' = embedded /\ generation >= 1 /\ generation \in Nat
  BY <1>1 DEF indexVars, VectorsIInv, MatrixKept, Behind, VectorsTypeOK
<1>8. /\ matrix'[p] = NoMatrix /\ \A q \in Process \ {p} : matrix'[q] = matrix[q] /\ crossed'[q] = crossed[q]
      /\ \A t \in Searcher : search'[t] = IF RunsIn[t] = p THEN Answering ELSE search[t]
  BY <1>1 DEF VectorsIInv, VectorsTypeOK
<1>9. MatrixCurrent'
  <2> SUFFICES ASSUME NEW q \in Process, matrix'[q].of = generation', ~crossed'[q]
               PROVE  matrix'[q].rows = embedded' /\ matrix'[q].vectors = embedded'
    BY DEF MatrixCurrent
  <2>1. q # p
    BY <1>7, <1>8, Beginnings
  <2>2. QED
    BY <1>7, <1>8, <2>1 DEF VectorsIInv, MatrixKept, MatrixCurrent
<1>10. Behind' /\ ReadAfter'
  BY <1>7, <1>8, Beginnings DEF VectorsIInv, MatrixKept, Behind, ReadAfter
<1>11. Alone'
  BY <1>7, <1>8, Beginnings DEF VectorsIInv, MatrixKept, Alone, Loads
<1>12. OwnersEmbed'
  BY <1>1, <1>2, <1>3, Beginnings DEF VectorsIInv, OwnersEmbed, Busy
<1>13. LateLost'
  BY <1>1, <1>3 DEF VectorsIInv, LateLost
<1>14. QED
  BY <1>6, <1>9, <1>10, <1>11, <1>12, <1>13 DEF VectorsIInv, MatrixKept

(* What a step of one search leaves of the others. *)
LEMMA SearchFacts ==
  ASSUME VectorsIInv, NEW t \in Searcher, NEW e \in Search, search' = [search EXCEPT ![t] = e]
  PROVE  search' \in [Searcher -> Search] /\ search'[t] = e /\ \A u \in Searcher \ {t} : search'[u] = search[u]
BY VectorsTypes DEF VectorsIInv

LEMMA AssignsFacts ==
  ASSUME VectorsIInv, NEW t \in Searcher, NEW from \in SearchSteps, NEW to \in SearchSteps, Assigns(t, from, to)
  PROVE  /\ search' \in [Searcher -> Search] /\ search[t].step = from /\ search'[t].step = to
         /\ search'[t].of = search[t].of /\ search'[t].rows = search[t].rows
         /\ \A u \in Searcher \ {t} : search'[u] = search[u]
<1>1. search \in [Searcher -> Search]
  BY VectorsTypes DEF VectorsIInv
<1>2. PICK e \in Search : e = [search[t] EXCEPT !.step = to]
  BY <1>1 DEF Search
<1>3. search' = [search EXCEPT ![t] = e] /\ e.step = to /\ e.of = search[t].of /\ e.rows = search[t].rows
  BY <1>1, <1>2 DEF Assigns, Search
<1>4. QED
  BY <1>3, SearchFacts DEF Assigns

(* The generation it read is the one of now, or an older one. *)
LEMMA ReadGenerationHolds == ASSUME VectorsIInv, NEW t \in Searcher, ReadGeneration(t) PROVE VectorsIInv'
<1> DEFINE p == RunsIn[t]
<1> USE DEF MatrixKept
<1>1. /\ ~Loads(t) /\ matrix[p].of # generation
      /\ search' = [search EXCEPT ![t] = [step |-> "rows", of |-> generation, rows |-> NoRows]]
      /\ crossed' = [crossed EXCEPT ![p] = \E u \in Searcher \ {t} : RunsIn[u] = p /\ Loads(u)]
      /\ UNCHANGED <<indexVars, lease, embedding, matrix, faults, overrun>>
  BY DEF ReadGeneration
<1>2. [step |-> "rows", of |-> generation, rows |-> NoRows] \in Search
  BY Beginnings DEF VectorsIInv, VectorsTypeOK, Search, SearchSteps
<1>3. /\ search' \in [Searcher -> Search] /\ search'[t].step = "rows" /\ search'[t].of = generation
      /\ \A u \in Searcher \ {t} : search'[u] = search[u]
  BY <1>1, <1>2, SearchFacts
<1>4. /\ crossed' \in [Process -> BOOLEAN] /\ \A q \in Process \ {p} : crossed'[q] = crossed[q]
      /\ crossed'[p] <=> \E u \in Searcher \ {t} : RunsIn[u] = p /\ Loads(u)
  BY <1>1, VectorsTypes DEF VectorsIInv
<1>5. VectorsTypeOK'
  BY <1>1, <1>3, <1>4 DEF VectorsIInv, VectorsTypeOK, Search, SearchSteps, indexVars
<1>6. generation \in Nat /\ matrix[p].of \in Nat /\ matrix[p].of < generation
  <2>1. p \in Process /\ generation \in Nat /\ matrix \in [Process -> Matrix]
    BY VectorsTypes DEF VectorsIInv
  <2>2. matrix[p].of \in Nat /\ matrix[p].of <= generation
    BY <2>1 DEF Matrix, VectorsIInv, Behind
  <2>3. QED
    BY <1>1, <2>1, <2>2
<1>7. Behind' /\ ReadAfter'
  BY <1>1, <1>3, <1>6 DEF VectorsIInv, Behind, ReadAfter, indexVars
<1>8. MatrixCurrent'
  BY <1>1, <1>4, <1>6 DEF VectorsIInv, MatrixCurrent, indexVars
<1>9. Alone'
  <2> SUFFICES ASSUME NEW v \in Searcher, Loads(v)', ~crossed'[RunsIn[v]]
      PROVE /\ \A u \in Searcher \ {v} : RunsIn[u] = RunsIn[v] => ~Loads(u)'
            /\ matrix'[RunsIn[v]].of < generation'
            /\ search'[v].step \in {"vectors", "generation"} => matrix'[RunsIn[v]].rows = search'[v].rows
            /\ search'[v].step = "generation" => matrix'[RunsIn[v]].vectors = search'[v].rows
    BY DEF Alone
  <2>1. generation' = generation /\ matrix' = matrix
    BY <1>1 DEF indexVars
  <2>2. CASE RunsIn[v] = p
    <3>1. v = t
      BY <1>3, <1>4, <2>2 DEF Loads
    <3>2. QED
      BY <1>3, <1>4, <1>6, <2>1, <2>2, <3>1 DEF Loads
  <2>3. CASE RunsIn[v] # p
    BY <1>3, <1>4, <2>1, <2>3 DEF VectorsIInv, Alone, Loads
  <2>4. QED
    BY <2>2, <2>3
<1>10. OwnersEmbed' /\ LateLost'
  BY <1>1 DEF VectorsIInv, OwnersEmbed, LateLost, Busy
<1>11. QED
  BY <1>5, <1>7, <1>8, <1>9, <1>10 DEF VectorsIInv

(* The vectors it reads then are of that generation or of a later one. *)
LEMMA ReadRowsHolds == ASSUME VectorsIInv, NEW t \in Searcher, ReadRows(t) PROVE VectorsIInv'
<1> USE DEF MatrixKept
<1>1. /\ search[t].step = "rows"
      /\ search' = [search EXCEPT ![t] = [step |-> "read", of |-> search[t].of, rows |-> embedded]]
      /\ UNCHANGED <<indexVars, lease, embedding, matrix, crossed, faults, overrun>>
  BY DEF ReadRows
<1>2. [step |-> "read", of |-> search[t].of, rows |-> embedded] \in Search
  BY DEF VectorsIInv, VectorsTypeOK, Search, SearchSteps
<1>3. /\ search' \in [Searcher -> Search] /\ search'[t].step = "read"
      /\ search'[t].of = search[t].of /\ search'[t].rows = embedded
      /\ \A u \in Searcher \ {t} : search'[u] = search[u]
  BY <1>1, <1>2, SearchFacts
<1>4. VectorsTypeOK'
  BY <1>1, <1>3 DEF VectorsIInv, VectorsTypeOK, Search, SearchSteps, indexVars
<1>5. Behind' /\ ReadAfter'
  BY <1>1, <1>3 DEF VectorsIInv, Behind, ReadAfter, indexVars
<1>6. MatrixCurrent'
  BY <1>1 DEF VectorsIInv, MatrixCurrent, indexVars
<1>7. Alone'
  BY <1>1, <1>3 DEF VectorsIInv, Alone, Loads, indexVars
<1>8. OwnersEmbed' /\ LateLost'
  BY <1>1 DEF VectorsIInv, OwnersEmbed, LateLost, Busy
<1>9. QED
  BY <1>4, <1>5, <1>6, <1>7, <1>8 DEF VectorsIInv

(* While a search that reads alone assigns what it has read, its matrix does not count as current. *)
LEMMA AssignsHold ==
  ASSUME VectorsIInv, NEW t \in Searcher, AssignRows(t) \/ AssignMatrix(t)
  PROVE  VectorsIInv'
<1> DEFINE p == RunsIn[t]
<1> USE DEF MatrixKept
<1>1. UNCHANGED <<indexVars, lease, embedding, crossed, faults, overrun>>
  BY DEF AssignRows, AssignMatrix
<1>2. /\ search' \in [Searcher -> Search] /\ search[t].step \in {"read", "vectors"}
      /\ search[t].step = "read" <=> search'[t].step = "vectors"
      /\ search[t].step = "vectors" <=> search'[t].step = "generation"
      /\ search'[t].of = search[t].of /\ search'[t].rows = search[t].rows
      /\ \A u \in Searcher \ {t} : search'[u] = search[u]
  BY AssignsFacts DEF AssignRows, AssignMatrix, SearchSteps
<1>3. /\ matrix' \in [Process -> Matrix] /\ \A q \in Process \ {p} : matrix'[q] = matrix[q]
      /\ matrix'[p].of = matrix[p].of
      /\ search[t].step = "read" => matrix'[p].rows = search[t].rows
      /\ search[t].step = "vectors" => matrix'[p].rows = matrix[p].rows /\ matrix'[p].vectors = search[t].rows
  <2>1. matrix \in [Process -> Matrix] /\ search[t].rows \in [Note -> Version] /\ p \in Process
    BY VectorsTypes DEF VectorsIInv, Search
  <2>2. CASE AssignRows(t)
    <3>1. matrix' = [matrix EXCEPT ![p] = [matrix[p] EXCEPT !.rows = search[t].rows]] /\ search[t].step = "read"
      BY <2>2 DEF AssignRows, Assigns
    <3>2. QED
      BY <2>1, <3>1 DEF Matrix
  <2>3. CASE AssignMatrix(t)
    <3>1. matrix' = [matrix EXCEPT ![p] = [matrix[p] EXCEPT !.vectors = search[t].rows]] /\ search[t].step = "vectors"
      BY <2>3 DEF AssignMatrix, Assigns
    <3>2. QED
      BY <2>1, <3>1 DEF Matrix
  <2>4. QED
    BY <2>2, <2>3
<1>4. VectorsTypeOK'
  BY <1>1, <1>2, <1>3 DEF VectorsIInv, VectorsTypeOK, Search, SearchSteps, Matrix, indexVars
<1>5. generation' = generation /\ embedded' = embedded /\ crossed' = crossed /\ p \in Process
  BY <1>1 DEF indexVars
<1>6. Behind' /\ ReadAfter'
  BY <1>2, <1>3, <1>5 DEF VectorsIInv, Behind, ReadAfter
<1>7. ~crossed[p] => matrix[p].of < generation /\ generation \in Nat /\ matrix[p].of \in Nat
  BY <1>2 DEF VectorsIInv, VectorsTypeOK, Alone, Loads
<1>8. MatrixCurrent'
  BY <1>3, <1>5, <1>7 DEF VectorsIInv, MatrixCurrent
<1>9. Alone'
  <2> SUFFICES ASSUME NEW v \in Searcher, Loads(v)', ~crossed'[RunsIn[v]]
      PROVE /\ \A u \in Searcher \ {v} : RunsIn[u] = RunsIn[v] => ~Loads(u)'
            /\ matrix'[RunsIn[v]].of < generation'
            /\ search'[v].step \in {"vectors", "generation"} => matrix'[RunsIn[v]].rows = search'[v].rows
            /\ search'[v].step = "generation" => matrix'[RunsIn[v]].vectors = search'[v].rows
    BY DEF Alone
  <2>1. Loads(t) /\ \A u \in Searcher : Loads(u)' <=> Loads(u)
    BY <1>2 DEF Loads
  <2>2. CASE RunsIn[v] = p
    <3>1. v = t
      BY <1>5, <2>1, <2>2 DEF VectorsIInv, Alone
    <3>2. QED
      BY <1>2, <1>3, <1>5, <2>1, <3>1 DEF VectorsIInv, Alone
  <2>3. CASE RunsIn[v] # p
    BY <1>2, <1>3, <1>5, <2>1, <2>3 DEF VectorsIInv, Alone
  <2>4. QED
    BY <2>2, <2>3
<1>10. OwnersEmbed' /\ LateLost'
  BY <1>1 DEF VectorsIInv, OwnersEmbed, LateLost, Busy
<1>11. QED
  BY <1>4, <1>6, <1>8, <1>9, <1>10 DEF VectorsIInv

(* At last it counts as what was read. *)
LEMMA AssignGenerationHolds == ASSUME VectorsIInv, NEW t \in Searcher, AssignGeneration(t) PROVE VectorsIInv'
<1> DEFINE p == RunsIn[t]
<1> USE DEF MatrixKept
<1>1. /\ search[t].step = "generation" /\ search' = [search EXCEPT ![t] = Answering]
      /\ matrix' = [matrix EXCEPT ![p] = [matrix[p] EXCEPT !.of = search[t].of]]
      /\ UNCHANGED <<indexVars, lease, embedding, crossed, faults, overrun>>
  BY DEF AssignGeneration
<1>2. search' \in [Searcher -> Search] /\ search'[t] = Answering /\ \A u \in Searcher \ {t} : search'[u] = search[u]
  BY <1>1, Beginnings, SearchFacts
<1>3. /\ matrix' \in [Process -> Matrix] /\ \A q \in Process \ {p} : matrix'[q] = matrix[q]
      /\ matrix'[p].of = search[t].of /\ matrix'[p].rows = matrix[p].rows /\ matrix'[p].vectors = matrix[p].vectors
  <2>1. matrix \in [Process -> Matrix] /\ search[t].of \in Nat /\ p \in Process
    BY VectorsTypes DEF VectorsIInv, Search
  <2>2. QED
    BY <1>1, <2>1 DEF Matrix
<1>4. VectorsTypeOK'
  BY <1>1, <1>2, <1>3 DEF VectorsIInv, VectorsTypeOK, Search, SearchSteps, Matrix, indexVars
<1>5. generation' = generation /\ embedded' = embedded /\ crossed' = crossed /\ p \in Process
  BY <1>1 DEF indexVars
<1>6. Behind' /\ ReadAfter'
  <2>1. search'[t].of = 0 /\ search'[t].step = "none" /\ search[t].of <= generation
    BY <1>2, Beginnings DEF VectorsIInv, Behind
  <2>2. Behind'
    <3>1. generation \in Nat /\ generation' = generation /\ Behind
      BY <1>5 DEF VectorsIInv, VectorsTypeOK
    <3>2. \A u \in Searcher : search'[u].of <= generation'
      BY <1>2, <2>1, <3>1 DEF Behind
    <3>3. \A q \in Process : matrix'[q].of <= generation'
      BY <1>3, <2>1, <3>1 DEF Behind
    <3>4. QED
      BY <3>1, <3>2, <3>3 DEF Behind
  <2>3. ReadAfter'
    BY <1>2, <1>5, <2>1 DEF VectorsIInv, ReadAfter
  <2>4. QED
    BY <2>2, <2>3
<1>7. Loads(t) /\ ~Loads(t)' /\ \A u \in Searcher \ {t} : Loads(u)' <=> Loads(u)
  BY <1>1, <1>2, Beginnings DEF Loads
<1>8. MatrixCurrent'
  <2> SUFFICES ASSUME NEW q \in Process, matrix'[q].of = generation', ~crossed'[q]
               PROVE  matrix'[q].rows = embedded' /\ matrix'[q].vectors = embedded'
    BY DEF MatrixCurrent
  <2>1. CASE q # p
    BY <1>3, <1>5, <2>1 DEF VectorsIInv, MatrixCurrent
  <2>2. CASE q = p
    <3>1. matrix[p].rows = search[t].rows /\ matrix[p].vectors = search[t].rows
      BY <1>1, <1>5, <1>7, <2>2 DEF VectorsIInv, Alone
    <3>2. search[t].rows = embedded
      BY <1>1, <1>3, <1>5, <2>2 DEF VectorsIInv, ReadAfter
    <3>3. QED
      BY <1>3, <1>5, <2>2, <3>1, <3>2
  <2>3. QED
    BY <2>1, <2>2
<1>9. Alone'
  <2> SUFFICES ASSUME NEW v \in Searcher, Loads(v)', ~crossed'[RunsIn[v]]
      PROVE /\ \A u \in Searcher \ {v} : RunsIn[u] = RunsIn[v] => ~Loads(u)'
            /\ matrix'[RunsIn[v]].of < generation'
            /\ search'[v].step \in {"vectors", "generation"} => matrix'[RunsIn[v]].rows = search'[v].rows
            /\ search'[v].step = "generation" => matrix'[RunsIn[v]].vectors = search'[v].rows
    BY DEF Alone
  <2>1. v # t /\ Loads(v)
    BY <1>7
  <2>2. RunsIn[v] # p
    BY <1>5, <1>7, <2>1 DEF VectorsIInv, Alone
  <2>3. QED
    BY <1>2, <1>3, <1>5, <1>7, <2>1, <2>2 DEF VectorsIInv, Alone
<1>10. OwnersEmbed' /\ LateLost'
  BY <1>1 DEF VectorsIInv, OwnersEmbed, LateLost, Busy
<1>11. QED
  BY <1>4, <1>6, <1>8, <1>9, <1>10 DEF VectorsIInv

LEMMA VectorsNextHolds == VectorsIInv /\ [VectorsNext]_vectorsVars => VectorsIInv'
<1> SUFFICES ASSUME VectorsIInv, [VectorsNext]_vectorsVars PROVE VectorsIInv'
  OBVIOUS
<1>1. CASE UNCHANGED vectorsVars
  BY <1>1 DEF vectorsVars, VectorsIInv, VectorsTypeOK, MatrixKept, MatrixCurrent, Behind, ReadAfter, Alone, Loads,
     OwnersEmbed, LateLost, Busy
<1>2. ASSUME NEW n \in Note, Sync(n) PROVE VectorsIInv'
  BY <1>2, SyncHolds
<1>3. CASE LeaseRunsOut
  BY <1>3, LeaseRunsOutHolds
<1>4. ASSUME NEW p \in Process, Embeds(p) \/ EmbedderFails(p) \/ Killed(p) PROVE VectorsIInv'
  BY <1>4, RefreshHolds, DropStaleHolds, TakeLeaseHolds, ReadPendingHolds, VectorsWriteHolds, ReleaseLeaseHolds,
     EmbedderFailsHolds, KilledHolds DEF Embeds
<1>5. ASSUME NEW t \in Searcher, LoadMatrix(t) PROVE VectorsIInv'
  BY <1>5, ReadGenerationHolds, ReadRowsHolds, AssignsHold, AssignGenerationHolds DEF LoadMatrix
<1>6. QED
  BY <1>1, <1>2, <1>3, <1>4, <1>5 DEF VectorsNext

(* Two who both have the lease are one. *)
LEMMA OneEmbedsHolds == VectorsIInv => OneEmbeds
<1> SUFFICES ASSUME VectorsIInv, ~overrun,
                    NEW S, S = {p \in Process : embedding[p].step \in {"pending", "embed"}}
             PROVE  Cardinality(S) <= 1
  BY DEF OneEmbeds
<1>1. \A p \in S : lease.by = p
  BY DEF VectorsIInv, OwnersEmbed, Busy
<1>2. CASE S = {}
  BY <1>2, FS_EmptySet
<1>3. CASE S # {}
  <2>1. S = {lease.by}
    BY <1>1, <1>3
  <2>2. \A x : Cardinality({x}) = 1
    BY FS_Singleton
  <2>3. Cardinality(S) = 1
    BY <2>1, <2>2
  <2>4. QED
    BY <2>3
<1>4. QED
  BY <1>2, <1>3

(* A matrix that counts as current holds the vectors there are and their keys, whoever wrote while it was *)
(* read (vectors.py: _load_matrix), if the last search to read it did so while no other search of its     *)
(* process did; and one process embeds at a time, also after one was refused or died, unless the lease    *)
(* ran out under its owner (_take_lease, _release_lease).                                                 *)
THEOREM VectorsCurrent == VectorsSpec => []VectorsInv
<1>1. VectorsIInv => VectorsInv
  BY OneEmbedsHolds DEF VectorsIInv, MatrixKept, VectorsInv
<1>2. QED
  BY <1>1, VectorsInitHolds, VectorsNextHolds, PTL DEF VectorsSpec

HIDE VectorsBounds

-----------------------------------------------------------------------------
(* The theorem about DavTree: for any files and folders, requests, failures and writes of others.          *)

Texts == File \cup {Theirs, Marker, Missing}
Requested ==
  [step : {"done", "list", "deleting", "clear", "clearing", "entries", "transfer", "file", "drop"},
   op : {"none", "delete", "move", "copy"}, keys : SUBSET Path,
   from : Path \cup {<<>>}, to : Path \cup {<<>>}, at : Path \cup {<<>>}]

(* Which steps a request may be at, and what it has in hand there. *)
Files(d) == d.from \in File /\ d.to \in File
Trees(d) == d.from \in Folder /\ d.to \in Folder /\ ~IsPrefix(d.from, d.to)

InHand(d) ==
  /\ d.op = "none" => d.step = "done"
  /\ d.op = "delete" => d.from \in Folder /\ d.to = d.from /\ d.step \in {"list", "deleting", "done"}
  /\ d.op \in {"move", "copy"} =>
       \/ Files(d) /\ d.step \in {"file", "drop", "done"} /\ d.keys = {} /\ (d.step = "drop" => d.at = d.from)
       \/ Trees(d) /\ d.step # "file"
  /\ d.op = "copy" => d.step \notin {"drop", "list", "deleting"}
  /\ d.step = "clearing" => \A k \in d.keys : Under(d.to, k)
  /\ d.step \in {"transfer", "drop", "deleting"} => \A k \in d.keys : Under(d.from, k)
  /\ d.step = "drop" => d.at \in File /\ Under(d.from, d.at)

(* How far a transfer has come: the source is as it was but for what was moved, and the target is empty    *)
(* but for what has arrived.  No key in hand is missing, so that none ends the request.                    *)
Early == {"clear", "clearing", "entries", "file"}

SourceIs(s, b, d) ==
  \A f \in File : Under(d.from, f) =>
    s[f] = IF d.step \in Early \/ d.op = "copy" \/ f \in d.keys \/ (d.step = "drop" /\ f = d.at) THEN b[f] ELSE Missing
TargetIs(s, b, d) ==
  d.step \notin Early =>
    \A g \in File : Under(d.to, g) =>
      s[g] = IF Moved(g, d.to, d.from) \in d.keys THEN Missing ELSE b[Moved(g, d.to, d.from)]
Cleared(s, d) ==
  /\ d.step = "clearing" => \A g \in File : Under(d.to, g) => (g \in d.keys <=> s[g] # Missing)
  /\ d.step = "entries" => \A g \in File : Under(d.to, g) => s[g] = Missing
KeysThere(b, d) ==
  /\ d.step = "file" => b[d.from] # Missing
  /\ d.step \in {"transfer", "drop"} => \A f \in d.keys \cap File : b[f] # Missing
  /\ d.step = "drop" => b[d.at] # Missing /\ d.at \notin d.keys
  /\ d.step \in {"list", "deleting"} => d.keys \cap File = {}
  /\ d.step = "done" => d.keys = {}

Halfway(s, b, d) == SourceIs(s, b, d) /\ TargetIs(s, b, d) /\ Cleared(s, d) /\ KeysThere(b, d)

DavIInv ==
  /\ DavTypeOK /\ InHand(dav) /\ OthersUntouched /\ (broken => dav.step = "done")
  /\ Transfers /\ ~broken => Halfway(stored, before, dav)
  /\ broken => FilesKept

-----------------------------------------------------------------------------
(* Keys: which begin with which, and what a key of one tree is called in another. *)
LEMMA PrefixAt ==
  ASSUME NEW s \in Seq(STRING), NEW t \in Seq(STRING)
  PROVE  IsPrefix(s, t) <=> Len(s) <= Len(t) /\ \A i \in 1..Len(s) : s[i] = t[i]
<1>1. Len(s) \in Nat /\ Len(t) \in Nat
  BY LenProperties
<1>2. SubSeq(s, 1, Len(s)) = s
  BY <1>1
<1>3. ASSUME Len(s) <= Len(t)
      PROVE  SubSeq(t, 1, Len(s)) \in Seq(STRING) /\ Len(SubSeq(t, 1, Len(s))) = Len(s)
             /\ \A i \in 1..Len(s) : SubSeq(t, 1, Len(s))[i] = t[i]
  BY <1>1, <1>3
<1>4. ASSUME Len(s) <= Len(t) PROVE s = SubSeq(t, 1, Len(s)) <=> \A i \in 1..Len(s) : s[i] = t[i]
  <2> DEFINE u == SubSeq(t, 1, Len(s))
  <2> HIDE DEF u
  <2>1. u \in Seq(STRING) /\ Len(u) = Len(s) /\ \A i \in 1..Len(s) : u[i] = t[i]
    BY <1>3, <1>4 DEF u
  <2>2. s = u <=> \A i \in 1..Len(s) : s[i] = u[i]
    BY <2>1, SeqEqual
  <2>3. QED
    BY <2>1, <2>2 DEF u
<1>5. QED
  BY <1>2, <1>4 DEF IsPrefix

LEMMA PrefixSelf == ASSUME NEW s \in Seq(STRING) PROVE IsPrefix(s, s)
BY PrefixAt, LenProperties

(* Of two trees that a key is in, one is in the other. *)
LEMMA PrefixesMeet ==
  ASSUME NEW a \in Seq(STRING), NEW b \in Seq(STRING), NEW k \in Seq(STRING), IsPrefix(a, k), IsPrefix(b, k)
  PROVE  IsPrefix(a, b) \/ IsPrefix(b, a)
<1>1. Len(a) \in Nat /\ Len(b) \in Nat /\ Len(k) \in Nat
  BY LenProperties
<1>2. /\ Len(a) <= Len(k) /\ \A i \in 1..Len(a) : a[i] = k[i]
      /\ Len(b) <= Len(k) /\ \A i \in 1..Len(b) : b[i] = k[i]
  BY PrefixAt
<1>3. CASE Len(a) <= Len(b)
  <2>1. \A i \in 1..Len(a) : i \in 1..Len(b)
    BY <1>1, <1>3
  <2>2. QED
    BY <1>2, <1>3, <2>1, PrefixAt
<1>4. CASE Len(b) <= Len(a)
  <2>1. \A i \in 1..Len(b) : i \in 1..Len(a)
    BY <1>1, <1>4
  <2>2. QED
    BY <1>2, <1>4, <2>1, PrefixAt
<1>5. QED
  BY <1>1, <1>3, <1>4

LEMMA JoinedKeys ==
  ASSUME NEW s \in Seq(STRING), NEW t \in Seq(STRING)
  PROVE  /\ s \o t \in Seq(STRING) /\ Len(s \o t) = Len(s) + Len(t)
         /\ \A i \in 1..Len(s) : (s \o t)[i] = s[i]
         /\ \A i \in 1..Len(t) : (s \o t)[Len(s) + i] = t[i]
OBVIOUS

LEMMA MovedAt ==
  ASSUME NEW from \in Seq(STRING), NEW to \in Seq(STRING), NEW k \in Seq(STRING), IsPrefix(from, k)
  PROVE  LET m == Moved(k, from, to) IN
         /\ m \in Seq(STRING) /\ Len(m) = Len(to) + (Len(k) - Len(from))
         /\ \A i \in 1..Len(to) : m[i] = to[i]
         /\ \A i \in 1..(Len(k) - Len(from)) : m[Len(to) + i] = k[Len(from) + i]
<1> DEFINE rest == SubSeq(k, Len(from) + 1, Len(k))
           m == to \o rest
<1>1. Len(from) \in Nat /\ Len(to) \in Nat /\ Len(k) \in Nat /\ Len(from) <= Len(k)
  BY PrefixAt, LenProperties
<1>2. rest \in Seq(STRING) /\ Len(rest) = Len(k) - Len(from)
      /\ \A i \in 1..(Len(k) - Len(from)) : rest[i] = k[Len(from) + i]
  BY <1>1
<1> HIDE DEF rest
<1>3. /\ m \in Seq(STRING) /\ Len(m) = Len(to) + Len(rest)
      /\ \A i \in 1..Len(to) : m[i] = to[i]
      /\ \A i \in 1..Len(rest) : m[Len(to) + i] = rest[i]
  BY <1>2, JoinedKeys
<1>4. Moved(k, from, to) = m
  BY DEF Moved, rest
<1> HIDE DEF m
<1>5. QED
  BY <1>2, <1>3, <1>4

(* It begins with that other's name, and is called there what it was called here. *)
LEMMA MovedBack ==
  ASSUME NEW from \in Seq(STRING), NEW to \in Seq(STRING), NEW k \in Seq(STRING), IsPrefix(from, k)
  PROVE  /\ Moved(k, from, to) \in Seq(STRING) /\ IsPrefix(to, Moved(k, from, to))
         /\ Moved(Moved(k, from, to), to, from) = k
<1> DEFINE m == Moved(k, from, to)
           n == Moved(m, to, from)
<1>1. Len(from) \in Nat /\ Len(to) \in Nat /\ Len(k) \in Nat /\ Len(from) <= Len(k)
      /\ \A i \in 1..Len(from) : from[i] = k[i]
  BY PrefixAt, LenProperties
<1>2. /\ m \in Seq(STRING) /\ Len(m) = Len(to) + (Len(k) - Len(from))
      /\ \A i \in 1..Len(to) : m[i] = to[i]
      /\ \A i \in 1..(Len(k) - Len(from)) : m[Len(to) + i] = k[Len(from) + i]
  BY MovedAt
<1> HIDE DEF m
<1>3. IsPrefix(to, m)
  BY <1>1, <1>2, PrefixAt
<1>4. /\ n \in Seq(STRING) /\ Len(n) = Len(from) + (Len(m) - Len(to))
      /\ \A i \in 1..Len(from) : n[i] = from[i]
      /\ \A i \in 1..(Len(m) - Len(to)) : n[Len(from) + i] = m[Len(to) + i]
  BY <1>2, <1>3, MovedAt
<1> HIDE DEF n
<1>5. Len(n) = Len(k) /\ Len(m) - Len(to) = Len(k) - Len(from)
  BY <1>1, <1>2, <1>4
<1>6. \A i \in 1..Len(k) : n[i] = k[i]
  <2> TAKE i \in 1..Len(k)
  <2>1. CASE i <= Len(from)
    <3>1. i \in 1..Len(from)
      BY <1>1, <2>1
    <3>2. QED
      BY <1>1, <1>4, <3>1
  <2>2. CASE Len(from) < i
    <3>1. PICK j \in 1..(Len(k) - Len(from)) : i = Len(from) + j
      <4>1. i - Len(from) \in 1..(Len(k) - Len(from)) /\ i = Len(from) + (i - Len(from))
        BY <1>1, <2>2
      <4>2. QED
        BY <4>1
    <3>2. n[Len(from) + j] = m[Len(to) + j] /\ m[Len(to) + j] = k[Len(from) + j]
      BY <1>2, <1>4, <1>5
    <3>3. QED
      BY <3>1, <3>2
  <2>3. QED
    BY <1>1, <2>1, <2>2
<1>7. n = k
  BY <1>4, <1>5, <1>6, SeqEqual
<1>8. QED
  BY <1>2, <1>3, <1>7 DEF m, n

-----------------------------------------------------------------------------
LEMMA KeyFacts ==
  /\ Path \subseteq Seq(STRING) /\ File \subseteq Seq(STRING) /\ Folder \subseteq Seq(STRING)
  /\ File \cap Folder = {} /\ File \subseteq Path /\ Folder \subseteq Path
BY DavAssumption DEF Path

LEMMA UnderSelf == ASSUME NEW k \in Path PROVE Under(k, k)
BY KeyFacts, PrefixSelf DEF Under

(* A file of one tree, or the file itself, has its place in the other, and that is its only one. *)
LEMMA PlaceOf ==
  ASSUME NEW d, Files(d) \/ Trees(d), NEW f \in File, Under(d.from, f)
  PROVE  LET t == Moved(f, d.from, d.to) IN t \in File /\ Under(d.to, t) /\ Moved(t, d.to, d.from) = f
<1> DEFINE t == Moved(f, d.from, d.to)
<1>1. d.from \in Seq(STRING) /\ d.to \in Seq(STRING) /\ f \in Seq(STRING)
  BY KeyFacts DEF Files, Trees
<1>2. IsPrefix(d.from, f)
  <2>1. CASE d.from \in Folder
    BY <2>1 DEF Under
  <2>2. CASE d.from \notin Folder
    BY <1>1, <2>2, PrefixSelf DEF Under
  <2>3. QED
    BY <2>1, <2>2
<1>3. t \in Seq(STRING) /\ IsPrefix(d.to, t) /\ Moved(t, d.to, d.from) = f
  BY <1>1, <1>2, MovedBack
<1>4. CASE Trees(d)
  <2>1. t \in File
    BY <1>2, <1>4, DavAssumption DEF Trees
  <2>2. QED
    BY <1>3, <1>4, <2>1 DEF Trees, Under
<1>5. CASE Files(d)
  <2>1. f = d.from /\ d.to \in File /\ d.to \notin Folder
    BY <1>5, KeyFacts DEF Files, Under
  <2>2. /\ t \in Seq(STRING) /\ Len(t) = Len(d.to) + (Len(f) - Len(f))
        /\ \A i \in 1..Len(d.to) : t[i] = d.to[i]
    BY <1>1, <1>2, <2>1, MovedAt
  <2>3. Len(t) = Len(d.to)
    BY <1>1, <2>2, LenProperties
  <2>4. t = d.to
    BY <1>1, <2>2, <2>3, SeqEqual
  <2>5. QED
    BY <1>3, <2>1, <2>4 DEF Under
<1>6. QED
  BY <1>4, <1>5

(* Two trees of which neither is in the other have no key in common. *)
LEMMA Apart ==
  ASSUME NEW d, Files(d) \/ Trees(d), ~Related(d.from, d.to), NEW k \in Path, Under(d.from, k), Under(d.to, k)
  PROVE  FALSE
<1>1. CASE Files(d)
  BY <1>1, KeyFacts DEF Files, Related, Under
<1>2. CASE Trees(d)
  BY <1>2, KeyFacts, PrefixesMeet DEF Trees, Related, Under
<1>3. QED
  BY <1>1, <1>2

(* The way back. *)
LEMMA OriginOf ==
  ASSUME NEW d, Files(d) \/ Trees(d), ~Related(d.from, d.to), NEW g \in File, Under(d.to, g)
  PROVE  LET f == Moved(g, d.to, d.from) IN f \in File /\ Under(d.from, f) /\ Moved(f, d.from, d.to) = g
<1> DEFINE e == [from |-> d.to, to |-> d.from]
<1>1. e.from = d.to /\ e.to = d.from
  OBVIOUS
<1> HIDE DEF e
<1>2. Files(e) \/ Trees(e)
  <2>1. Files(d) => Files(e)
    BY <1>1 DEF Files
  <2>2. Trees(d) => Trees(e)
    BY <1>1 DEF Trees, Related, Under
  <2>3. QED
    BY <2>1, <2>2
<1>3. QED
  BY <1>1, <1>2, PlaceOf

(* A folder of one tree is called a folder in the other. *)
LEMMA FolderPlace ==
  ASSUME NEW d, Trees(d), NEW k \in Folder, Under(d.from, k)
  PROVE  Moved(k, d.from, d.to) \in Folder /\ Under(d.to, Moved(k, d.from, d.to))
<1>1. IsPrefix(d.from, k)
  BY DEF Trees, Under
<1>2. Moved(k, d.from, d.to) \in Folder
  BY <1>1, DavAssumption DEF Trees
<1>3. IsPrefix(d.to, Moved(k, d.from, d.to))
  BY <1>1, KeyFacts, MovedBack DEF Trees
<1>4. QED
  BY <1>2, <1>3 DEF Trees, Under

-----------------------------------------------------------------------------
LEMMA DavFacts ==
  ASSUME DavIInv
  PROVE  /\ dav \in Requested /\ dav.keys \subseteq Path
         /\ stored \in [Path -> Texts] /\ before \in [Path -> Texts] /\ InHand(dav)
BY DEF DavIInv, DavTypeOK, Requested, Texts

LEMMA HalfwayKeeps == DavIInv => FilesKept
<1> SUFFICES ASSUME DavIInv, Transfers, ~broken, NEW f \in Below(dav.from)
             PROVE  before[f] \in {stored[f], stored[Target(f)]}
  BY DEF DavIInv, FilesKept
<1>1. Halfway(stored, before, dav) /\ InHand(dav)
  BY DEF DavIInv
<1>2. f \in File /\ Under(dav.from, f) /\ (Files(dav) \/ Trees(dav))
  BY <1>1 DEF Below, InHand, Transfers
<1>3. CASE dav.step \in Early \/ f \in dav.keys
  BY <1>1, <1>2, <1>3 DEF Halfway, SourceIs
<1>4. CASE dav.step \notin Early /\ f \notin dav.keys
  BY <1>1, <1>2, <1>4, PlaceOf DEF Halfway, TargetIs, Target
<1>5. QED
  BY <1>3, <1>4

LEMMA DavFollows == DavIInv => DavInv
<1> SUFFICES ASSUME DavIInv PROVE DavInv
  OBVIOUS
<1>1. TargetIsSource
  <2> SUFFICES ASSUME Transfers, dav.step = "done", ~broken PROVE TargetIsSource
    BY DEF TargetIsSource, Doing
  <2>1. Halfway(stored, before, dav) /\ dav.keys = {} /\ dav.step \notin Early
    BY DEF DavIInv, Halfway, KeysThere, Early
  <2>2. \A f \in File : Under(dav.to, f) => stored[f] = before[Moved(f, dav.to, dav.from)]
    BY <2>1 DEF Halfway, TargetIs
  <2>3. \A f \in Below(dav.from) : stored[f] = IF dav.op = "move" THEN Missing ELSE before[f]
    BY <2>1 DEF Halfway, SourceIs, Below, Transfers
  <2>4. QED
    BY <2>2, <2>3 DEF TargetIsSource
<1>2. QED
  BY <1>1, HalfwayKeeps DEF DavIInv, DavInv

(* A step of a request under way. *)
LEMMA Onward ==
  ASSUME DavIInv, dav.step # "done", Quiet,
         NEW d \in Requested, dav' = d, d.op = dav.op, d.from = dav.from, d.to = dav.to, InHand(d),
         NEW s \in [Path -> Texts], stored' = s,
         \A k \in Path : ~Under(dav.from, k) /\ ~Under(dav.to, k) => s[k] = stored[k],
         Transfers => Halfway(s, before, d)
  PROVE  DavIInv'
<1>1. ~broken /\ ~broken'
  BY DEF DavIInv, Quiet
<1>2. DavTypeOK'
  BY DEF DavIInv, DavTypeOK, Quiet, Requested, Texts
<1>3. OthersUntouched'
  BY DEF DavIInv, OthersUntouched, Quiet
<1>4. Transfers' => Transfers
  BY DEF Transfers, Quiet
<1>5. (Transfers /\ ~broken => Halfway(stored, before, dav))'
  BY <1>4 DEF Quiet
<1>6. QED
  BY <1>1, <1>2, <1>3, <1>5 DEF DavIInv

-----------------------------------------------------------------------------
Ready(op, from, to, step) ==
  \/ op = "delete" /\ from \in Folder /\ to = from /\ step = "list"
  \/ op \in {"move", "copy"} /\ from \in File /\ to \in File /\ step = "file" /\ stored[from] # Missing
  \/ /\ op \in {"move", "copy"} /\ from \in Folder /\ to \in Folder /\ ~IsPrefix(from, to)
     /\ step = "clear" \/ (step = "entries" /\ Listed(to) = {})

LEMMA Begins ==
  ASSUME DavIInv, NEW op, NEW from, NEW to, NEW step, Ready(op, from, to, step), NewRequest(op, from, to, step)
  PROVE  DavIInv'
<1> DEFINE d == [step |-> step, op |-> op, from |-> from, to |-> to, keys |-> {}, at |-> <<>>]
<1>1. /\ dav' = d /\ stored' = stored /\ before' = stored /\ disturbed' = FALSE /\ broken' = FALSE
      /\ requests' = requests + 1 /\ requests < MaxTransfers /\ UNCHANGED <<writes, failures>>
  BY DEF NewRequest
<1>2. /\ d.step = step /\ d.op = op /\ d.from = from /\ d.to = to /\ d.keys = {}
      /\ d \in Requested
  BY KeyFacts DEF Requested, Ready
<1> HIDE DEF d
<1>3. stored \in [Path -> Texts]
  BY DavFacts
<1>4. requests' \in 0..MaxTransfers
  BY <1>1, DavAssumption DEF DavIInv, DavTypeOK
<1>5. DavTypeOK'
  BY <1>1, <1>2, <1>3, <1>4 DEF DavIInv, DavTypeOK, Requested, Texts
<1>6. InHand(d)
  BY <1>2 DEF InHand, Files, Trees, Ready
<1>7. OthersUntouched'
  BY <1>1 DEF OthersUntouched
<1>8. op # "delete" => Halfway(stored, stored, d)
  <2> SUFFICES ASSUME op # "delete" PROVE Halfway(stored, stored, d)
    OBVIOUS
  <2>1. SourceIs(stored, stored, d) /\ TargetIs(stored, stored, d)
    BY <1>2 DEF SourceIs, TargetIs, Early, Ready
  <2>2. Cleared(stored, d)
    BY <1>2, KeyFacts DEF Ready, Cleared, Listed, Present, Under
  <2>3. KeysThere(stored, d)
    BY <1>2 DEF KeysThere, Ready
  <2>4. QED
    BY <2>1, <2>2, <2>3 DEF Halfway
<1>9. (Transfers /\ ~broken => Halfway(stored, before, dav))'
  BY <1>1, <1>2, <1>8 DEF Transfers
<1>10. QED
  BY <1>1, <1>5, <1>6, <1>7, <1>9 DEF DavIInv

LEMMA RequestBegins == DavIInv /\ (DeleteTree \/ Transfer) => DavIInv'
<1> SUFFICES ASSUME DavIInv, DeleteTree \/ Transfer PROVE DavIInv'
  OBVIOUS
<1>1. CASE DeleteTree
  <2>1. PICK k \in Folder : NewRequest("delete", k, k, "list")
    BY <1>1 DEF DeleteTree
  <2>2. Ready("delete", k, k, "list")
    BY DEF Ready
  <2>3. QED
    BY <2>1, <2>2, Begins
<1>2. CASE Transfer
  <2>1. PICK op \in {"move", "copy"} :
          \/ \E from, to \in File : IsFile(from) /\ NewRequest(op, from, to, "file")
          \/ \E from, to \in Folder :
                /\ IsDir(from) /\ ~IsPrefix(from, to)
                /\ NewRequest(op, from, to, IF Listed(to) # {} \/ IsFile(AsFile(to)) THEN "clear" ELSE "entries")
    BY <1>2 DEF Transfer
  <2>2. ASSUME NEW from \in File, NEW to \in File, IsFile(from), NewRequest(op, from, to, "file") PROVE DavIInv'
    <3>1. Ready(op, from, to, "file")
      BY <2>2 DEF Ready, IsFile, Present
    <3>2. QED
      BY <2>2, <3>1, Begins
  <2>3. ASSUME NEW from \in Folder, NEW to \in Folder, ~IsPrefix(from, to),
               NewRequest(op, from, to, IF Listed(to) # {} \/ IsFile(AsFile(to)) THEN "clear" ELSE "entries")
        PROVE  DavIInv'
    <3>1. PICK step : step = IF Listed(to) # {} \/ IsFile(AsFile(to)) THEN "clear" ELSE "entries"
      OBVIOUS
    <3>2. step \in {"clear", "entries"} /\ (step = "entries" => Listed(to) = {})
      BY <3>1
    <3>3. NewRequest(op, from, to, step)
      BY <2>3, <3>1
    <3>4. Ready(op, from, to, step)
      BY <2>3, <3>2 DEF Ready
    <3>5. QED
      BY <3>3, <3>4, Begins
  <2>4. QED
    BY <2>1, <2>2, <2>3
<1>3. QED
  BY <1>1, <1>2

LEMMA ListKeeps == DavIInv /\ ListTree => DavIInv'
<1> SUFFICES ASSUME DavIInv, ListTree PROVE DavIInv'
  OBVIOUS
<1>1. /\ dav \in Requested /\ stored \in [Path -> Texts] /\ InHand(dav)
  BY DavFacts
<1>2. CASE Doing("clear") /\ Lists(Listed(dav.to) \cup {dav.to}, "clearing")
  <2> DEFINE d == [dav EXCEPT !.keys = Listed(dav.to) \cup {dav.to}, !.step = "clearing"]
  <2>1. dav' = d /\ stored' = stored /\ Quiet /\ dav.step = "clear"
    BY <1>2 DEF Lists, Doing
  <2>2. Trees(dav) /\ dav.op \in {"move", "copy"} /\ dav.to \in Path
    BY <1>1, <2>1, KeyFacts DEF InHand, Trees, Requested
  <2>3. /\ d \in Requested /\ d.step = "clearing" /\ d.keys = Listed(dav.to) \cup {dav.to}
        /\ d.op = dav.op /\ d.from = dav.from /\ d.to = dav.to
    BY <1>1, <2>2 DEF Requested, Listed
  <2> HIDE DEF d
  <2>4. \A k \in d.keys : Under(dav.to, k)
    BY <2>2, <2>3, UnderSelf DEF Listed, Under, Trees
  <2>5. InHand(d)
    BY <2>2, <2>3, <2>4 DEF InHand, Trees
  <2>6. ASSUME Transfers PROVE Halfway(stored, before, d)
    <3>1. Halfway(stored, before, dav)
      BY <2>1, <2>6 DEF DavIInv
    <3>2. SourceIs(stored, before, d) /\ TargetIs(stored, before, d) /\ KeysThere(before, d)
      BY <2>1, <2>3, <3>1 DEF Halfway, SourceIs, TargetIs, KeysThere, Early
    <3>3. Cleared(stored, d)
      BY <2>2, <2>3, KeyFacts DEF Cleared, Listed, Present, Under, Trees
    <3>4. QED
      BY <3>2, <3>3 DEF Halfway
  <2>7. QED
    BY <1>1, <2>1, <2>3, <2>5, <2>6, Onward
<1>3. CASE Doing("list") /\ Lists(Listed(dav.from) \cup {dav.from}, "deleting")
  <2> DEFINE d == [dav EXCEPT !.keys = Listed(dav.from) \cup {dav.from}, !.step = "deleting"]
  <2>1. dav' = d /\ stored' = stored /\ Quiet /\ dav.step = "list"
    BY <1>3 DEF Lists, Doing
  <2>2. dav.from \in Folder /\ dav.from \in Path /\ dav.op \in {"delete", "move"} /\ (dav.op = "move" => Trees(dav))
    BY <1>1, <2>1, KeyFacts DEF InHand, Trees, Requested
  <2>3. /\ d \in Requested /\ d.step = "deleting" /\ d.keys = Listed(dav.from) \cup {dav.from}
        /\ d.op = dav.op /\ d.from = dav.from /\ d.to = dav.to
    BY <1>1, <2>2 DEF Requested, Listed
  <2> HIDE DEF d
  <2>4. \A k \in d.keys : Under(dav.from, k)
    BY <2>2, <2>3, UnderSelf DEF Listed, Under
  <2>5. InHand(d)
    BY <1>1, <2>1, <2>2, <2>3, <2>4 DEF InHand, Trees
  <2>6. ASSUME Transfers PROVE Halfway(stored, before, d)
    <3>1. Halfway(stored, before, dav) /\ dav.op = "move" /\ Trees(dav)
      BY <2>1, <2>2, <2>6 DEF DavIInv, Transfers
    <3>2. dav.keys \cap File = {}
      BY <2>1, <3>1 DEF Halfway, KeysThere
    <3>3. \A f \in File : Under(dav.from, f) => stored[f] = Missing
      BY <2>1, <3>1, <3>2 DEF Halfway, SourceIs, Early
    <3>4. d.keys \cap File = {}
      BY <2>2, <2>3, <2>4, <3>3, KeyFacts DEF Listed, Present
    <3>5. SourceIs(stored, before, d)
      BY <2>3, <3>1, <3>3, <3>4 DEF SourceIs, Early
    <3>6. \A g \in File : Under(dav.to, g) => Moved(g, dav.to, dav.from) \in File
      BY <2>6, <3>1, OriginOf DEF Transfers
    <3>7. TargetIs(stored, before, d)
      BY <2>1, <2>3, <3>1, <3>2, <3>4, <3>6 DEF Halfway, TargetIs, Early
    <3>8. QED
      BY <2>3, <3>4, <3>5, <3>7 DEF Halfway, Cleared, KeysThere
  <2>7. QED
    BY <1>1, <2>1, <2>3, <2>5, <2>6, Onward
<1>4. QED
  BY <1>2, <1>3 DEF ListTree

LEMMA DeletedKeeps == DavIInv /\ Deleted => DavIInv'
<1> SUFFICES ASSUME DavIInv, Deleted PROVE DavIInv'
  OBVIOUS
<1>1. /\ dav \in Requested /\ stored \in [Path -> Texts] /\ InHand(dav)
      /\ stored' = stored /\ Quiet /\ dav.keys = {}
  BY DavFacts DEF Deleted
<1>2. ASSUME NEW step \in {"entries", "done"}, dav' = [dav EXCEPT !.step = step],
             dav.step = (IF step = "entries" THEN "clearing" ELSE "deleting")
      PROVE  DavIInv'
  <2>1. PICK d : d = [dav EXCEPT !.step = step]
    OBVIOUS
  <2>2. /\ d \in Requested /\ d.step = step /\ d.keys = {} /\ d.op = dav.op /\ d.from = dav.from /\ d.to = dav.to
    BY <1>1, <2>1 DEF Requested
  <2>3. InHand(d)
    BY <1>1, <1>2, <2>2 DEF InHand, Trees, Files
  <2>4. ASSUME Transfers PROVE Halfway(stored, before, d)
    <3>1. Halfway(stored, before, dav)
      BY <1>2, <2>4 DEF DavIInv
    <3>2. SourceIs(stored, before, d)
      BY <1>1, <1>2, <2>2, <3>1 DEF Halfway, SourceIs, Early
    <3>3. TargetIs(stored, before, d)
      BY <1>1, <1>2, <2>2, <3>1 DEF Halfway, TargetIs, Early
    <3>4. Cleared(stored, d) /\ KeysThere(before, d)
      BY <1>1, <1>2, <2>2, <3>1 DEF Halfway, Cleared, KeysThere
    <3>5. QED
      BY <3>2, <3>3, <3>4 DEF Halfway
  <2>5. dav.step # "done" /\ dav' = d
    BY <1>2, <2>1
  <2>6. QED
    BY <1>1, <2>2, <2>3, <2>4, <2>5, Onward
<1>3. QED
  BY <1>2 DEF Deleted, Doing, Goes

LEMMA DeleteKeeps == DavIInv /\ DeleteNext => DavIInv'
<1> SUFFICES ASSUME DavIInv, DeleteNext PROVE DavIInv'
  OBVIOUS
<1>1. /\ dav \in Requested /\ stored \in [Path -> Texts] /\ InHand(dav) /\ dav.keys \subseteq Path
      /\ dav.step \in {"clearing", "deleting"} /\ dav.step # "done" /\ Quiet
  BY DavFacts DEF DeleteNext
<1>2. PICK k \in dav.keys :
        /\ k \in Folder => dav.keys \subseteq Folder
        /\ IF Present(k) \/ k \in Folder
           THEN Stores(k, Missing) /\ dav' = [dav EXCEPT !.keys = @ \ {k}]
           ELSE Goes("done") /\ UNCHANGED stored
  BY DEF DeleteNext
<1>3. k \in Path /\ (dav.step = "clearing" => Under(dav.to, k)) /\ (dav.step = "deleting" => Under(dav.from, k))
  BY <1>1 DEF InHand
<1>4. ASSUME Transfers
      PROVE  Halfway(stored, before, dav) /\ Trees(dav) /\ (dav.step = "deleting" => dav.keys \cap File = {})
  BY <1>1, <1>4 DEF DavIInv, Halfway, KeysThere, InHand, Transfers
<1>5. CASE Present(k) \/ k \in Folder
  <2> DEFINE d == [dav EXCEPT !.keys = dav.keys \ {k}]
             s == [stored EXCEPT ![k] = Missing]
  <2>1. dav' = d /\ stored' = s
    BY <1>2, <1>5 DEF Stores
  <2>2. /\ d \in Requested /\ d.step = dav.step /\ d.keys = dav.keys \ {k}
        /\ d.op = dav.op /\ d.from = dav.from /\ d.to = dav.to
    BY <1>1 DEF Requested
  <2>3. s \in [Path -> Texts] /\ s[k] = Missing /\ \A j \in Path : j # k => s[j] = stored[j]
    BY <1>1, <1>3 DEF Texts
  <2> HIDE DEF d, s
  <2>4. InHand(d)
    BY <1>1, <2>2 DEF InHand, Trees, Files
  <2>5. \A j \in Path : ~Under(dav.from, j) /\ ~Under(dav.to, j) => s[j] = stored[j]
    BY <1>1, <1>3, <2>3
  <2>6. ASSUME Transfers PROVE Halfway(s, before, d)
    <3>1. SourceIs(s, before, d)
      <4>1. CASE dav.step = "clearing"
        <5>1. \A f \in File : Under(dav.from, f) => f # k
          BY <1>3, <1>4, <2>6, <4>1, Apart DEF Transfers
        <5>2. QED
          BY <1>4, <2>2, <2>3, <2>6, <4>1, <5>1, KeyFacts DEF Halfway, SourceIs, Early
      <4>2. CASE dav.step = "deleting"
        BY <1>4, <2>2, <2>3, <2>6, <4>2, KeyFacts DEF Halfway, SourceIs, Early
      <4>3. QED
        BY <1>1, <4>1, <4>2
    <3>2. TargetIs(s, before, d)
      <4> SUFFICES ASSUME dav.step = "deleting" PROVE TargetIs(s, before, d)
        BY <1>1, <2>2 DEF TargetIs, Early
      <4>1. \A g \in File : Under(dav.to, g) => Moved(g, dav.to, dav.from) \in File
        BY <1>4, <2>6, OriginOf DEF Transfers
      <4>2. QED
        BY <1>4, <2>2, <2>3, <2>6, <4>1, KeyFacts DEF Halfway, TargetIs, Early
    <3>3. Cleared(s, d)
      BY <1>1, <1>4, <2>2, <2>3, <2>6, KeyFacts DEF Halfway, Cleared
    <3>4. KeysThere(before, d)
      BY <1>1, <1>4, <2>2, <2>6 DEF Halfway, KeysThere
    <3>5. QED
      BY <3>1, <3>2, <3>3, <3>4 DEF Halfway
  <2>7. QED
    BY <1>1, <2>1, <2>2, <2>3, <2>4, <2>5, <2>6, Onward
<1>6. CASE ~(Present(k) \/ k \in Folder)
  <2> DEFINE d == [dav EXCEPT !.step = "done"]
  <2>1. dav' = d /\ stored' = stored
    BY <1>2, <1>6 DEF Goes
  <2>2. /\ d \in Requested /\ d.step = "done" /\ d.keys = dav.keys
        /\ d.op = dav.op /\ d.from = dav.from /\ d.to = dav.to
    BY <1>1 DEF Requested
  <2> HIDE DEF d
  <2>3. InHand(d)
    BY <1>1, <2>2 DEF InHand, Trees, Files
  <2>4. ~Transfers
    <3>1. k \in File /\ stored[k] = Missing
      BY <1>3, <1>6 DEF Present, Path
    <3>2. QED
      BY <1>1, <1>3, <1>4, <3>1 DEF Halfway, Cleared
  <2>5. QED
    BY <1>1, <2>1, <2>2, <2>3, <2>4, Onward
<1>7. QED
  BY <1>5, <1>6

LEMMA EntriesKeeps == DavIInv /\ ListEntries => DavIInv'
<1> SUFFICES ASSUME DavIInv, ListEntries PROVE DavIInv'
  OBVIOUS
<1> DEFINE d == [dav EXCEPT !.step = "transfer", !.keys = Listed(dav.from) \ {dav.from}]
           s == [stored EXCEPT ![dav.to] = Marker]
<1>1. /\ dav \in Requested /\ stored \in [Path -> Texts] /\ InHand(dav)
      /\ dav.step = "entries" /\ dav.step # "done" /\ Quiet /\ dav' = d /\ stored' = s
  BY DavFacts DEF ListEntries, Doing, Stores
<1>2. Trees(dav) /\ dav.op \in {"move", "copy"} /\ dav.to \in Path /\ dav.to \notin File
  BY <1>1, KeyFacts DEF InHand, Trees, Requested
<1>3. /\ d \in Requested /\ d.step = "transfer" /\ d.keys = Listed(dav.from) \ {dav.from}
      /\ d.op = dav.op /\ d.from = dav.from /\ d.to = dav.to
  BY <1>1, <1>2 DEF Requested, Listed
<1>4. s \in [Path -> Texts] /\ \A j \in Path : j # dav.to => s[j] = stored[j]
  BY <1>1, <1>2 DEF Texts
<1> HIDE DEF d, s
<1>5. \A k \in d.keys : Under(dav.from, k)
  BY <1>2, <1>3 DEF Listed, Under, Trees
<1>6. InHand(d)
  BY <1>2, <1>3, <1>5 DEF InHand, Trees
<1>7. \A j \in Path : ~Under(dav.from, j) /\ ~Under(dav.to, j) => s[j] = stored[j]
  BY <1>2, <1>4, UnderSelf
<1>8. ASSUME Transfers PROVE Halfway(s, before, d)
  <2>1. Halfway(stored, before, dav)
    BY <1>1, <1>8 DEF DavIInv
  <2>2. \A f \in File : s[f] = stored[f] /\ (Under(dav.from, f) => (f \in d.keys <=> stored[f] # Missing))
    BY <1>2, <1>3, <1>4, KeyFacts DEF Listed, Present, Under, Trees
  <2>3. \A f \in File : Under(dav.from, f) => stored[f] = before[f]
    BY <1>1, <2>1 DEF Halfway, SourceIs, Early
  <2>4. SourceIs(s, before, d)
    BY <1>3, <2>2, <2>3 DEF SourceIs, Early
  <2>5. \A g \in File : Under(dav.to, g) =>
          /\ s[g] = Missing
          /\ Moved(g, dav.to, dav.from) \in File /\ Under(dav.from, Moved(g, dav.to, dav.from))
    BY <1>1, <1>2, <1>8, <2>1, <2>2, OriginOf DEF Halfway, Cleared, Transfers
  <2>6. TargetIs(s, before, d)
    BY <1>3, <2>2, <2>3, <2>5 DEF TargetIs, Early
  <2>7. KeysThere(before, d)
    BY <1>3, <1>5, <2>2, <2>3 DEF KeysThere
  <2>8. QED
    BY <1>3, <2>4, <2>6, <2>7 DEF Halfway, Cleared
<1>9. QED
  BY <1>1, <1>3, <1>4, <1>6, <1>7, <1>8, Onward

LEMMA FolderKeeps == DavIInv /\ TransferFolder => DavIInv'
<1> SUFFICES ASSUME DavIInv, TransferFolder PROVE DavIInv'
  OBVIOUS
<1>1. PICK k \in dav.keys \cap Folder : Stores(Target(k), Marker) /\ dav' = [dav EXCEPT !.keys = @ \ {k}]
  BY DEF TransferFolder
<1> DEFINE d == [dav EXCEPT !.keys = dav.keys \ {k}]
           t == Moved(k, dav.from, dav.to)
           s == [stored EXCEPT ![t] = Marker]
<1>2. /\ dav \in Requested /\ stored \in [Path -> Texts] /\ InHand(dav)
      /\ dav.step = "transfer" /\ dav.step # "done" /\ Quiet /\ dav' = d /\ stored' = s
  BY <1>1, DavFacts DEF TransferFolder, Doing, Stores, Target
<1>3. Trees(dav) /\ dav.op \in {"move", "copy"} /\ Under(dav.from, k)
  BY <1>2 DEF InHand, Files, Requested
<1>4. t \in Folder /\ t \in Path /\ t \notin File /\ Under(dav.to, t)
  BY <1>3, FolderPlace, KeyFacts
<1>5. /\ d \in Requested /\ d.step = "transfer" /\ d.keys = dav.keys \ {k}
      /\ d.op = dav.op /\ d.from = dav.from /\ d.to = dav.to
  BY <1>2 DEF Requested
<1> HIDE DEF t
<1>6. s \in [Path -> Texts] /\ \A j \in Path : j # t => s[j] = stored[j]
  BY <1>2, <1>4 DEF Texts
<1> HIDE DEF d, s
<1>7. InHand(d)
  BY <1>2, <1>3, <1>5 DEF InHand, Trees
<1>8. \A j \in Path : ~Under(dav.from, j) /\ ~Under(dav.to, j) => s[j] = stored[j]
  BY <1>4, <1>6
<1>9. ASSUME Transfers PROVE Halfway(s, before, d)
  <2>1. Halfway(stored, before, dav)
    BY <1>2, <1>9 DEF DavIInv
  <2>2. \A f \in File : s[f] = stored[f] /\ (f \in d.keys <=> f \in dav.keys)
    BY <1>4, <1>5, <1>6, KeyFacts
  <2>3. SourceIs(s, before, d)
    BY <1>2, <1>5, <2>1, <2>2 DEF Halfway, SourceIs, Early
  <2>4. \A g \in File : Under(dav.to, g) => Moved(g, dav.to, dav.from) \in File
    BY <1>3, <1>9, OriginOf DEF Transfers
  <2>5. TargetIs(s, before, d)
    BY <1>2, <1>5, <2>1, <2>2, <2>4 DEF Halfway, TargetIs, Early
  <2>6. KeysThere(before, d)
    BY <1>2, <1>5, <2>1 DEF Halfway, KeysThere
  <2>7. QED
    BY <1>5, <2>3, <2>5, <2>6 DEF Halfway, Cleared
<1>10. QED
  BY <1>2, <1>5, <1>6, <1>7, <1>8, <1>9, Onward

(* A file arrives, and is dropped or stays. *)
LEMMA FileArrives ==
  ASSUME DavIInv, Quiet, NEW k \in File,
         (dav.step = "file" /\ k = dav.from) \/ (dav.step = "transfer" /\ k \in dav.keys),
         Present(k), Stores(IF Doing("file") THEN dav.to ELSE Target(k), stored[k]),
         dav' = IF dav.op = "move"
                THEN [dav EXCEPT !.keys = @ \ {k}, !.at = k, !.step = "drop"]
                ELSE [dav EXCEPT !.keys = @ \ {k}, !.step = IF Doing("file") THEN "done" ELSE "transfer"]
  PROVE  DavIInv'
<1> DEFINE t == Moved(k, dav.from, dav.to)
           s == [stored EXCEPT ![t] = stored[k]]
<1>1. /\ dav \in Requested /\ stored \in [Path -> Texts] /\ InHand(dav) /\ k \in Path
      /\ dav.step # "done" /\ dav.keys \subseteq Path
  BY DavFacts, KeyFacts
<1>2. /\ dav.op \in {"move", "copy"} /\ Under(dav.from, k)
      /\ IF dav.step = "file" THEN Files(dav) /\ dav.keys = {} /\ k = dav.from ELSE Trees(dav)
  BY <1>1, UnderSelf DEF InHand, Files, Trees, Requested
<1>3. t \in File /\ t \in Path /\ Under(dav.to, t) /\ Moved(t, dav.to, dav.from) = k
  BY <1>2, PlaceOf, KeyFacts
<1>4. (IF Doing("file") THEN dav.to ELSE Target(k)) = t
  <2>1. dav.step = "file" => t = dav.to
    BY <1>2, <1>3, KeyFacts DEF Files, Under
  <2>2. QED
    BY <2>1 DEF Doing, Target
<1>5. stored' = s
  BY <1>4 DEF Stores
<1>6. PICK step \in {"drop", "done", "transfer"} :
        step = IF dav.op = "move" THEN "drop" ELSE IF dav.step = "file" THEN "done" ELSE "transfer"
  OBVIOUS
<1>7. PICK at \in Path \cup {<<>>} : at = IF dav.op = "move" THEN k ELSE dav.at
  BY <1>1 DEF Requested
<1> DEFINE d == [step |-> step, op |-> dav.op, keys |-> dav.keys \ {k}, from |-> dav.from, to |-> dav.to, at |-> at]
<1>8. dav' = d
  <2>1. dav = [step |-> dav.step, op |-> dav.op, keys |-> dav.keys, from |-> dav.from, to |-> dav.to, at |-> dav.at]
    BY <1>1 DEF Requested
  <2>2. CASE dav.op = "move"
    BY <1>6, <1>7, <2>1, <2>2
  <2>3. CASE dav.op # "move"
    BY <1>6, <1>7, <2>1, <2>3 DEF Doing
  <2>4. QED
    BY <2>2, <2>3
<1>9. /\ d \in Requested /\ d.step = step /\ d.op = dav.op /\ d.from = dav.from /\ d.to = dav.to
      /\ d.keys = dav.keys \ {k} /\ d.at = at
  BY <1>1 DEF Requested
<1> HIDE DEF t
<1>10. s \in [Path -> Texts] /\ s[t] = stored[k] /\ \A j \in Path : j # t => s[j] = stored[j]
  BY <1>1, <1>3
<1> HIDE DEF d, s
<1>11. InHand(d)
  BY <1>1, <1>2, <1>6, <1>7, <1>9 DEF InHand, Files, Trees
<1>12. \A j \in Path : ~Under(dav.from, j) /\ ~Under(dav.to, j) => s[j] = stored[j]
  BY <1>3, <1>10
<1>13. ASSUME Transfers PROVE Halfway(s, before, d)
  <2>1. Halfway(stored, before, dav) /\ (Files(dav) \/ Trees(dav)) /\ ~Related(dav.from, dav.to)
    BY <1>1, <1>2, <1>13 DEF DavIInv, Transfers
  <2>2. stored[k] = before[k]
    BY <1>2, <2>1 DEF Halfway, SourceIs, Early
  <2>3. before[k] # Missing
    BY <2>2 DEF Present
  <2>4. SourceIs(s, before, d)
    <3>1. \A f \in File : Under(dav.from, f) => s[f] = stored[f]
      BY <1>3, <1>10, <2>1, Apart, KeyFacts
    <3>2. ASSUME NEW f \in File, Under(dav.from, f), dav.step = "file" PROVE f = k
      BY <1>2, <3>2, KeyFacts DEF Files, Under
    <3>3. ASSUME NEW f \in File, Under(dav.from, f)
          PROVE  s[f] = IF d.step \in Early \/ d.op = "copy" \/ f \in d.keys \/ (d.step = "drop" /\ f = d.at)
                        THEN before[f] ELSE Missing
      <4>1. CASE dav.op = "copy"
        BY <1>9, <2>1, <3>1, <3>3, <4>1 DEF Halfway, SourceIs
      <4>2. CASE dav.op = "move" /\ f = k
        BY <1>6, <1>7, <1>9, <2>2, <3>1, <3>3, <4>2
      <4>3. CASE dav.op = "move" /\ f # k
        BY <1>6, <1>7, <1>9, <2>1, <3>1, <3>2, <3>3, <4>3 DEF Halfway, SourceIs, Early
      <4>4. QED
        BY <1>2, <4>1, <4>2, <4>3
    <3>4. QED
      BY <1>9, <3>3 DEF SourceIs
  <2>5. TargetIs(s, before, d)
    <3>1. ASSUME NEW g \in File, Under(dav.to, g)
          PROVE  s[g] = IF Moved(g, dav.to, dav.from) \in d.keys THEN Missing ELSE before[Moved(g, dav.to, dav.from)]
      <4>1. CASE g = t
        BY <1>3, <1>9, <1>10, <2>2, <4>1
      <4>2. CASE g # t
        <5>1. dav.step # "file"
          BY <1>2, <1>3, <3>1, <4>2, KeyFacts DEF Files, Under
        <5>2. Moved(g, dav.to, dav.from) # k
          BY <2>1, <3>1, <4>2, OriginOf DEF t
        <5>3. s[g] = stored[g]
          BY <1>10, <4>2, KeyFacts
        <5>4. QED
          BY <1>9, <2>1, <3>1, <5>1, <5>2, <5>3 DEF Halfway, TargetIs, Early
      <4>3. QED
        BY <4>1, <4>2
    <3>2. QED
      BY <1>9, <3>1 DEF TargetIs
  <2>6. KeysThere(before, d)
    BY <1>2, <1>6, <1>7, <1>9, <2>1, <2>3 DEF Halfway, KeysThere
  <2>7. QED
    BY <1>6, <1>9, <2>4, <2>5, <2>6 DEF Halfway, Cleared
<1>14. QED
  BY <1>1, <1>5, <1>8, <1>9, <1>10, <1>11, <1>12, <1>13, Onward

(* A request that finds a key gone ends; unless somebody else wrote, none is. *)
LEMMA Ends ==
  ASSUME DavIInv, Quiet, dav.step # "done", Goes("done"), UNCHANGED stored, ~Transfers
  PROVE  DavIInv'
<1> DEFINE d == [dav EXCEPT !.step = "done"]
<1>1. dav' = d /\ dav \in Requested /\ stored \in [Path -> Texts] /\ InHand(dav)
  BY DavFacts DEF Goes
<1>2. d \in Requested /\ d.step = "done" /\ d.keys = dav.keys /\ d.op = dav.op /\ d.from = dav.from /\ d.to = dav.to
  BY <1>1 DEF Requested
<1> HIDE DEF d
<1>3. InHand(d)
  BY <1>1, <1>2 DEF InHand, Trees, Files
<1>4. QED
  BY <1>1, <1>2, <1>3, Onward

LEMMA FileKeeps == DavIInv /\ TransferFile => DavIInv'
<1> SUFFICES ASSUME DavIInv, TransferFile PROVE DavIInv'
  OBVIOUS
<1>1. PICK k \in (IF Doing("file") THEN {dav.from} ELSE IF Doing("transfer") THEN dav.keys \cap File ELSE {}) :
        IF Present(k)
        THEN /\ Stores(IF Doing("file") THEN dav.to ELSE Target(k), stored[k])
             /\ dav' = IF dav.op = "move"
                       THEN [dav EXCEPT !.keys = @ \ {k}, !.at = k, !.step = "drop"]
                       ELSE [dav EXCEPT !.keys = @ \ {k}, !.step = IF Doing("file") THEN "done" ELSE "transfer"]
        ELSE Goes("done") /\ UNCHANGED stored
  BY DEF TransferFile
<1>2. Quiet /\ InHand(dav) /\ dav \in Requested
  BY DavFacts DEF TransferFile
<1>3. (dav.step = "file" /\ k = dav.from) \/ (dav.step = "transfer" /\ k \in dav.keys /\ k \in File)
  BY <1>1 DEF Doing
<1>4. k \in File
  BY <1>2, <1>3 DEF InHand, Files, Trees, Requested
<1>5. CASE Present(k)
  BY <1>1, <1>2, <1>3, <1>4, <1>5, FileArrives
<1>6. CASE ~Present(k)
  <2>1. ~Transfers
    <3> SUFFICES ASSUME Transfers PROVE FALSE
      OBVIOUS
    <3>1. Halfway(stored, before, dav)
      BY <1>3 DEF DavIInv
    <3>2. Under(dav.from, k)
      BY <1>2, <1>3, <1>4, UnderSelf, KeyFacts DEF InHand
    <3>3. stored[k] = before[k] /\ before[k] # Missing
      BY <1>3, <1>4, <3>1, <3>2 DEF Halfway, SourceIs, KeysThere, Early
    <3>4. QED
      BY <1>6, <3>3 DEF Present
  <2>2. QED
    BY <1>1, <1>2, <1>3, <1>6, <2>1, Ends
<1>7. QED
  BY <1>5, <1>6

LEMMA DropKeeps == DavIInv /\ DropSource => DavIInv'
<1> SUFFICES ASSUME DavIInv, DropSource PROVE DavIInv'
  OBVIOUS
<1>1. /\ dav \in Requested /\ stored \in [Path -> Texts] /\ InHand(dav)
      /\ dav.step = "drop" /\ dav.step # "done" /\ Quiet
  BY DavFacts DEF DropSource, Doing
<1>2. PICK k : k = dav.at
  OBVIOUS
<1>3. k \in File /\ k \in Path /\ Under(dav.from, k) /\ dav.op = "move"
      /\ (dav.from = k => dav.keys = {}) /\ (dav.from # k => Trees(dav))
  BY <1>1, <1>2, KeyFacts DEF InHand, Trees, Files, Requested
<1>4. ASSUME Transfers
      PROVE  Halfway(stored, before, dav) /\ (Files(dav) \/ Trees(dav)) /\ ~Related(dav.from, dav.to)
  BY <1>1, <1>3, <1>4 DEF DavIInv, Transfers, InHand
<1>5. CASE Present(k)
  <2>1. PICK step \in {"done", "transfer"} : step = IF dav.from = k THEN "done" ELSE "transfer"
    OBVIOUS
  <2> DEFINE d == [dav EXCEPT !.at = <<>>, !.step = step]
             s == [stored EXCEPT ![k] = Missing]
  <2>2. dav' = d /\ stored' = s
    BY <1>2, <1>5, <2>1 DEF DropSource, Stores
  <2>3. /\ d \in Requested /\ d.step = step /\ d.keys = dav.keys
        /\ d.op = dav.op /\ d.from = dav.from /\ d.to = dav.to
    BY <1>1 DEF Requested
  <2>4. s \in [Path -> Texts] /\ s[k] = Missing /\ \A j \in Path : j # k => s[j] = stored[j]
    BY <1>1, <1>3 DEF Texts
  <2> HIDE DEF d, s
  <2>5. InHand(d)
    BY <1>1, <1>3, <2>1, <2>3 DEF InHand, Files, Trees
  <2>6. \A j \in Path : ~Under(dav.from, j) /\ ~Under(dav.to, j) => s[j] = stored[j]
    BY <1>3, <2>4
  <2>7. ASSUME Transfers PROVE Halfway(s, before, d)
    <3>1. k \notin dav.keys
      BY <1>1, <1>2, <1>4, <2>7 DEF Halfway, KeysThere
    <3>2. SourceIs(s, before, d)
      <4>1. ASSUME NEW f \in File, Under(dav.from, f)
            PROVE  s[f] = IF f \in dav.keys THEN before[f] ELSE Missing
        <5>1. CASE f = k
          BY <2>4, <3>1, <5>1
        <5>2. CASE f # k
          BY <1>1, <1>2, <1>3, <1>4, <2>4, <2>7, <4>1, <5>2, KeyFacts DEF Halfway, SourceIs, Early
        <5>3. QED
          BY <5>1, <5>2
      <4>2. QED
        BY <1>3, <2>1, <2>3, <4>1 DEF SourceIs, Early
    <3>3. TargetIs(s, before, d)
      <4>1. \A g \in File : Under(dav.to, g) => g # k
        BY <1>3, <1>4, <2>7, Apart
      <4>2. QED
        BY <1>1, <1>4, <2>3, <2>4, <2>7, <4>1, KeyFacts DEF Halfway, TargetIs, Early
    <3>4. KeysThere(before, d)
      BY <1>1, <1>3, <1>4, <2>1, <2>3, <2>7 DEF Halfway, KeysThere
    <3>5. QED
      BY <2>1, <2>3, <3>2, <3>3, <3>4 DEF Halfway, Cleared
  <2>8. QED
    BY <1>1, <2>2, <2>3, <2>4, <2>5, <2>6, <2>7, Onward
<1>6. CASE ~Present(k)
  <2>1. ~Transfers
    <3> SUFFICES ASSUME Transfers PROVE FALSE
      OBVIOUS
    <3>1. stored[k] = before[k] /\ before[k] # Missing
      BY <1>1, <1>2, <1>3, <1>4 DEF Halfway, SourceIs, KeysThere
    <3>2. QED
      BY <1>6, <3>1 DEF Present
  <2>2. Goes("done") /\ UNCHANGED stored
    BY <1>2, <1>6 DEF DropSource
  <2>3. QED
    BY <1>1, <2>1, <2>2, Ends
<1>7. QED
  BY <1>5, <1>6

LEMMA TransferredKeeps == DavIInv /\ Transferred => DavIInv'
<1> SUFFICES ASSUME DavIInv, Transferred PROVE DavIInv'
  OBVIOUS
<1>1. /\ dav \in Requested /\ stored \in [Path -> Texts] /\ InHand(dav)
      /\ dav.step = "transfer" /\ dav.step # "done" /\ Quiet /\ dav.keys = {} /\ stored' = stored
  BY DavFacts DEF Transferred, Doing
<1>2. PICK step \in {"list", "done"} : step = IF dav.op = "move" THEN "list" ELSE "done"
  OBVIOUS
<1> DEFINE d == [dav EXCEPT !.step = step]
<1>3. dav' = d
  BY <1>2 DEF Transferred, Goes
<1>4. d \in Requested /\ d.step = step /\ d.keys = {} /\ d.op = dav.op /\ d.from = dav.from /\ d.to = dav.to
  BY <1>1 DEF Requested
<1> HIDE DEF d
<1>5. dav.op \in {"move", "copy"} /\ Trees(dav)
  BY <1>1 DEF InHand, Files, Requested
<1>6. InHand(d)
  BY <1>2, <1>4, <1>5 DEF InHand, Trees
<1>7. ASSUME Transfers PROVE Halfway(stored, before, d)
  <2>1. Halfway(stored, before, dav)
    BY <1>1, <1>7 DEF DavIInv
  <2>2. SourceIs(stored, before, d)
    BY <1>1, <1>2, <1>4, <2>1 DEF Halfway, SourceIs, Early
  <2>3. TargetIs(stored, before, d)
    BY <1>1, <1>2, <1>4, <2>1 DEF Halfway, TargetIs, Early
  <2>4. Cleared(stored, d) /\ KeysThere(before, d)
    BY <1>2, <1>4 DEF Cleared, KeysThere
  <2>5. QED
    BY <2>2, <2>3, <2>4 DEF Halfway
<1>8. QED
  BY <1>1, <1>3, <1>4, <1>6, <1>7, Onward

(* Storage fails: what had come until then is as it was. *)
LEMMA FailureKeeps == DavIInv /\ StorageFails => DavIInv'
<1> SUFFICES ASSUME DavIInv, StorageFails PROVE DavIInv'
  OBVIOUS
<1> DEFINE d == [dav EXCEPT !.step = "done"]
<1>1. /\ dav \in Requested /\ InHand(dav) /\ dav' = d /\ broken' = TRUE
      /\ failures' = failures + 1 /\ failures < MaxFailures /\ UNCHANGED <<stored, before, disturbed, requests, writes>>
  BY DavFacts DEF StorageFails, Goes
<1>2. d \in Requested /\ d.step = "done" /\ d.op = dav.op /\ d.from = dav.from /\ d.to = dav.to /\ d.keys = dav.keys
  BY <1>1 DEF Requested
<1> HIDE DEF d
<1>3. InHand(d)
  BY <1>1, <1>2 DEF InHand, Trees, Files
<1>4. failures' \in 0..MaxFailures
  BY <1>1, DavAssumption DEF DavIInv, DavTypeOK
<1>5. DavTypeOK'
  BY <1>1, <1>2, <1>4 DEF DavIInv, DavTypeOK, Requested
<1>6. OthersUntouched'
  BY <1>1, <1>2 DEF DavIInv, OthersUntouched
<1>7. FilesKept'
  BY <1>1, <1>2, HalfwayKeeps DEF FilesKept, Transfers, Below, Target
<1>8. QED
  BY <1>1, <1>2, <1>3, <1>5, <1>6, <1>7 DEF DavIInv

(* Others write: nothing is promised for the request any more. *)
LEMMA OthersKeep == DavIInv /\ OthersWrite => DavIInv'
<1> SUFFICES ASSUME DavIInv, OthersWrite PROVE DavIInv'
  OBVIOUS
<1>1. /\ dav \in Requested /\ stored \in [Path -> Texts] /\ disturbed' = TRUE /\ dav.step # "done"
      /\ writes' = writes + 1 /\ writes < MaxWrites /\ UNCHANGED <<dav, before, broken, requests, failures>>
  BY DavFacts DEF OthersWrite, Doing
<1>2. stored' \in [Path -> Texts]
  <2>1. PICK k \in Path, text \in Texts : stored' = [stored EXCEPT ![k] = text]
    BY KeyFacts DEF OthersWrite, Stores, Texts
  <2>2. QED
    BY <1>1, <2>1
<1>3. writes' \in 0..MaxWrites
  BY <1>1, DavAssumption DEF DavIInv, DavTypeOK
<1>4. DavTypeOK'
  BY <1>1, <1>2, <1>3 DEF DavIInv, DavTypeOK, Texts
<1>5. InHand(dav')
  BY <1>1 DEF DavIInv
<1>6. ~Transfers' /\ ~broken' /\ OthersUntouched'
  BY <1>1 DEF DavIInv, Transfers, OthersUntouched
<1>7. QED
  BY <1>4, <1>5, <1>6 DEF DavIInv

LEMMA DavBegins == DavInit => DavIInv
<1> SUFFICES ASSUME DavInit PROVE DavIInv
  OBVIOUS
<1>1. /\ dav = [step |-> "done", op |-> "none", from |-> <<>>, to |-> <<>>, keys |-> {}, at |-> <<>>]
      /\ before = stored /\ disturbed = FALSE /\ broken = FALSE /\ requests = 0 /\ writes = 0 /\ failures = 0
  BY DEF DavInit, NoRequest
<1>2. stored \in [Path -> Texts]
  BY DEF DavInit, Texts, Path
<1>3. dav \in Requested /\ dav.op = "none" /\ dav.step = "done"
  BY <1>1 DEF Requested
<1>4. DavTypeOK
  <2>1. MaxTransfers \in Nat /\ MaxWrites \in Nat /\ MaxFailures \in Nat
    BY DavAssumption
  <2>2. requests \in 0..MaxTransfers /\ writes \in 0..MaxWrites /\ failures \in 0..MaxFailures
    BY <1>1, <2>1
  <2>3. before \in [Path -> Texts] /\ disturbed \in BOOLEAN /\ broken \in BOOLEAN
    BY <1>1, <1>2
  <2>4. QED
    BY <1>2, <1>3, <2>2, <2>3 DEF DavTypeOK, Requested, Texts
<1>5. InHand(dav)
  BY <1>3 DEF InHand
<1>6. QED
  BY <1>1, <1>3, <1>4, <1>5 DEF DavIInv, Transfers, OthersUntouched

LEMMA DavStays == DavIInv /\ UNCHANGED davVars => DavIInv'
BY DEF DavIInv, davVars, DavTypeOK, InHand, Files, Trees, OthersUntouched, Transfers, FilesKept, Below, Target,
       Halfway, SourceIs, TargetIs, Cleared, KeysThere

(* A file that is moved or copied, alone or in a tree, is at its old place or at its new one at every      *)
(* moment and wherever storage fails; a request that ends has made the target what the source was, and     *)
(* nothing outside its trees is touched: for trees of any depth and names, while nobody else writes, and   *)
(* for any number of requests, failures and writes (dav.py).                                               *)
THEOREM TreesKeepFiles == DavSpec => []DavInv
<1>1. DavInit => DavIInv
  BY DavBegins
<1>2. DavIInv /\ [DavNext]_davVars => DavIInv'
  BY RequestBegins, ListKeeps, DeleteKeeps, DeletedKeeps, EntriesKeeps, FolderKeeps, FileKeeps, DropKeeps,
     TransferredKeeps, FailureKeeps, OthersKeep, DavStays DEF DavNext
<1>3. DavIInv => DavInv
  BY DavFollows
<1>4. QED
  BY <1>1, <1>2, <1>3, PTL DEF DavSpec
=============================================================================
