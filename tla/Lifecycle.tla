------------------------------ MODULE Lifecycle ------------------------------
(* What the tools make of a vault's layout: the schema file and the layout it leaves the vault on, the    *)
(* frontmatter each tool writes, lint, and the parking of stale tasks while others write.  A handler's    *)
(* read and conditional write are one step (NoteStore); a parking run is a step per note.                 *)
EXTENDS Naturals, Sequences, FiniteSets

CONSTANTS
  Path, FolderOf,     \* notes, and the folder of each
  LogPage, Report,    \* the paths of repo logs, of which a layout's log folder has one, and of lint's report
  Machine,
  Layouts, Preset,    \* schema files as merged over their preset, and the preset itself
  HandWritten,        \* frontmatter that people write
  NoNote, NoClaim, NoFolder, Plain,   \* absent; unclaimed; a layout without such a folder; no priority
  ClaimStaleDays, StaleAfterDays,
  MaxDay, MaxCalls    \* bounds: days, and calls and edits

VARIABLES
  file, schema,    \* the schema file of the vault, and the layout the server has loaded
  notes, indexed,  \* the notes, and what the index has of them
  day, steps,
  park,            \* a lint with --park-stale : [step, now, folders, seen, left, parked]
  touched,         \* the paths others wrote since the parking run began
  last             \* the note a tool wrote last : [by, path]
lifecycleVars == <<file, schema, notes, indexed, day, steps, park, touched, last>>

Open == {"active", "draft"}
Done == {"complete", "superseded"}

(* Folders of a kind in the order of the file: the tools take the first.                                  *)
OfKind(layout, kind) == {i \in DOMAIN layout.order : layout.kindOf[layout.order[i]] = kind}
FirstOf(layout, kind) ==
  IF OfKind(layout, kind) = {} THEN NoFolder
  ELSE layout.order[CHOOSE i \in OfKind(layout, kind) : \A j \in OfKind(layout, kind) : i <= j]
TaskFolders(layout) == {f \in DOMAIN layout.kindOf : layout.kindOf[f] = "task"}
ArchiveFolder(layout) == FirstOf(layout, "archive")
LogFolder(layout) == IF layout.logFolder # NoFolder THEN layout.logFolder ELSE FirstOf(layout, "log")
BacklogFolder(layout) ==
  IF layout.backlogFolder \in TaskFolders(layout) THEN layout.backlogFolder ELSE FirstOf(layout, "task")

(* _contract_problems: what the tools write by themselves must be allowed.                                *)
Needed(layout) == Done \cup (IF TaskFolders(layout) # {} THEN {"active", "backlog"} ELSE {})

KindsNeeded(layout) ==
  (IF TaskFolders(layout) # {} THEN {"task"} ELSE {}) \cup (IF LogFolder(layout) # NoFolder THEN {"log"} ELSE {})
(* schema_problems: every key of the file has the shape it should.                                        *)
Sound(layout) == layout.sound
Sufficient(layout) ==
  /\ Sound(layout)
  /\ Needed(layout) \subseteq layout.statuses
  /\ KindsNeeded(layout) \subseteq layout.kinds
  /\ layout.areaIn \subseteq DOMAIN layout.kindOf \cup {LogFolder(layout)}
  /\ layout.backlogFolder \in TaskFolders(layout) \cup {NoFolder}
Effective(layout) == IF Sufficient(layout) THEN layout ELSE Preset

(* A note's frontmatter, with the fields it lacks.  A preset satisfies the check (tests/test_presets.py:40).  *)
Claims == [machine : Machine, since : Nat]
ByHand(field) == {fm[field] : fm \in HandWritten}
Note == [status : {"active", "backlog", "complete"} \cup ByHand("status"), kind : {"task", "log"} \cup ByHand("kind"),
         priority : {Plain, "low"} \cup ByHand("priority"), tag : {"repo", "area", "log"} \cup ByHand("tag"),
         lacks : {{}, {"summary"}} \cup ByHand("lacks"), claim : Claims \cup {NoClaim}, updated : Nat, parses : BOOLEAN]

ASSUME LifecycleAssumption ==
  /\ Preset \in Layouts /\ Sufficient(Preset) /\ \A layout \in Layouts : layout.order \in Seq(DOMAIN layout.kindOf)
  /\ LogPage \subseteq Path /\ Report \in Path /\ \A p \in Path : FolderOf[p] # NoFolder
  /\ HandWritten \subseteq Note /\ NoNote \notin Note /\ NoClaim \notin Claims
  /\ ClaimStaleDays \in Nat /\ StaleAfterDays \in Nat /\ MaxDay \in Nat /\ MaxCalls \in Nat

(* validate: the kinds of problems a note's frontmatter has at a path.                                    *)
Problems(note, p, layout) ==
  {problem \in {"required", "status", "kind", "priority", "area", "tags"} :
     CASE problem = "required" -> layout.required \cap note.lacks # {}
       [] problem = "status" -> note.status \notin layout.statuses
       [] problem = "kind" -> note.kind \notin layout.kinds
       [] problem = "priority" -> layout.priorities # {} /\ note.priority \notin layout.priorities \cup {Plain}
       [] problem = "area" -> FolderOf[p] \in layout.areaIn /\ "area" \in note.lacks
       [] problem = "tags" -> layout.strict /\ note.tag \notin layout.vocabulary}

Frontmatter(status, kind, tag, lacks) ==
  [status |-> status, kind |-> kind, priority |-> Plain, tag |-> tag, lacks |-> lacks,
   claim |-> NoClaim, updated |-> day, parses |-> TRUE]

Quiet == [step |-> "rest", now |-> 0, folders |-> {}, seen |-> << >>, left |-> {}, parked |-> {}]
Nobody == [by |-> "nobody", path |-> Report]

LifecycleInit ==
  /\ file \in Layouts /\ schema = Effective(file)
  /\ notes \in [Path -> HandWritten \cup {NoNote}] /\ Cardinality({p \in Path : notes[p] # NoNote}) <= 1
  /\ indexed = notes
  /\ day = 0 /\ steps = 0 /\ park = Quiet /\ touched = {} /\ last = Nobody

Call == steps < MaxCalls /\ steps' = steps + 1

Touches(ps) == touched' = IF park.step \in {"park", "lint"} THEN touched \cup ps ELSE {}

(* put and _reindex of one note.                                                                          *)
Stores(by, p, note) ==
  /\ notes' = [notes EXCEPT ![p] = note] /\ indexed' = [indexed EXCEPT ![p] = note]
  /\ last' = [by |-> by, path |-> p] /\ Touches({p})
  /\ UNCHANGED <<file, schema, day, park>>
StoresValid(by, p, note) == Problems(note, p, schema) = {} /\ Stores(by, p, note)

Stored(p) == notes[p] # NoNote /\ notes[p].parses
Restamped(p) == [notes[p] EXCEPT !.updated = day]

(* write_file: any frontmatter that satisfies the layout; a stored claim is kept.                         *)
WriteFile(p) == \E fm \in HandWritten :
  LET kept == IF notes[p] # NoNote THEN notes[p].claim ELSE NoClaim IN
  Call /\ fm.parses /\ StoresValid("write", p, [fm EXCEPT !.updated = day, !.claim = kept])

(* set_status; parking drops the claim.                                                                   *)
Restated(note, status, priority) ==
  [note EXCEPT !.status = status, !.updated = day,
     !.claim = IF status = "backlog" THEN NoClaim ELSE note.claim,
     !.priority = IF priority = Plain THEN note.priority ELSE priority]
SetStatus(p) == \E status \in {"active", "backlog"} :
  Call /\ Stored(p) /\ StoresValid("set_status", p, Restated(notes[p], status, Plain))

(* close: to the first free name of the archive, or in place where there is none.                         *)
Close(p) == \E q \in Path :
  LET archive == ArchiveFolder(schema)
      closed == [Restamped(p) EXCEPT !.status = "complete", !.claim = NoClaim] IN
  /\ Call /\ Stored(p)
  /\ IF archive \in {NoFolder, FolderOf[p]} THEN q = p ELSE FolderOf[q] = archive /\ notes[q] = NoNote
  /\ Problems(closed, q, schema) = {}
  /\ notes' = [r \in Path |-> IF r = q THEN closed ELSE IF r = p THEN NoNote ELSE notes[r]]
  /\ indexed' = [r \in Path |-> IF r = q THEN closed ELSE IF r = p THEN NoNote ELSE indexed[r]]
  /\ last' = [by |-> "close", path |-> q] /\ Touches({p, q})
  /\ UNCHANGED <<file, schema, day, park>>

BacklogAdd(p) ==
  /\ Call /\ notes[p] = NoNote /\ FolderOf[p] = BacklogFolder(schema)
  /\ StoresValid("backlog_add", p, Frontmatter("backlog", "task", "repo", {}))

(* task_tags: the repo's name, or the area's first tag where the vocabulary has no other.                 *)
TaskTag == IF schema.vocabulary # {} /\ "repo" \notin schema.vocabulary /\ "area" \in schema.vocabulary
           THEN "area" ELSE "repo"
OpenTask(p) ==
  /\ Call /\ notes[p] = NoNote /\ FolderOf[p] = FirstOf(schema, "task")
  /\ StoresValid("open_task", p, Frontmatter("active", "task", TaskTag, {"summary"}))

Claim(p, m) ==
  /\ Call /\ Stored(p) /\ FolderOf[p] \in TaskFolders(schema)
  /\ notes[p].claim # NoClaim => notes[p].claim.machine = m
  /\ LET since == IF notes[p].claim = NoClaim THEN day ELSE notes[p].claim.since IN
     StoresValid("claim", p, [Restamped(p) EXCEPT !.claim = [machine |-> m, since |-> since]])
Release(p) ==
  /\ Call /\ Stored(p) /\ FolderOf[p] \in TaskFolders(schema) /\ notes[p].claim # NoClaim
  /\ StoresValid("release", p, [Restamped(p) EXCEPT !.claim = NoClaim])

(* log_append: the page is made when it is missing and never validated.                                   *)
LogAppend(p) ==
  /\ Call /\ p \in LogPage /\ FolderOf[p] = LogFolder(schema)
  /\ notes[p] # NoNote => notes[p].parses
  /\ IF notes[p] = NoNote THEN Stores("log_append", p, Frontmatter("active", "log", "log", {"summary"}))
     ELSE Stores("nobody", p, Restamped(p))

(* Another program, or another server, leaves a note in the vault; the next sync reads it.                *)
Edit(p) == \E fm \in HandWritten :
  /\ Call
  /\ notes' = [notes EXCEPT ![p] = [fm EXCEPT !.updated = IF notes[p] = NoNote THEN day ELSE notes[p].updated]]
  /\ Touches({p}) /\ last' = Nobody /\ UNCHANGED <<file, schema, indexed, day, park>>
Relayout == \E layout \in Layouts \ {file} :
  Call /\ file' = layout /\ last' = Nobody /\ UNCHANGED <<schema, notes, indexed, day, park, touched>>
Refresh ==
  /\ schema # Effective(file) \/ indexed # notes
  /\ schema' = Effective(file) /\ indexed' = notes /\ last' = Nobody
  /\ Touches(IF schema' # schema THEN Path ELSE {})
  /\ UNCHANGED <<file, notes, day, steps, park>>
DayPasses == day < MaxDay /\ day' = day + 1 /\ last' = Nobody
             /\ Touches(Path) /\ UNCHANGED <<file, schema, notes, indexed, steps, park>>

Age(note) == day - note.updated
Later(a, b) == IF a > b THEN a ELSE b
ClaimIsFresh(note) == note.claim # NoClaim /\ day - Later(note.claim.since, note.updated) <= ClaimStaleDays

(* lint_findings with park: after a sync it goes through the rows as they were, passing over those that it   *)
(* does not park, and stops at the first set_status that fails; lint then reads the rows as they are now.     *)
ParkBegin ==
  /\ Call /\ park.step = "rest"
  /\ schema' = Effective(file) /\ indexed' = notes
  /\ park' = [step |-> "park", now |-> day, folders |-> TaskFolders(schema'), seen |-> notes,
              left |-> {p \in Path : notes[p] # NoNote}, parked |-> {}]
  /\ touched' = {} /\ last' = Nobody /\ UNCHANGED <<file, notes, day>>

\* Mutant: a claim protects its note however old it is.
ParksUnclaimed(p) ==
  /\ park.seen[p].parses /\ FolderOf[p] \in park.folders /\ park.seen[p].status \in Open
  /\ park.now - park.seen[p].updated > StaleAfterDays /\ park.seen[p].claim = NoClaim

Parks(p) ==
  /\ park.seen[p].parses /\ FolderOf[p] \in park.folders /\ park.seen[p].status \in Open
  /\ park.now - park.seen[p].updated > StaleAfterDays /\ ~ClaimIsFresh(park.seen[p])
ParkNote(p) ==
  LET seen == park.seen[p]
      settled == Restated(notes[p], "backlog", IF seen.priority = Plain THEN "low" ELSE seen.priority) IN
  /\ park.step = "park" /\ p \in park.left /\ last' = Nobody
  /\ \/ /\ Parks(p) /\ Stored(p) /\ Problems(settled, p, schema) = {}
        /\ notes' = [notes EXCEPT ![p] = settled] /\ indexed' = [indexed EXCEPT ![p] = settled]
        /\ park' = [park EXCEPT !.left = @ \ {p}, !.parked = @ \cup {p}]
     \/ /\ Parks(p) /\ ~(Stored(p) /\ Problems(settled, p, schema) = {})
        /\ park' = [park EXCEPT !.step = "failed"] /\ UNCHANGED <<notes, indexed>>
  /\ UNCHANGED <<file, schema, day, steps, touched>>
ParkEnd ==
  /\ park.step = "park" /\ (\A p \in park.left : ~Parks(p)) /\ park' = [park EXCEPT !.step = "lint"]
  /\ last' = Nobody /\ UNCHANGED <<file, schema, notes, indexed, day, steps, touched>>

(* lint_note_text, put over whatever is there.                                                            *)
WriteReport ==
  /\ park.step \in {"lint", "failed"} /\ park' = Quiet
  /\ LET note == Frontmatter("complete", "log", "log", {"summary"}) IN
     IF park.step = "failed" THEN UNCHANGED <<notes, indexed>> /\ last' = Nobody
     ELSE /\ notes' = [notes EXCEPT ![Report] = note] /\ indexed' = [indexed EXCEPT ![Report] = note]
          /\ last' = [by |-> "lint", path |-> Report]
  /\ touched' = {} /\ UNCHANGED <<file, schema, day, steps>>

LifecycleNext ==
  \/ \E p \in Path : \/ WriteFile(p) \/ SetStatus(p) \/ Close(p) \/ BacklogAdd(p) \/ OpenTask(p) \/ Release(p)
                     \/ LogAppend(p) \/ Edit(p) \/ ParkNote(p) \/ \E m \in Machine : Claim(p, m)
  \/ Relayout \/ Refresh \/ DayPasses \/ ParkBegin \/ ParkEnd \/ WriteReport
LifecycleSpec == LifecycleInit /\ [][LifecycleNext]_lifecycleVars

(* lint, of the rows that parse: the contract, read again from the store, and the lifecycle.              *)
Broken == {p \in Path : indexed[p] # NoNote /\ (~indexed[p].parses \/ ~Stored(p))}
Breaches(p) == IF indexed[p] = NoNote \/ p \in Broken THEN {} ELSE Problems(notes[p], p, schema)
Listed == {p \in Path : indexed[p] # NoNote /\ indexed[p].parses}
StaleActive ==
  {p \in Listed :
     FolderOf[p] \in TaskFolders(schema) /\ indexed[p].status \in Open /\ Age(indexed[p]) > StaleAfterDays}
DoneNotClosed ==
  {p \in Listed :
     ArchiveFolder(schema) # NoFolder /\ FolderOf[p] \in TaskFolders(schema) /\ indexed[p].status \in Done}
ArchiveMismatch == {p \in Listed : FolderOf[p] = ArchiveFolder(schema) /\ indexed[p].status \notin Done}

(* A note a tool has just written is one that lint finds nothing to say of, under the layout in effect.   *)
(* log_append and lint write without validating: the check of the layout has to see to it, and does but   *)
(* for the status of a log in a layout with no tasks, the kind of a report in one with no log, strict     *)
(* tags, and more required fields than the page has.                                                      *)
Unchecked(by) ==
  (IF schema.strict /\ "log" \notin schema.vocabulary THEN {"tags"} ELSE {}) \cup
  (IF "summary" \in schema.required THEN {"required"} ELSE {}) \cup
  (IF by = "log_append" /\ TaskFolders(schema) = {} /\ "active" \notin schema.statuses THEN {"status"} ELSE {}) \cup
  (IF by = "lint" /\ LogFolder(schema) = NoFolder /\ "log" \notin schema.kinds THEN {"kind"} ELSE {})
LintClean ==
  /\ last.by # "nobody" => last.path \notin Broken
  /\ last.by # "nobody" =>
       Breaches(last.path) \subseteq IF last.by \in {"log_append", "lint"} THEN Unchecked(last.by) ELSE {}
  /\ last.by \in {"close", "backlog_add", "open_task"} =>
       last.path \notin StaleActive \cup DoneNotClosed \cup ArchiveMismatch

(* When a parking run has gone through, the stale open tasks that lint then finds are those that a claim  *)
(* of the last days protects, or that others wrote meanwhile; the parked ones keep to the contract.       *)
ParkSettles ==
  park.step = "lint" =>
    /\ \A p \in StaleActive \ touched : ClaimIsFresh(indexed[p])
    /\ \A p \in park.parked \ touched : notes[p].status = "backlog" /\ notes[p].claim = NoClaim /\ Breaches(p) = {}

(* Tools and lint agree on what a note in this layout is (notes.py: _lint_frontmatter, park_stale).       *)
LifecycleInv == LintClean /\ ParkSettles
=============================================================================
