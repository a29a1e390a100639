------------------------------- MODULE Layouts -------------------------------
(* What fills one vault and empties it in bulk: a layout is written when the vault is made, when it is    *)
(* first opened, by the init tool, by the init command and by the vault's page, which also switches it    *)
(* (provision.initialize); a zip or a folder is imported and the vault is exported.  Several of these run *)
(* at once, in threads of one server or of several, are stopped half way, and people work in the vault    *)
(* all the while, in Obsidian and over WebDAV.                                                            *)
EXTENDS Naturals, Sequences, Functions

CONSTANTS
  Layout,          \* the presets that this version ships
  BuiltIn,         \* of these, the one the pages do not offer
  Custom,          \* and the one that an unknown preset is read as
  Unknown,         \* a preset that this version does not ship
  ViewsOf,         \* the files of each preset, in their order
  SchemaKey, PreviousKey, WelcomeKey, Note,
  Archive,         \* what is imported: a text for each of its keys
  Hand,            \* requests and commands
  MaxJobs, MaxEdits, MaxStops,   \* bounds
  NoFile, Anything

View == UNION {Range(ViewsOf[p]) : p \in Layout}
VaultKey == {SchemaKey, PreviousKey, WelcomeKey} \cup View \cup Note

(* A text: the preset it is a template of, or the preset a schema names (of), and which edit it is, 0     *)
(* for the template as it is shipped.  The views and the schema of a preset are told apart by their keys. *)
Text == [of : Layout \cup {Unknown, Anything}, edit : Nat]

ASSUME LayoutsAssumption ==
  /\ {BuiltIn, Custom} \subseteq Layout /\ Unknown \notin Layout
  /\ NoFile \notin Layout \cup {Unknown} \cup Text
  /\ \A p \in Layout : ViewsOf[p] \in Seq(View)
  /\ SchemaKey # PreviousKey /\ WelcomeKey \notin {SchemaKey, PreviousKey}
  /\ {SchemaKey, PreviousKey, WelcomeKey} \cap (View \cup Note) = {} /\ View \cap Note = {}
  /\ DOMAIN Archive \subseteq VaultKey /\ \A k \in DOMAIN Archive : Archive[k] \in Text
  /\ SchemaKey \in DOMAIN Archive => Archive[SchemaKey].of \in Layout \cup {Unknown}
  /\ {MaxJobs, MaxEdits, MaxStops} \subseteq Nat

Template(p) == [of |-> p, edit |-> 0]
ByHand(n) == [of |-> Anything, edit |-> n]

VARIABLES
  held,      \* what is stored under each key: a text or NoFile
  work,      \* what each request and command is at
  jobs, edits, stops,
  mine,      \* what people wrote under each key, if nothing may have replaced it since
  removed,   \* the keys that people emptied
  past       \* what there was: [replaced, laid, crossed, cut]
layoutsVars == <<held, work, jobs, edits, stops, mine, removed, past>>

NoJob == [kind |-> "none", step |-> "none"]

(* The vault is new, or has the layout it was once given.                                                 *)
LayoutsInit ==
  /\ \E p \in Layout \cup {NoFile} :
       /\ held = [k \in VaultKey |->
                   IF p # NoFile /\ k \in {SchemaKey} \cup Range(ViewsOf[p]) THEN Template(p) ELSE NoFile]
       /\ past = [replaced |-> NoFile, laid |-> p, crossed |-> FALSE, cut |-> FALSE]
  /\ mine = [k \in VaultKey |-> NoFile] /\ removed = {}
  /\ work = [h \in Hand |-> NoJob] /\ jobs = 0 /\ edits = 0 /\ stops = 0

There == {k \in VaultKey : held[k] # NoFile}

GoesTo(h, j) == work' = [work EXCEPT ![h] = j]
TakesUp(h, j) == work[h] = NoJob /\ jobs < MaxJobs /\ jobs' = jobs + 1 /\ GoesTo(h, j)

(* named_preset, preset_of: what the schema names, and the preset it is read as.                          *)
Named == IF held[SchemaKey] = NoFile THEN NoFile ELSE held[SchemaKey].of
ReadAs(named) == IF named \in Layout \cup {NoFile} THEN named ELSE Custom

(* An export goes on about the texts that stay where it listed them, and those that moved from there      *)
(* and left their place empty.                                                                            *)
Watched(f) ==
  [h \in Hand |->
     IF work[h].kind # "export" THEN work[h]
     ELSE [work[h] EXCEPT !.stay =
             {e \in @ : f[e[1]] \in {e[2], NoFile} /\ \E k \in VaultKey : f[k] = e[2]}]]

Becomes(k, t) == LET f == [held EXCEPT ![k] = t] IN held' = f /\ work' = Watched(f)
Stores(h, k, t, j) ==
  LET f == [held EXCEPT ![k] = t] IN held' = f /\ work' = [Watched(f) EXCEPT ![h] = j]

-----------------------------------------------------------------------------
(* Who asks for a layout.  Each reads the schema before initialize reads it again.                        *)
Initialize(h, force, wanted, welcome) ==
  /\ TakesUp(h, [kind |-> "fill", step |-> "old", force |-> force, layout |-> wanted, welcome |-> welcome,
               old |-> NoFile, seen |-> {}, todo |-> <<>>, views |-> <<>>, drop |-> <<>>])
  /\ UNCHANGED <<held, edits, stops, mine, removed, past>>

(* A vault is made on the page, and is there for others before its layout is.                             *)
CreateVault(h, p) ==
  /\ There = {} /\ jobs = 0 /\ p # BuiltIn
  /\ Initialize(h, FALSE, p, TRUE)

(* A server opens a vault with nothing in it.                                                             *)
OpenEmpty(h) ==
  /\ There \ {PreviousKey} = {}
  /\ Initialize(h, FALSE, NoFile, TRUE)

SwitchLayout(h, p) ==
  /\ p # BuiltIn /\ Named \notin {BuiltIn, p}
  /\ Initialize(h, Named # NoFile, p, Named = NoFile)

CommandInit(h, force, wanted) == Initialize(h, force, wanted, FALSE)

(* The init tool refuses a client that would change the layout there is.                                  *)
ToolInit(h, force, wanted) ==
  /\ Named # NoFile => ~force /\ wanted \in {NoFile, ReadAs(Named)}
  /\ Initialize(h, force, wanted, FALSE)

-----------------------------------------------------------------------------
Chosen(j) ==
  IF j.layout # NoFile THEN j.layout ELSE IF Named = NoFile THEN BuiltIn ELSE Named

(* Past this step a layout is on its way: crossed says that two different ones ever were at once.         *)
Filling(h) == work[h].kind = "fill" /\ work[h].step # "old"

ReadOld(h) ==
  /\ work[h].kind = "fill" /\ work[h].step = "old"
  /\ IF work[h].layout = NoFile /\ Named = Unknown THEN GoesTo(h, NoJob) /\ UNCHANGED past
     ELSE /\ GoesTo(h, [work[h] EXCEPT !.old = held[SchemaKey], !.layout = Chosen(work[h]), !.step = "list"])
          /\ past' = [past EXCEPT !.crossed =
                         @ \/ \E x \in Hand \ {h} : Filling(x) /\ work[x].layout # Chosen(work[h])]
  /\ UNCHANGED <<held, jobs, edits, stops, mine, removed>>

Plan(j) == <<SchemaKey>> \o ViewsOf[j.layout] \o (IF j.welcome THEN <<WelcomeKey>> ELSE <<>>)

\* Mutant: a repeated switch takes the new schema for the old one.
SavesAlways(j) == j.force /\ j.old # NoFile

Saves(j) == j.force /\ j.old # NoFile /\ j.old # Template(j.layout)

(* backend.list names the notes, the views and the schema, and nothing else under a dot-folder.           *)
ListKeys(h) ==
  /\ work[h].kind = "fill" /\ work[h].step = "list"
  /\ LET j == work[h] IN
     GoesTo(h, [j EXCEPT !.seen = There \ {PreviousKey}, !.todo = Plan(j),
                       !.step = IF Saves(j) THEN "save" ELSE "put"])
  /\ UNCHANGED <<held, jobs, edits, stops, mine, removed, past>>

SavePrevious(h) ==
  /\ work[h].kind = "fill" /\ work[h].step = "save"
  /\ LET old == ReadAs(work[h].old.of)
         views == IF old = work[h].layout THEN <<>> ELSE ViewsOf[old]
     IN Stores(h, PreviousKey, work[h].old,
               [work[h] EXCEPT !.views = views, !.step = IF views = <<>> THEN "put" ELSE "compare"])
  /\ past' = [past EXCEPT !.replaced = IF work[h].old = Template(work[h].layout) THEN @ ELSE work[h].old]
  /\ UNCHANGED <<jobs, edits, stops, mine, removed>>

(* _untouched_bases reads one view of the old layout after the other, but for those the new one writes.   *)
(* What the old layout wrote has the stale days of the old schema in it, which an edit may have changed.  *)
Compare(h) ==
  /\ work[h].kind = "fill" /\ work[h].step = "compare"
  /\ \E same \in IF work[h].old.edit = 0 THEN {TRUE} ELSE BOOLEAN :
       LET j == work[h]  k == Head(j.views)
       IN GoesTo(h, [j EXCEPT !.views = Tail(@), !.step = IF Tail(j.views) = <<>> THEN "put" ELSE @,
                            !.drop = IF k \notin Range(Plan(j)) /\ same /\ held[k] = Template(ReadAs(j.old.of))
                                     THEN Append(@, k) ELSE @])
  /\ UNCHANGED <<held, jobs, edits, stops, mine, removed, past>>

(* What is stored next is kept if it was there when the keys were listed, or if the write that asks for   *)
(* nothing to be there finds something: a forced layout asks for nothing.                                 *)
Kept(j, k) ==
  ~j.force /\ (k \in j.seen \/ (k = SchemaKey /\ j.old # NoFile) \/ held[k] # NoFile)

Further(j) ==
  IF Len(j.todo) > 1 THEN [j EXCEPT !.todo = Tail(@)]
  ELSE IF j.drop # <<>> THEN [j EXCEPT !.todo = <<>>, !.step = "remove"] ELSE NoJob

(* A layout written to its end is whole, however the one before it ended.                                 *)
Finishes(p, j) == [p EXCEPT !.cut = @ /\ ~(Further(j) = NoJob /\ p.laid = j.layout)]

KeepKey(h) ==
  /\ work[h].kind = "fill" /\ work[h].step = "put" /\ Kept(work[h], Head(work[h].todo))
  /\ GoesTo(h, Further(work[h])) /\ past' = Finishes(past, work[h])
  /\ UNCHANGED <<held, jobs, edits, stops, mine, removed>>

SchemaPut(h) ==
  [past EXCEPT !.laid = work[h].layout,
               !.replaced = IF held[SchemaKey] \in {NoFile, Template(work[h].layout)} THEN @ ELSE held[SchemaKey]]

PutKey(h) ==
  /\ work[h].kind = "fill" /\ work[h].step = "put" /\ ~Kept(work[h], Head(work[h].todo))
  /\ LET j == work[h]  k == Head(j.todo) IN
     /\ Stores(h, k, Template(j.layout), Further(j))
     /\ mine' = IF j.force THEN [mine EXCEPT ![k] = NoFile] ELSE mine
     /\ removed' = removed \ {k}
     /\ past' = Finishes(IF k = SchemaKey THEN SchemaPut(h) ELSE past, j)
  /\ UNCHANGED <<jobs, edits, stops>>

(* The views of the old layout go last.  A delete of what is gone goes on in a bucket, and is a failure   *)
(* in a folder.                                                                                           *)
RemoveView(h) ==
  /\ work[h].kind = "fill" /\ work[h].step = "remove"
  /\ LET j == work[h]  k == Head(j.drop)
         next == IF Tail(j.drop) = <<>> THEN NoJob ELSE [j EXCEPT !.drop = Tail(@)]
     IN /\ Stores(h, k, NoFile, next) \/ (held[k] = NoFile /\ Stores(h, k, NoFile, NoJob))
        /\ past' = [past EXCEPT !.cut = @ /\ ~(work'[h] = NoJob /\ past.laid = j.layout)]
  /\ UNCHANGED <<jobs, edits, stops, mine, removed>>

-----------------------------------------------------------------------------
(* import_files: what is there, as it was listed, is read again if it has the size of what comes.         *)
Import(h) ==
  /\ TakesUp(h, [kind |-> "import", step |-> "put", seen |-> held, todo |-> DOMAIN Archive])
  /\ UNCHANGED <<held, edits, stops, mine, removed, past>>

ImportDone(h, k) == IF work[h].todo = {k} THEN NoJob ELSE [work[h] EXCEPT !.todo = @ \ {k}]

ImportSame(h, k) ==
  /\ k \in work[h].todo /\ work[h].seen[k] # NoFile /\ held[k] = Archive[k]
  /\ GoesTo(h, ImportDone(h, k))
  /\ UNCHANGED <<held, jobs, edits, stops, mine, removed, past>>

(* What was listed with the same size is gone when it is read: the import ends there.                     *)
ImportFails(h, k) ==
  /\ k \in work[h].todo /\ work[h].seen[k] # NoFile /\ held[k] = NoFile
  /\ GoesTo(h, NoJob)
  /\ UNCHANGED <<held, jobs, edits, stops, mine, removed, past>>

(* A schema in the archive is one more edit of the schema.  An edit that lands between the reading of the *)
(* schema and its replacing is lost.                                                                      *)
SchemaAhead(h) ==
  /\ Filling(h)
  /\ work[h].step \in {"list", "save", "compare"} \/ (work[h].step = "put" /\ Head(work[h].todo) = SchemaKey)

SchemaEdited(t) ==
  [past EXCEPT !.laid = IF t # NoFile /\ t.of = @ THEN @ ELSE NoFile,
               !.crossed = @ \/ \E x \in Hand : SchemaAhead(x)]

ImportPut(h, k) ==
  /\ k \in work[h].todo
  /\ work[h].seen[k] # Archive[k] \/ (held[k] # NoFile /\ held[k] # Archive[k])
  /\ Stores(h, k, Archive[k], ImportDone(h, k))
  /\ mine' = [mine EXCEPT ![k] = NoFile] /\ removed' = removed \ {k}
  /\ past' = IF k = SchemaKey THEN SchemaEdited(Archive[k])
             ELSE IF k = PreviousKey
             THEN [past EXCEPT !.replaced = NoFile, !.crossed = @ \/ \E x \in Hand : SchemaAhead(x)]
             ELSE past
  /\ UNCHANGED <<jobs, edits, stops>>

(* export_zip lists everything and then reads one file after the other.                                   *)
Export(h) ==
  /\ TakesUp(h, [kind |-> "export", step |-> IF There = {} THEN "zipped" ELSE "read", todo |-> There, got |-> {},
               stay |-> {<<k, held[k]>> : k \in There}])
  /\ UNCHANGED <<held, edits, stops, mine, removed, past>>

Zipped(j, k, t) ==
  [j EXCEPT !.todo = @ \ {k}, !.got = @ \cup {t}, !.step = IF j.todo = {k} THEN "zipped" ELSE @]

(* What is gone meanwhile fails the export.                                                               *)
ExportRead(h, k) ==
  /\ GoesTo(h, IF held[k] = NoFile THEN NoJob ELSE Zipped(work[h], k, held[k]))
  /\ UNCHANGED <<held, jobs, edits, stops, mine, removed, past>>

ExportSent(h) ==
  /\ work[h].kind = "export" /\ work[h].step = "zipped" /\ GoesTo(h, NoJob)
  /\ UNCHANGED <<held, jobs, edits, stops, mine, removed, past>>

-----------------------------------------------------------------------------
(* A server is killed, or storage fails, and what it was at ends there.                                   *)
Stop(h) ==
  /\ work[h] # NoJob /\ stops < MaxStops /\ stops' = stops + 1
  /\ GoesTo(h, NoJob) /\ past' = [past EXCEPT !.cut = @ \/ work[h].kind = "fill"]
  /\ UNCHANGED <<held, jobs, edits, mine, removed>>

Edit == edits < MaxEdits /\ edits' = edits + 1 /\ UNCHANGED <<jobs, stops>>

(* Whether a layout has compared the view and is about to remove it.                                      *)
Doomed(k) == \E h \in Hand : work[h].kind = "fill" /\ k \in Range(work[h].drop)

WriteFile(k) ==
  /\ Edit /\ Becomes(k, ByHand(edits + 1))
  /\ mine' = [mine EXCEPT ![k] = IF Doomed(k) THEN NoFile ELSE ByHand(edits + 1)]
  /\ removed' = removed \ {k} /\ UNCHANGED past

EditSchema(p) ==
  /\ Edit /\ Becomes(SchemaKey, [of |-> p, edit |-> edits + 1])
  /\ mine' = [mine EXCEPT ![SchemaKey] = [of |-> p, edit |-> edits + 1]]
  /\ removed' = removed \ {SchemaKey} /\ past' = SchemaEdited([of |-> p, edit |-> edits + 1])

DeleteFile(k) ==
  /\ Edit /\ held[k] # NoFile /\ Becomes(k, NoFile)
  /\ mine' = [mine EXCEPT ![k] = NoFile] /\ removed' = removed \cup {k}
  /\ past' = IF k = SchemaKey THEN SchemaEdited(NoFile) ELSE past

MoveNote(k, to) ==
  /\ Edit /\ held[k] # NoFile
  /\ LET f == [held EXCEPT ![k] = NoFile, ![to] = held[k]] IN held' = f /\ work' = Watched(f)
  /\ mine' = [mine EXCEPT ![k] = NoFile, ![to] = mine[k]] /\ removed' = removed \cup {k}
  /\ UNCHANGED past

-----------------------------------------------------------------------------
Asks(h) ==
  \/ OpenEmpty(h)
  \/ \E p \in Layout : CreateVault(h, p) \/ SwitchLayout(h, p)
  \/ \E force \in BOOLEAN, wanted \in Layout \cup {NoFile} :
       CommandInit(h, force, wanted) \/ ToolInit(h, force, wanted)

Fills(h) ==
  \/ ReadOld(h) \/ ListKeys(h) \/ SavePrevious(h) \/ Compare(h)
  \/ KeepKey(h) \/ PutKey(h) \/ RemoveView(h)

Transfers(h) ==
  \/ Import(h) \/ Export(h) \/ ExportSent(h)
  \/ /\ work[h].kind = "import"
     /\ \E k \in work[h].todo : ImportSame(h, k) \/ ImportFails(h, k) \/ ImportPut(h, k)
  \/ work[h].kind = "export" /\ \E k \in work[h].todo : ExportRead(h, k)

People ==
  \/ \E k \in View \cup Note : WriteFile(k)
  \/ \E p \in {Named, Unknown} \ {NoFile} : EditSchema(p)
  \/ \E k \in VaultKey \ {PreviousKey} : DeleteFile(k)
  \/ \E k \in Note : \E to \in Note \ {k} : MoveNote(k, to)

LayoutsNext == People \/ \E h \in Hand : Asks(h) \/ Fills(h) \/ Transfers(h) \/ Stop(h)

LayoutsSpec == LayoutsInit /\ [][LayoutsNext]_layoutsVars

-----------------------------------------------------------------------------
LayoutsTypeOK ==
  /\ held \in [VaultKey -> Text \cup {NoFile}]
  /\ \A h \in Hand : work[h].kind \in {"none", "fill", "import", "export"}
  /\ jobs \in 0..MaxJobs /\ edits \in 0..MaxEdits /\ stops \in 0..MaxStops
  /\ mine \in [VaultKey -> Text \cup {NoFile}]
  /\ removed \subseteq VaultKey

(* The schema that another layout last replaced, or was about to, people's changes to it included, is in  *)
(* .vault/schema.previous.yml: also when the switch was stopped half way and done again.                  *)
SchemaSaved == ~past.crossed /\ past.replaced # NoFile => held[PreviousKey] = past.replaced

(* When no layout is being written, none ended half way that was not written again to its end, and no two *)
(* different ones ran into each other, the layout the vault was given has all of its files, but for those *)
(* that people removed: the removal of the old layout's views takes none of the new one's.                *)
LayoutWhole ==
  (\A h \in Hand : work[h].kind # "fill") /\ ~past.crossed /\ ~past.cut /\ past.laid # NoFile
    => \A k \in Range(ViewsOf[past.laid]) \ removed : held[k] # NoFile

(* What people write is theirs: a layout that is not forced, and the removal of views, take nothing of    *)
(* it that was there when the view was compared; only a forced layout's own files and an import do.       *)
OwnKept == \A k \in VaultKey : mine[k] # NoFile => held[k] = mine[k]

(* A zip that is sent has every text that was in the vault from its listing on, under the key it was      *)
(* listed with, and also one that was moved meanwhile: that export fails instead.                         *)
ExportWhole ==
  \A h \in Hand : work[h].kind = "export" /\ work[h].step = "zipped" => \A e \in work[h].stay : e[2] \in work[h].got

(* Nothing of a vault is lost that its owner was not asked about.                                         *)
LayoutsInv == LayoutsTypeOK /\ SchemaSaved /\ LayoutWhole /\ OwnKept /\ ExportWhole
=============================================================================
