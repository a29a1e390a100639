----------------------------- MODULE VaultIndex -----------------------------
(***************************************************************************)
(* The search index of one vault on a vault server (index.py) and the Vault*)
(* around it (vault.py): tool calls bring it up to date and then act,      *)
(* WebDAV requests and web pages write the storage and tell the vault,     *)
(* other servers write the storage and tell nobody.                        *)
(*                                                                         *)
(* An object is a text and a stamp, and comparing two versions is comparing*)
(* two objects.  Sealed storage gives every write a version of its own, so *)
(* its stamps are the numbers of the writes; the version of a folder and   *)
(* of a bucket is a digest of the text, so there all stamps are equal.  Of *)
(* the many tool calls only the sync each begins with and the index row    *)
(* each leaves are kept; what they do to notes is NoteStore's.             *)
(***************************************************************************)
EXTENDS Naturals, FiniteSets

CONSTANTS
  Tool,         \* threads that run tool calls
  Web,          \* threads that run WebDAV requests and pages
  Note,         \* paths of notes
  Schema,       \* .vault/schema.yml
  Body,         \* texts
  Initial,      \* the text everything holds at first, and a missing schema is read as
  Language,
  LanguageOf,   \* the languages a schema text asks for
  Digests,      \* whether a version is a digest of the text
  Pages,        \* whether the layout page is used
  NoteTexts,    \* what notes are edited to, Absent where they are deleted
  SchemaTexts,  \* what the schema is edited to
  MaxWrites,    \* bound: writes begun
  MaxFailures,  \* bound: storage requests that fail
  MaxRestarts,  \* bound: restarts of the server
  Absent, Unknown

Path == Note \cup {Schema}
Texts(p) == IF p = Schema THEN SchemaTexts ELSE NoteTexts
Object == [text : Body, stamp : Nat]
Stored == Object \cup {Absent}
Row == [text : Object, version : Object, lang : Language]

PC == {"idle", "sync", "list", "compare", "apply", "schema", "load", "adopt", "settle",
       "act", "reindex", "mark"}

Job == [pc : PC, at : Path \cup {Absent},      \* the path written, Absent for a search
        new : Stored,                          \* what is written there
        force : BOOLEAN, listing : [Path -> Stored],
        gone : SUBSET Note, fetch : SUBSET Note, got : [Note -> Stored],
        lang : Language, old : BOOLEAN,        \* the Index object in use, and whether it was closed
        seen : Stored \cup {Unknown}, schema : Stored, rebuilds : BOOLEAN,
        owes : SUBSET Path]                    \* WebDAV writes answered before this call began

ASSUME VaultIndexAssumption ==
  /\ Tool \cap Web = {} /\ Schema \notin Note /\ Absent \notin Path
  /\ Initial \in Body /\ LanguageOf \in [Body -> Language]
  /\ Digests \in BOOLEAN /\ Pages \in BOOLEAN
  /\ NoteTexts \subseteq Body \cup {Absent} /\ SchemaTexts \subseteq Body \cup {Absent}
  /\ MaxWrites \in Nat /\ MaxFailures \in Nat /\ MaxRestarts \in Nat
  /\ Absent \notin Object \cup Row /\ Unknown \notin Stored

VARIABLES
  store,         \* what is stored under each path
  row,           \* the row of each note in the index
  recent,        \* last_sync is less than SYNC_THROTTLE_SECONDS ago
  index,         \* the open Index: its languages and its schema_version
  stale,         \* Vault._stale
  schema,        \* Vault.schema
  schemaVersion, \* Vault.schema_version
  job,           \* what each thread runs
  due,           \* notes that stand as an answered WebDAV write left them
  writes, failures, restarts,
  listed         \* whether a call on its own has listed the storage since the server started
                 \* and since calls last overlapped

vars == <<store, row, recent, index, stale, schema, schemaVersion, job, due,
          writes, failures, restarts, listed>>

Nothing == [p \in Path |-> Absent]
Resting == [pc |-> "idle", at |-> Absent, new |-> Absent, force |-> FALSE, listing |-> Nothing,
            gone |-> {}, fetch |-> {}, got |-> [p \in Note |-> Absent],
            lang |-> LanguageOf[Initial], old |-> FALSE, seen |-> Unknown,
            schema |-> Absent, rebuilds |-> FALSE, owes |-> {}]

TypeOK ==
  /\ store \in [Path -> Stored]
  /\ row \in [Note -> Row \cup {Absent}]
  /\ index \in [lang : Language, seen : Stored \cup {Unknown}]
  /\ recent \in BOOLEAN /\ stale \in BOOLEAN
  /\ schema \in Stored /\ schemaVersion \in Stored \cup {Unknown}
  /\ job \in [Tool \cup Web -> Job]
  /\ due \subseteq Path
  /\ writes \in Nat /\ failures \in Nat /\ restarts \in Nat /\ listed \in BOOLEAN

(* The preset's languages where the vault has no schema. *)
Languages(o) == LanguageOf[IF o = Absent THEN Initial ELSE o.text]

Init ==
  /\ store = [p \in Path |-> [text |-> Initial, stamp |-> 0]]
  /\ row = [p \in Note |-> Absent]
  /\ recent = FALSE
  /\ index = [lang |-> Languages(store[Schema]), seen |-> Unknown]
  /\ stale = FALSE
  /\ schema = store[Schema]
  /\ schemaVersion = Unknown
  /\ job = [t \in Tool \cup Web |-> Resting]
  /\ due = {}
  /\ writes = 0 /\ failures = 0 /\ restarts = 0 /\ listed = FALSE

-----------------------------------------------------------------------------
Goes(t, j) == job' = [job EXCEPT ![t] = j]
Returns(t) == Goes(t, Resting)

Stamp == IF Digests THEN 0 ELSE writes + 1

\* Mutant: deleting leaves an object without a text.
WrittenEmpty(b) == [text |-> b, stamp |-> Stamp]

Written(b) == IF b = Absent THEN Absent ELSE [text |-> b, stamp |-> Stamp]

(* A path is written, by t or by another server: what was owed of it is no *)
(* longer there to be shown.                                               *)
Stores(p, o) == store' = [store EXCEPT ![p] = o] /\ due' = due \ {p}
Forgotten(p, j) == [t \in DOMAIN j |-> [j[t] EXCEPT !.owes = @ \ {p}]]

(* No other thread runs a call or a page. *)
OnItsOwn(t) == \A u \in (Tool \cup Web) \ {t} : job[u].pc \in {"idle", "mark"}

(* A tool call arrives: a search, or a write or delete of a note. *)
Search(t) ==
  /\ job[t].pc = "idle"
  /\ Goes(t, [Resting EXCEPT !.pc = "sync", !.owes = due])
  /\ listed' = (listed /\ OnItsOwn(t))
  /\ UNCHANGED <<store, row, recent, index, stale, schema, schemaVersion, due,
                 writes, failures, restarts>>

Edit(t) ==
  /\ job[t].pc = "idle" /\ writes < MaxWrites
  /\ \E p \in Note, b \in NoteTexts :
       Goes(t, [Resting EXCEPT !.pc = "sync", !.owes = due, !.at = p, !.new = Written(b)])
  /\ writes' = writes + 1
  /\ listed' = (listed /\ OnItsOwn(t))
  /\ UNCHANGED <<store, row, recent, index, stale, schema, schemaVersion, due,
                 failures, restarts>>

(* Index.sync is over, and nothing it read is used again. *)
Synced(t, pc) == [job[t] EXCEPT !.pc = pc, !.force = FALSE, !.listing = Nothing,
                                !.lang = Resting.lang, !.old = FALSE]

(* Vault.sync takes the flag, and Index.sync sees how old last_sync is. *)
Sync(t) ==
  /\ job[t].pc = "sync"
  /\ Goes(t, [job[t] EXCEPT !.pc = "list", !.force = stale, !.lang = index.lang])
  /\ stale' = FALSE
  /\ UNCHANGED <<store, row, recent, index, schema, schemaVersion, due,
                 writes, failures, restarts, listed>>

Throttled(t) ==
  /\ job[t].pc = "list" /\ ~job[t].force /\ recent
  /\ Goes(t, Synced(t, "schema"))
  /\ UNCHANGED <<store, row, recent, index, stale, schema, schemaVersion, due,
                 writes, failures, restarts, listed>>

ListAll(t) ==
  /\ job[t].pc = "list" /\ (job[t].force \/ ~recent)
  /\ Goes(t, [job[t] EXCEPT !.pc = "compare", !.listing = store])
  /\ listed' = (listed \/ OnItsOwn(t))
  /\ UNCHANGED <<store, row, recent, index, stale, schema, schemaVersion, due,
                 writes, failures, restarts>>

(* backend.list raises: the call ends, and what it took of the flag is gone. *)
ListFails(t) ==
  /\ job[t].pc = "list" /\ (job[t].force \/ ~recent)
  /\ failures < MaxFailures
  /\ failures' = failures + 1
  /\ Returns(t)
  /\ UNCHANGED <<store, row, recent, index, stale, schema, schemaVersion, due,
                 writes, restarts, listed>>

\* Mutant: a note is fetched only while the index has no row of it.
ComparePresence(t) ==
  /\ job[t].pc = "compare"
  /\ LET list == job[t].listing IN
       Goes(t, [job[t] EXCEPT !.pc = "apply",
          !.gone = {p \in Note : row[p] # Absent /\ list[p] = Absent},
          !.fetch = {p \in Note : list[p] # Absent /\ row[p] = Absent}])
  /\ index' = IF job[t].old THEN index ELSE [index EXCEPT !.seen = job[t].listing[Schema]]
  /\ UNCHANGED <<store, row, recent, stale, schema, schemaVersion, due,
                 writes, failures, restarts, listed>>

(* What the listing no longer has, and what it has in another version. *)
Compare(t) ==
  /\ job[t].pc = "compare"
  /\ LET list == job[t].listing
         known(p) == IF row[p] = Absent THEN Absent ELSE row[p].version
     IN Goes(t, [job[t] EXCEPT !.pc = "apply",
          !.gone = {p \in Note : row[p] # Absent /\ list[p] = Absent},
          !.fetch = {p \in Note : list[p] # Absent /\ known(p) # list[p]}])
  /\ index' = IF job[t].old THEN index ELSE [index EXCEPT !.seen = job[t].listing[Schema]]
  /\ UNCHANGED <<store, row, recent, stale, schema, schemaVersion, due,
                 writes, failures, restarts, listed>>

(* The rows of what is gone go first, then every changed note is fetched,  *)
(* then the rows are written, with the version that was listed.            *)
DropRow(t) ==
  /\ job[t].pc = "apply"
  /\ \E p \in job[t].gone :
       /\ row' = [row EXCEPT ![p] = Absent]
       /\ Goes(t, [job[t] EXCEPT !.gone = @ \ {p}])
  /\ UNCHANGED <<store, recent, index, stale, schema, schemaVersion, due,
                 writes, failures, restarts, listed>>

Fetch(t) ==
  /\ job[t].pc = "apply" /\ job[t].gone = {}
  /\ \E p \in job[t].fetch :
       Goes(t, [job[t] EXCEPT !.fetch = @ \ {p}, !.got[p] = store[p]])
  /\ UNCHANGED <<store, row, recent, index, stale, schema, schemaVersion, due,
                 writes, failures, restarts, listed>>

(* _safe_get swallows the error: the note keeps the row it has. *)
FetchFails(t) ==
  /\ job[t].pc = "apply" /\ job[t].gone = {}
  /\ failures < MaxFailures
  /\ \E p \in job[t].fetch : Goes(t, [job[t] EXCEPT !.fetch = @ \ {p}])
  /\ failures' = failures + 1
  /\ UNCHANGED <<store, row, recent, index, stale, schema, schemaVersion, due,
                 writes, restarts, listed>>

Got(t) == {p \in Note : job[t].got[p] # Absent}

\* Mutant: the row is given the version the note has by now.
UpsertLatest(t) ==
  /\ job[t].pc = "apply" /\ job[t].gone = {} /\ job[t].fetch = {}
  /\ \E p \in Got(t) :
       /\ row' = [row EXCEPT ![p] = [text |-> job[t].got[p], lang |-> job[t].lang,
            version |-> IF store[p] = Absent THEN job[t].listing[p] ELSE store[p]]]
       /\ Goes(t, [job[t] EXCEPT !.got[p] = Absent])
  /\ UNCHANGED <<store, recent, index, stale, schema, schemaVersion, due,
                 writes, failures, restarts, listed>>

Upsert(t) ==
  /\ job[t].pc = "apply" /\ job[t].gone = {} /\ job[t].fetch = {}
  /\ \E p \in Got(t) :
       /\ row' = [row EXCEPT ![p] = [text |-> job[t].got[p], lang |-> job[t].lang,
                                     version |-> job[t].listing[p]]]
       /\ Goes(t, [job[t] EXCEPT !.got[p] = Absent])
  /\ UNCHANGED <<store, recent, index, stale, schema, schemaVersion, due,
                 writes, failures, restarts, listed>>

Finish(t) ==
  /\ job[t].pc = "apply" /\ job[t].gone = {} /\ job[t].fetch = {} /\ Got(t) = {}
  /\ recent' = TRUE
  /\ Goes(t, Synced(t, IF job[t].rebuilds THEN "settle" ELSE "schema"))
  /\ UNCHANGED <<store, row, index, stale, schema, schemaVersion, due,
                 writes, failures, restarts, listed>>

(* An Index that another thread closed: a query on a connection that was   *)
(* closed under it raises; the next query opens a new one.                 *)
Breaks(t) ==
  /\ job[t].pc \in {"compare", "apply"} /\ job[t].old
  /\ Returns(t)
  /\ UNCHANGED <<store, row, recent, index, stale, schema, schemaVersion, due,
                 writes, failures, restarts, listed>>

-----------------------------------------------------------------------------
(* Vault.sync, once the index is in step: was the schema listed in another *)
(* version than the one loaded?                                            *)
CheckSchema(t) ==
  /\ job[t].pc = "schema"
  /\ IF index.seen \in {Unknown, schemaVersion}
     THEN Goes(t, [job[t] EXCEPT !.pc = "act"])
     ELSE Goes(t, [job[t] EXCEPT !.pc = "load", !.seen = index.seen])
  /\ UNCHANGED <<store, row, recent, index, stale, schema, schemaVersion, due,
                 writes, failures, restarts, listed>>

Load(t) ==
  /\ job[t].pc = "load"
  /\ Goes(t, [job[t] EXCEPT !.schema = store[Schema], !.pc = "adopt"])
  /\ UNCHANGED <<store, row, recent, index, stale, schema, schemaVersion, due,
                 writes, failures, restarts, listed>>

Syncing(t) == job[t].pc \in {"list", "compare", "apply"}

\* Mutant: the index stays open with the languages it has.
AdoptQuietly(t) ==
  /\ job[t].pc = "adopt"
  /\ schema' = job[t].schema
  /\ Goes(t, [job[t] EXCEPT !.pc = "settle"])
  /\ UNCHANGED <<store, row, recent, index, stale, schemaVersion, due,
                 writes, failures, restarts, listed>>

(* reload_schema: in other languages the Index is closed under whoever uses *)
(* it, a new one forgets every row, and a forced sync fills it.            *)
Adopt(t) ==
  /\ job[t].pc = "adopt"
  /\ schema' = job[t].schema
  /\ LET lang == Languages(job[t].schema) IN
       IF lang = Languages(schema)
       THEN Goes(t, [job[t] EXCEPT !.pc = "settle", !.schema = Absent])
            /\ UNCHANGED <<row, recent, index>>
       ELSE /\ index' = [lang |-> lang, seen |-> Unknown]
            /\ row' = [p \in Note |-> Absent]
            /\ recent' = FALSE
            /\ job' = [u \in Tool \cup Web |->
                 IF u = t THEN [job[t] EXCEPT !.pc = "list", !.force = TRUE, !.rebuilds = TRUE,
                                              !.lang = lang, !.schema = Absent]
                 ELSE [job[u] EXCEPT !.old = @ \/ Syncing(u)]]
  /\ UNCHANGED <<store, stale, schemaVersion, due, writes, failures, restarts, listed>>

(* A tool call notes the version it saw listed; a page is done. *)
Settle(t) ==
  /\ job[t].pc = "settle"
  /\ IF t \in Tool
     THEN /\ schemaVersion' = job[t].seen
          /\ Goes(t, [job[t] EXCEPT !.pc = "act", !.seen = Unknown, !.rebuilds = FALSE])
     ELSE UNCHANGED schemaVersion /\ Returns(t)
  /\ UNCHANGED <<store, row, recent, index, stale, schema, due, writes, failures, restarts, listed>>

-----------------------------------------------------------------------------
(* The call itself: a search answers from the rows, a write stores. *)
Answer(t) ==
  /\ job[t].pc = "act" /\ job[t].at = Absent
  /\ Returns(t)
  /\ UNCHANGED <<store, row, recent, index, stale, schema, schemaVersion, due,
                 writes, failures, restarts, listed>>

Store(t) ==
  /\ job[t].pc = "act" /\ job[t].at # Absent
  /\ Stores(job[t].at, job[t].new)
  /\ job' = Forgotten(job[t].at, [job EXCEPT ![t].pc = "reindex"])
  /\ UNCHANGED <<row, recent, index, stale, schema, schemaVersion, writes, failures, restarts, listed>>

Reindex(t) ==
  /\ job[t].pc = "reindex"
  /\ row' = [row EXCEPT ![job[t].at] =
       IF job[t].new = Absent THEN Absent
       ELSE [text |-> job[t].new, version |-> job[t].new, lang |-> index.lang]]
  /\ Returns(t)
  /\ UNCHANGED <<store, recent, index, stale, schema, schemaVersion, due,
                 writes, failures, restarts, listed>>

(* A WebDAV PUT or DELETE, and then SubjectVaults.wrote. *)
Upload(t) ==
  /\ job[t].pc = "idle" /\ writes < MaxWrites
  /\ \E p \in Path : \E b \in Texts(p) :
       /\ Stores(p, Written(b))
       /\ job' = Forgotten(p, [job EXCEPT ![t] =
            [Resting EXCEPT !.pc = "mark", !.at = p, !.new = Written(b)]])
  /\ writes' = writes + 1
  /\ UNCHANGED <<row, recent, index, stale, schema, schemaVersion, failures, restarts, listed>>

\* Mutant: a WebDAV write does not tell the vault.
MarkNothing(t) ==
  /\ job[t].pc = "mark"
  /\ due' = IF store[job[t].at] = job[t].new THEN due \cup {job[t].at} ELSE due
  /\ Returns(t)
  /\ UNCHANGED <<store, row, recent, index, stale, schema, schemaVersion,
                 writes, failures, restarts, listed>>

Mark(t) ==
  /\ job[t].pc = "mark"
  /\ stale' = TRUE
  /\ due' = IF store[job[t].at] = job[t].new THEN due \cup {job[t].at} ELSE due
  /\ Returns(t)
  /\ UNCHANGED <<store, row, recent, index, schema, schemaVersion, writes, failures, restarts, listed>>

(* The layout page puts a schema and reloads it, with no sync. *)
SwitchLayout(t) ==
  /\ Pages /\ job[t].pc = "idle" /\ writes < MaxWrites
  /\ \E b \in SchemaTexts \ {Absent} :
       /\ Stores(Schema, Written(b))
       /\ job' = Forgotten(Schema, [job EXCEPT ![t] = [Resting EXCEPT !.pc = "load"]])
  /\ writes' = writes + 1
  /\ listed' = (listed /\ OnItsOwn(t))
  /\ UNCHANGED <<row, recent, index, stale, schema, schemaVersion, failures, restarts>>

(* Another server, or the owner's own tools, write the same storage. *)
Elsewhere ==
  /\ writes < MaxWrites
  /\ \E p \in Path : \E b \in Texts(p) :
       Stores(p, Written(b)) /\ job' = Forgotten(p, job)
  /\ writes' = writes + 1
  /\ UNCHANGED <<row, recent, index, stale, schema, schemaVersion, failures, restarts, listed>>

(* SYNC_THROTTLE_SECONDS pass. *)
Tick ==
  /\ recent /\ recent' = FALSE
  /\ UNCHANGED <<store, row, index, stale, schema, schemaVersion, job, due,
                 writes, failures, restarts, listed>>

(* The server is killed and started again on the same index file, whose    *)
(* rows it drops when they were stemmed in other languages.                *)
Restart ==
  /\ restarts < MaxRestarts
  /\ restarts' = restarts + 1
  /\ job' = [t \in Tool \cup Web |-> Resting]
  /\ stale' = FALSE /\ listed' = FALSE
  /\ schema' = store[Schema] /\ schemaVersion' = Unknown
  /\ index' = [lang |-> Languages(store[Schema]), seen |-> Unknown]
  /\ IF index.lang = Languages(store[Schema])
     THEN UNCHANGED <<row, recent>>
     ELSE row' = [p \in Note |-> Absent] /\ recent' = FALSE
  /\ UNCHANGED <<store, due, writes, failures>>

Continue(t) ==
  \/ Sync(t) \/ Throttled(t) \/ ListAll(t) \/ ListFails(t) \/ Compare(t)
  \/ DropRow(t) \/ Fetch(t) \/ FetchFails(t) \/ Upsert(t) \/ Finish(t) \/ Breaks(t)
  \/ CheckSchema(t) \/ Load(t) \/ Adopt(t) \/ Settle(t)
  \/ Answer(t) \/ Store(t) \/ Reindex(t) \/ Mark(t)

Next ==
  \/ \E t \in Tool : Search(t) \/ Edit(t)
  \/ \E t \in Web : Upload(t) \/ SwitchLayout(t)
  \/ \E t \in Tool \cup Web : Continue(t)
  \/ Elsewhere \/ Tick \/ Restart

Spec == Init /\ [][Next]_vars

(* A thread that runs a call keeps running it, time passes, and there is   *)
(* always somebody who searches again.                                     *)
FairSpec ==
  /\ Spec
  /\ \A t \in Tool \cup Web : WF_vars(Continue(t))
  /\ \A t \in Tool : WF_vars(Search(t))
  /\ WF_vars(Tick)

-----------------------------------------------------------------------------
(* Where every write has a version of its own, a row that has the version  *)
(* of the stored note has its text: whatever was listed, fetched and       *)
(* written in between, a sync never takes for known what it has not read   *)
(* (Index._fetch, Index.sync).                                             *)
RowTrue == \A p \in Note :
  row[p] # Absent /\ row[p].version = store[p] => row[p].text = store[p]

Shows(t) == \A p \in job[t].owes \cap Note :
  IF store[p] = Absent THEN row[p] = Absent
  ELSE row[p] # Absent /\ row[p].text = store[p]

(* A tool call begun after a WebDAV write was answered finds what it wrote, *)
(* unless a storage request failed (mark_stale, Vault.sync).               *)
ShownAtOnce == failures = 0 => \A t \in Tool : job[t].pc = "act" => Shows(t)

(* That much holds while calls come one after another, and from the first  *)
(* listing on: a call that overlaps another may find the flag taken and    *)
(* the rows not yet written, and the flag is lost with the server, whose   *)
(* index file keeps last_sync.  A call that then lists on its own sets     *)
(* both right for those that follow.                                       *)
ShownInTurn == failures = 0 /\ listed => \A t \in Tool : job[t].pc = "act" => Shows(t)

(* Once nobody writes any more the index comes to hold every note as it is *)
(* stored and no other, however syncs overlapped, failed or were cut off.  *)
RowsFollow == <>[](\A p \in Note :
  IF store[p] = Absent THEN row[p] = Absent
  ELSE row[p] # Absent /\ row[p].text = store[p])

(* And the vault runs on the schema that is stored (Vault.sync).           *)
SchemaFollows == <>[](schema = store[Schema])

(* And every row is stemmed in the languages of the schema in use          *)
(* (reload_schema, Index.rebuild).                                         *)
RowsRestemmed == <>[](\A p \in Note : row[p] # Absent => row[p].lang = Languages(schema))

=============================================================================
