-------------------------- MODULE VaultIndexProofs --------------------------
(***************************************************************************)
(* Theorems about VaultIndex: its types; that a row with the version of    *)
(* the stored note has its text, however syncs overlap; and that a call    *)
(* finds the writes that were answered before it began.                    *)
(***************************************************************************)
EXTENDS VaultIndex, TLAPS

Thread == Tool \cup Web

(* A sync holds notes only while it applies them, and every note it holds  *)
(* or is about to fetch was listed; a call that writes is past its sync    *)
(* when it writes a note.                                                  *)
Shape(j) ==
  /\ j.pc # "apply" => j.fetch = {} /\ \A p \in Note : j.got[p] = Absent
  /\ \A p \in Note : p \in j.fetch \/ j.got[p] # Absent => j.listing[p] # Absent
  /\ j.pc = "reindex" => j.at \in Note
  /\ j.pc = "mark" => j.at \in Path
  /\ j.at # Absent /\ j.pc # "mark" => j.at \in Note

Shaped == \A t \in Thread : Shape(job[t])

TypeInv == TypeOK /\ Shaped

(* No object is newer than the writes begun. *)
Old(o) == o # Absent => o.stamp <= writes

Counted ==
  /\ \A p \in Path : Old(store[p])
  /\ \A p \in Note : row[p] # Absent => Old(row[p].version)
  /\ \A t \in Thread : Old(job[t].new) /\ \A p \in Path : Old(job[t].listing[p])

(* What a call has yet to store is nowhere yet. *)
Pending(j) == j.at # Absent /\ j.pc \notin {"reindex", "mark"} /\ j.new # Absent

Unseen == \A t \in Thread : Pending(job[t]) =>
  /\ \A p \in Path : store[p] # job[t].new
  /\ \A p \in Note : row[p] # Absent => row[p].version # job[t].new
  /\ \A u \in Thread : \A p \in Path : job[u].listing[p] # job[t].new
  /\ \A u \in Thread : u # t => job[u].new # job[t].new

(* A note fetched in the version that was listed is the note. *)
FetchedTrue == \A t \in Thread : \A p \in Note :
  job[t].got[p] # Absent /\ job[t].listing[p] = store[p] => job[t].got[p] = store[p]

Held == Counted /\ Unseen /\ FetchedTrue /\ RowTrue

IInv == TypeInv /\ Held

USE VaultIndexAssumption

-----------------------------------------------------------------------------
(* Types. *)

LEMMA LanguagesType ==
  ASSUME NEW o \in Stored
  PROVE  Languages(o) \in Language
BY DEF Languages, Stored, Object, VaultIndexAssumption

LEMMA RestingType == Resting \in Job /\ Shape(Resting)
<1>1. Nothing \in [Path -> Stored] /\ [p \in Note |-> Absent] \in [Note -> Stored]
  BY DEF Nothing, Stored
<1>2. LanguageOf[Initial] \in Language
  BY DEF VaultIndexAssumption
<1>3. Resting \in Job
  BY <1>1, <1>2 DEF Resting, Job, PC, Stored
<1>4. QED
  BY <1>3 DEF Resting, Shape

LEMMA WrittenType ==
  ASSUME TypeOK, NEW b \in Body \cup {Absent}
  PROVE  Written(b) \in Stored
BY DEF TypeOK, Written, Stamp, Stored, Object, VaultIndexAssumption

LEMMA TextTypes == NoteTexts \subseteq Body \cup {Absent}
                   /\ \A p \in Path : Texts(p) \subseteq Body \cup {Absent}
BY DEF Texts, VaultIndexAssumption

LEMMA GoesType ==
  ASSUME TypeInv, NEW t \in Thread, NEW j \in Job, Shape(j), Goes(t, j)
  PROVE  job' \in [Thread -> Job] /\ Shaped'
BY DEF TypeInv, TypeOK, Shaped, Shape, Goes, Thread

LEMMA ForgottenType ==
  ASSUME NEW f \in [Thread -> Job], NEW p, \A u \in Thread : Shape(f[u])
  PROVE  /\ Forgotten(p, f) \in [Thread -> Job]
         /\ \A u \in Thread : Shape(Forgotten(p, f)[u])
<1>1. SUFFICES ASSUME NEW u \in Thread
               PROVE  /\ [f[u] EXCEPT !.owes = @ \ {p}] \in Job
                      /\ Shape([f[u] EXCEPT !.owes = @ \ {p}])
  BY DEF Forgotten
<1>2. f[u] \in Job /\ Shape(f[u])
  OBVIOUS
<1>3. QED
  BY <1>2 DEF Job, Shape

LEMMA AtWork ==
  ASSUME TypeInv, NEW t \in Thread
  PROVE  job[t] \in Job /\ Shape(job[t])
BY DEF TypeInv, TypeOK, Shaped, Thread

LEMMA SyncedType ==
  ASSUME TypeInv, NEW t \in Thread, NEW pc \in {"schema", "settle"},
         job[t].pc \in {"list", "apply"}, \A p \in Note : job[t].got[p] = Absent, job[t].fetch = {}
  PROVE  Synced(t, pc) \in Job /\ Shape(Synced(t, pc))
<1>1. job[t] \in Job /\ Shape(job[t])
  BY AtWork
<1>2. Nothing \in [Path -> Stored] /\ Resting.lang \in Language
  BY RestingType DEF Nothing, Stored, Job
<1>3. Synced(t, pc) \in Job
  BY <1>1, <1>2 DEF Synced, Job, PC
<1>4. QED
  BY <1>1, <1>3 DEF Synced, Shape, Job, PC

LEMMA TypeInit == Init => TypeInv
<1> SUFFICES ASSUME Init PROVE TypeInv
  OBVIOUS
<1>1. store \in [Path -> Stored] /\ store[Schema] \in Stored
  BY DEF Init, Stored, Object, Path, VaultIndexAssumption
<1>2. Languages(store[Schema]) \in Language
  BY <1>1, LanguagesType
<1>3. TypeOK
  <2>1. job \in [Tool \cup Web -> Job] /\ row \in [Note -> Row \cup {Absent}]
    BY RestingType DEF Init
  <2>2. index \in [lang : Language, seen : Stored \cup {Unknown}]
    BY <1>2 DEF Init
  <2>3. recent \in BOOLEAN /\ stale \in BOOLEAN /\ writes \in Nat /\ failures \in Nat /\ restarts \in Nat /\ listed \in BOOLEAN
    BY DEF Init
  <2>4. QED
    BY <1>1, <2>1, <2>2, <2>3 DEF Init, TypeOK
<1>4. Shaped
  BY RestingType DEF Init, Shaped, Thread
<1>5. QED
  BY <1>3, <1>4 DEF TypeInv

(* One action at a time, with the type of the handler it leaves. *)

LEMMA SyncTypes ==
  ASSUME TypeInv, NEW t \in Thread,
         Search(t) \/ Edit(t) \/ Sync(t) \/ Throttled(t) \/ ListAll(t) \/ ListFails(t) \/ Compare(t)
  PROVE  TypeInv'
<1>a. job[t] \in Job /\ Shape(job[t]) /\ Resting \in Job /\ Shape(Resting)
  BY AtWork, RestingType
<1>1. CASE Search(t)
  <2> DEFINE j == [Resting EXCEPT !.pc = "sync", !.owes = due]
  <2>1. j \in Job /\ Shape(j)
    BY <1>a DEF Resting, Job, PC, Shape, TypeInv, TypeOK
  <2>2. job' \in [Thread -> Job] /\ Shaped'
    <3> HIDE DEF j
    <3> QED BY <1>1, <2>1, GoesType DEF Search, j
  <2>3. QED
    BY <1>1, <2>2 DEF Search, TypeInv, TypeOK, Thread
<1>2. CASE Edit(t)
  <2>1. PICK p \in Note, b \in NoteTexts :
          Goes(t, [Resting EXCEPT !.pc = "sync", !.owes = due, !.at = p, !.new = Written(b)])
    BY <1>2 DEF Edit
  <2> DEFINE j == [Resting EXCEPT !.pc = "sync", !.owes = due, !.at = p, !.new = Written(b)]
  <2>2. Written(b) \in Stored
    BY WrittenType, TextTypes DEF TypeInv
  <2>3. j \in Job /\ Shape(j)
    BY <1>a, <2>2 DEF Resting, Job, PC, Shape, TypeInv, TypeOK, Path, VaultIndexAssumption
  <2>4. job' \in [Thread -> Job] /\ Shaped'
    <3> HIDE DEF j
    <3> QED BY <2>1, <2>3, GoesType DEF j
  <2>5. writes' = writes + 1 /\ UNCHANGED <<failures, restarts>> /\ listed' = (listed /\ OnItsOwn(t))
    BY <1>2 DEF Edit
  <2>6. writes' \in Nat /\ failures' \in Nat /\ restarts' \in Nat /\ listed' \in BOOLEAN
    BY <2>5 DEF TypeInv, TypeOK
  <2>7. UNCHANGED <<store, row, recent, index, stale, schema, schemaVersion, due>>
    BY <1>2 DEF Edit
  <2>8. QED
    BY <2>4, <2>6, <2>7 DEF TypeInv, TypeOK, Thread
<1>3. CASE Sync(t)
  <2> DEFINE j == [job[t] EXCEPT !.pc = "list", !.force = stale, !.lang = index.lang]
  <2>1. j \in Job /\ Shape(j)
    BY <1>a, <1>3 DEF Sync, Job, PC, Shape, TypeInv, TypeOK
  <2>2. job' \in [Thread -> Job] /\ Shaped'
    <3> HIDE DEF j
    <3> QED BY <1>3, <2>1, GoesType DEF Sync, j
  <2>3. QED
    BY <1>3, <2>2 DEF Sync, TypeInv, TypeOK, Thread
<1>4. CASE Throttled(t)
  <2>1. Synced(t, "schema") \in Job /\ Shape(Synced(t, "schema"))
    BY <1>a, <1>4, SyncedType DEF Throttled, Shape
  <2>2. job' \in [Thread -> Job] /\ Shaped'
    BY <1>4, <2>1, GoesType DEF Throttled
  <2>3. QED
    BY <1>4, <2>2 DEF Throttled, TypeInv, TypeOK, Thread
<1>5. CASE ListAll(t)
  <2> DEFINE j == [job[t] EXCEPT !.pc = "compare", !.listing = store]
  <2>1. j \in Job /\ Shape(j)
    BY <1>a, <1>5 DEF ListAll, Job, PC, Shape, TypeInv, TypeOK
  <2>2. job' \in [Thread -> Job] /\ Shaped'
    <3> HIDE DEF j
    <3> QED BY <1>5, <2>1, GoesType DEF ListAll, j
  <2>3. QED
    BY <1>5, <2>2 DEF ListAll, TypeInv, TypeOK, Thread
<1>6. CASE ListFails(t)
  <2>1. job' \in [Thread -> Job] /\ Shaped'
    BY <1>a, <1>6, GoesType DEF ListFails, Returns
  <2>2. QED
    BY <1>6, <2>1 DEF ListFails, TypeInv, TypeOK, Thread
<1>7. CASE Compare(t)
  <2> DEFINE j == job'[t]
  <2>1. PICK gone \in SUBSET Note, fetch \in SUBSET Note :
          /\ \A p \in fetch : job[t].listing[p] # Absent
          /\ Goes(t, [job[t] EXCEPT !.pc = "apply", !.gone = gone, !.fetch = fetch])
    BY <1>7 DEF Compare
  <2>2. [job[t] EXCEPT !.pc = "apply", !.gone = gone, !.fetch = fetch] \in Job
    BY <1>a DEF Job, PC
  <2>3. Shape([job[t] EXCEPT !.pc = "apply", !.gone = gone, !.fetch = fetch])
    BY <1>a, <1>7, <2>1 DEF Job, PC, Shape, Compare
  <2>4. job' \in [Thread -> Job] /\ Shaped'
    BY <2>1, <2>2, <2>3, GoesType
  <2>5. job[t].listing[Schema] \in Stored
    BY <1>a DEF Job, Path
  <2>6. index' \in [lang : Language, seen : Stored \cup {Unknown}]
    BY <1>7, <2>5 DEF Compare, TypeInv, TypeOK
  <2>7. QED
    BY <1>7, <2>4, <2>6 DEF Compare, TypeInv, TypeOK, Thread
<1>8. QED
  BY <1>1, <1>2, <1>3, <1>4, <1>5, <1>6, <1>7

LEMMA ApplyTypes ==
  ASSUME TypeInv, NEW t \in Thread,
         DropRow(t) \/ Fetch(t) \/ FetchFails(t) \/ Upsert(t) \/ Finish(t) \/ Breaks(t)
  PROVE  TypeInv'
<1>a. job[t] \in Job /\ Shape(job[t]) /\ Resting \in Job /\ Shape(Resting)
  BY AtWork, RestingType
<1>1. CASE DropRow(t)
  <2>1. PICK p \in job[t].gone : /\ row' = [row EXCEPT ![p] = Absent]
                                 /\ Goes(t, [job[t] EXCEPT !.gone = @ \ {p}])
    BY <1>1 DEF DropRow
  <2>2. [job[t] EXCEPT !.gone = @ \ {p}] \in Job /\ Shape([job[t] EXCEPT !.gone = @ \ {p}])
    BY <1>a, <1>1 DEF Job, Shape, DropRow
  <2>3. job' \in [Thread -> Job] /\ Shaped'
    BY <2>1, <2>2, GoesType
  <2>4. row' \in [Note -> Row \cup {Absent}]
    BY <2>1 DEF TypeInv, TypeOK
  <2>5. QED
    BY <1>1, <2>3, <2>4 DEF DropRow, TypeInv, TypeOK, Thread
<1>2. CASE Fetch(t)
  <2>1. PICK p \in job[t].fetch : Goes(t, [job[t] EXCEPT !.fetch = @ \ {p}, !.got[p] = store[p]])
    BY <1>2 DEF Fetch
  <2> DEFINE j == [job[t] EXCEPT !.fetch = @ \ {p}, !.got[p] = store[p]]
  <2>2. p \in Note /\ p \in Path
    BY <1>a DEF Job, Path
  <2>3. store[p] \in Stored
    BY <2>2 DEF TypeInv, TypeOK
  <2>4. j \in Job
    BY <1>a, <2>2, <2>3 DEF Job
  <2>5. Shape(j)
    BY <1>a, <1>2, <2>2 DEF Job, Shape, Fetch
  <2>6. job' \in [Thread -> Job] /\ Shaped'
    <3> HIDE DEF j
    <3> QED BY <2>1, <2>4, <2>5, GoesType DEF j
  <2>7. QED
    BY <1>2, <2>6 DEF Fetch, TypeInv, TypeOK, Thread
<1>3. CASE FetchFails(t)
  <2>1. PICK p \in job[t].fetch : Goes(t, [job[t] EXCEPT !.fetch = @ \ {p}])
    BY <1>3 DEF FetchFails
  <2>2. [job[t] EXCEPT !.fetch = @ \ {p}] \in Job /\ Shape([job[t] EXCEPT !.fetch = @ \ {p}])
    BY <1>a, <1>3 DEF Job, Shape, FetchFails
  <2>3. job' \in [Thread -> Job] /\ Shaped'
    BY <2>1, <2>2, GoesType
  <2>4. QED
    BY <1>3, <2>3 DEF FetchFails, TypeInv, TypeOK, Thread
<1>4. CASE Upsert(t)
  <2>1. PICK p \in Got(t) :
          /\ row' = [row EXCEPT ![p] = [text |-> job[t].got[p], lang |-> job[t].lang,
                                        version |-> job[t].listing[p]]]
          /\ Goes(t, [job[t] EXCEPT !.got[p] = Absent])
    BY <1>4 DEF Upsert
  <2> DEFINE j == [job[t] EXCEPT !.got[p] = Absent]
  <2>2. p \in Note /\ p \in Path /\ job[t].got[p] \in Object /\ job[t].listing[p] \in Object
    BY <1>a DEF Got, Job, Path, Stored, Shape
  <2>3. row' \in [Note -> Row \cup {Absent}]
    BY <1>a, <2>1, <2>2 DEF TypeInv, TypeOK, Row, Job
  <2>4. j \in Job
    BY <1>a, <2>2 DEF Job, Stored
  <2>5. Shape(j)
    BY <1>a, <1>4, <2>2 DEF Job, Shape, Upsert
  <2>6. job' \in [Thread -> Job] /\ Shaped'
    <3> HIDE DEF j
    <3> QED BY <2>1, <2>4, <2>5, GoesType DEF j
  <2>7. QED
    BY <1>4, <2>3, <2>6 DEF Upsert, TypeInv, TypeOK, Thread
<1>5. CASE Finish(t)
  <2>1. PICK pc \in {"schema", "settle"} : Goes(t, Synced(t, pc))
    BY <1>5 DEF Finish
  <2>2. Synced(t, pc) \in Job /\ Shape(Synced(t, pc))
    BY <1>5, SyncedType DEF Finish, Got
  <2>3. job' \in [Thread -> Job] /\ Shaped'
    BY <2>1, <2>2, GoesType
  <2>4. QED
    BY <1>5, <2>3 DEF Finish, TypeInv, TypeOK, Thread
<1>6. CASE Breaks(t)
  <2>1. job' \in [Thread -> Job] /\ Shaped'
    BY <1>a, <1>6, GoesType DEF Breaks, Returns
  <2>2. QED
    BY <1>6, <2>1 DEF Breaks, TypeInv, TypeOK, Thread
<1>7. QED
  BY <1>1, <1>2, <1>3, <1>4, <1>5, <1>6

LEMMA SchemaTypes ==
  ASSUME TypeInv, NEW t \in Thread,
         CheckSchema(t) \/ Load(t) \/ Adopt(t) \/ Settle(t)
  PROVE  TypeInv'
<1>a. job[t] \in Job /\ Shape(job[t]) /\ Resting \in Job /\ Shape(Resting)
  BY AtWork, RestingType
<1>1. CASE CheckSchema(t)
  <2>1. [job[t] EXCEPT !.pc = "act"] \in Job /\ Shape([job[t] EXCEPT !.pc = "act"])
    BY <1>a, <1>1 DEF Job, PC, Shape, CheckSchema
  <2> DEFINE j == [job[t] EXCEPT !.pc = "load", !.seen = index.seen]
  <2>2. j \in Job /\ Shape(j)
    BY <1>a, <1>1 DEF Job, PC, Shape, CheckSchema, TypeInv, TypeOK
  <2>3. Goes(t, [job[t] EXCEPT !.pc = "act"]) \/ Goes(t, j)
    BY <1>1 DEF CheckSchema
  <2>4. job' \in [Thread -> Job] /\ Shaped'
    <3> HIDE DEF j
    <3> QED BY <2>1, <2>2, <2>3, GoesType
  <2>5. QED
    BY <1>1, <2>4 DEF CheckSchema, TypeInv, TypeOK, Thread
<1>2. CASE Load(t)
  <2> DEFINE j == [job[t] EXCEPT !.schema = store[Schema], !.pc = "adopt"]
  <2>1. j \in Job /\ Shape(j)
    BY <1>a, <1>2 DEF Job, PC, Shape, Load, TypeInv, TypeOK, Path
  <2>2. job' \in [Thread -> Job] /\ Shaped'
    <3> HIDE DEF j
    <3> QED BY <1>2, <2>1, GoesType DEF Load, j
  <2>3. QED
    BY <1>2, <2>2 DEF Load, TypeInv, TypeOK, Thread
<1>3. CASE Adopt(t)
  <2> DEFINE lang == Languages(job[t].schema)
             j == [job[t] EXCEPT !.pc = "list", !.force = TRUE, !.rebuilds = TRUE,
                                 !.lang = lang, !.schema = Absent]
             k == [job[t] EXCEPT !.pc = "settle", !.schema = Absent]
  <2>1. job[t].schema \in Stored /\ schema' \in Stored
    BY <1>a, <1>3 DEF Job, Adopt
  <2>2. lang \in Language
    BY <2>1, LanguagesType
  <2>3. k \in Job /\ Shape(k)
    BY <1>a, <1>3 DEF Job, PC, Shape, Adopt, Stored
  <2>4. j \in Job /\ Shape(j)
    <3> HIDE DEF lang
    <3> QED BY <1>a, <1>3, <2>2 DEF Job, PC, Shape, Adopt, Stored
  <2>5. CASE lang = Languages(schema)
    <3>1. job' \in [Thread -> Job] /\ Shaped'
      <4>1. Goes(t, k)
        BY <1>3, <2>5 DEF Adopt
      <4> HIDE DEF k
      <4> QED BY <4>1, <2>3, GoesType
    <3>2. UNCHANGED <<row, recent, index>>
      BY <1>3, <2>5 DEF Adopt
    <3>3. QED
      BY <1>3, <2>1, <3>1, <3>2 DEF Adopt, TypeInv, TypeOK, Thread
  <2>6. CASE lang # Languages(schema)
    <3>1. /\ index' = [lang |-> lang, seen |-> Unknown]
          /\ row' = [p \in Note |-> Absent]
          /\ recent' = FALSE
          /\ job' = [u \in Thread |->
               IF u = t THEN j ELSE [job[u] EXCEPT !.old = @ \/ Syncing(u)]]
      BY <1>3, <2>6 DEF Adopt, Thread
    <3>2. ASSUME NEW u \in Thread
          PROVE  /\ [job[u] EXCEPT !.old = @ \/ Syncing(u)] \in Job
                 /\ Shape([job[u] EXCEPT !.old = @ \/ Syncing(u)])
      <4>1. job[u] \in Job /\ Shape(job[u])
        BY AtWork
      <4>2. PICK b \in BOOLEAN : [job[u] EXCEPT !.old = @ \/ Syncing(u)] = [job[u] EXCEPT !.old = b]
        OBVIOUS
      <4>3. [job[u] EXCEPT !.old = b] \in Job /\ Shape([job[u] EXCEPT !.old = b])
        BY <4>1 DEF Job, Shape
      <4>4. QED
        BY <4>2, <4>3
    <3>3. job' \in [Thread -> Job]
      <4> HIDE DEF j
      <4> QED BY <3>1, <3>2, <2>4
    <3>4. Shaped'
      <4> HIDE DEF j
      <4> QED BY <3>1, <3>2, <2>4 DEF Shaped, Shape
    <3>5. index' \in [lang : Language, seen : Stored \cup {Unknown}]
      <4> HIDE DEF lang
      <4> QED BY <3>1, <2>2
    <3>6. row' \in [Note -> Row \cup {Absent}] /\ recent' \in BOOLEAN /\ stale' \in BOOLEAN
      BY <1>3, <3>1 DEF Adopt, TypeInv, TypeOK
    <3>7. QED
      BY <1>3, <2>1, <3>3, <3>4, <3>5, <3>6 DEF Adopt, TypeInv, TypeOK, Thread
  <2>7. QED
    BY <2>5, <2>6
<1>4. CASE Settle(t)
  <2> DEFINE j == [job[t] EXCEPT !.pc = "act", !.seen = Unknown, !.rebuilds = FALSE]
  <2>1. j \in Job /\ Shape(j)
    BY <1>a, <1>4 DEF Job, PC, Shape, Settle
  <2>2. Goes(t, j) \/ Goes(t, Resting)
    BY <1>4 DEF Settle, Returns
  <2>3. job' \in [Thread -> Job] /\ Shaped'
    <3> HIDE DEF j
    <3> QED BY <1>a, <2>1, <2>2, GoesType
  <2>4. schemaVersion' \in Stored \cup {Unknown}
    BY <1>a, <1>4 DEF Settle, Job, TypeInv, TypeOK
  <2>5. QED
    BY <1>4, <2>3, <2>4 DEF Settle, TypeInv, TypeOK, Thread
<1>5. QED
  BY <1>1, <1>2, <1>3, <1>4

LEMMA StoresType ==
  ASSUME TypeOK, NEW p \in Path, NEW o \in Stored, Stores(p, o)
  PROVE  store' \in [Path -> Stored] /\ due' \subseteq Path
BY DEF TypeOK, Stores

LEMMA CallTypes ==
  ASSUME TypeInv, NEW t \in Thread,
         Answer(t) \/ Store(t) \/ Reindex(t) \/ Mark(t)
  PROVE  TypeInv'
<1>a. job[t] \in Job /\ Shape(job[t]) /\ Resting \in Job /\ Shape(Resting)
  BY AtWork, RestingType
<1>b. Returns(t) => job' \in [Thread -> Job] /\ Shaped'
  BY <1>a, GoesType DEF Returns
<1>1. CASE Answer(t)
  BY <1>1, <1>b DEF Answer, TypeInv, TypeOK, Thread
<1>2. CASE Store(t)
  <2> DEFINE f == [job EXCEPT ![t].pc = "reindex"]
  <2>1. job[t].at \in Note /\ job[t].at \in Path /\ job[t].new \in Stored
    BY <1>a, <1>2 DEF Store, Shape, Job, Path
  <2>2. [job[t] EXCEPT !.pc = "reindex"] \in Job /\ Shape([job[t] EXCEPT !.pc = "reindex"])
    BY <1>a, <1>2, <2>1 DEF Store, Shape, Job, PC
  <2>3. f \in [Thread -> Job] /\ \A u \in Thread : Shape(f[u])
    BY <2>2, AtWork DEF TypeInv, TypeOK, Thread
  <2>4. job' \in [Thread -> Job] /\ Shaped'
    <3>1. job' = Forgotten(job[t].at, f)
      BY <1>2 DEF Store
    <3> HIDE DEF f
    <3> QED BY <2>3, <3>1, ForgottenType DEF Shaped, Shape
  <2>5. store' \in [Path -> Stored] /\ due' \subseteq Path
    BY <1>2, <2>1, StoresType DEF Store, TypeInv
  <2>6. QED
    BY <1>2, <2>4, <2>5 DEF Store, TypeInv, TypeOK, Thread
<1>3. CASE Reindex(t)
  <2>1. job[t].at \in Note /\ job[t].new \in Object \cup {Absent} /\ index.lang \in Language
    BY <1>a, <1>3 DEF Reindex, Shape, Job, Stored, TypeInv, TypeOK
  <2>2. row' \in [Note -> Row \cup {Absent}]
    BY <1>3, <2>1 DEF Reindex, TypeInv, TypeOK, Row
  <2>3. QED
    BY <1>3, <1>b, <2>2 DEF Reindex, TypeInv, TypeOK, Thread
<1>4. CASE Mark(t)
  <2>1. due' \subseteq Path
    BY <1>a, <1>4 DEF Mark, Job, PC, Shape, TypeInv, TypeOK
  <2>2. QED
    BY <1>4, <1>b, <2>1 DEF Mark, TypeInv, TypeOK, Thread
<1>5. QED
  BY <1>1, <1>2, <1>3, <1>4

LEMMA WriteTypes ==
  ASSUME TypeInv, NEW t \in Thread, Upload(t) \/ SwitchLayout(t)
  PROVE  TypeInv'
<1>a. /\ Resting \in Job /\ Shape(Resting)
      /\ job \in [Thread -> Job] /\ \A u \in Thread : Shape(job[u])
  BY AtWork, RestingType DEF TypeInv, TypeOK, Thread
<1>b. writes' = writes + 1 => writes' \in Nat
  BY DEF TypeInv, TypeOK
<1>1. CASE Upload(t)
  <2>1. PICK p \in Path, b \in Body \cup {Absent} :
          /\ Stores(p, Written(b))
          /\ job' = Forgotten(p, [job EXCEPT ![t] =
               [Resting EXCEPT !.pc = "mark", !.at = p, !.new = Written(b)]])
    BY <1>1, TextTypes DEF Upload
  <2> DEFINE j == [Resting EXCEPT !.pc = "mark", !.at = p, !.new = Written(b)]
             f == [job EXCEPT ![t] = j]
  <2>2. Written(b) \in Stored
    BY WrittenType, TextTypes DEF TypeInv
  <2>3. j \in Job /\ Shape(j)
    BY <1>a, <2>2, RestingType DEF Resting, Job, PC, Shape
  <2>4. f \in [Thread -> Job] /\ \A u \in Thread : Shape(f[u])
    <3> HIDE DEF j
    <3> QED BY <1>a, <2>3
  <2>5. job' \in [Thread -> Job] /\ Shaped'
    <3>1. job' = Forgotten(p, f)
      BY <2>1
    <3> HIDE DEF f
    <3> QED BY <2>4, <3>1, ForgottenType DEF Shaped, Shape
  <2>6. store' \in [Path -> Stored] /\ due' \subseteq Path
    BY <2>1, <2>2, StoresType DEF TypeInv
  <2>7. QED
    BY <1>1, <1>b, <2>5, <2>6 DEF Upload, TypeInv, TypeOK, Thread
<1>2. CASE SwitchLayout(t)
  <2>1. PICK b \in SchemaTexts \ {Absent} :
          /\ Stores(Schema, Written(b))
          /\ job' = Forgotten(Schema, [job EXCEPT ![t] = [Resting EXCEPT !.pc = "load"]])
    BY <1>2 DEF SwitchLayout
  <2> DEFINE j == [Resting EXCEPT !.pc = "load"]
             f == [job EXCEPT ![t] = j]
  <2>2. Written(b) \in Stored /\ Schema \in Path
    BY WrittenType DEF TypeInv, Path, VaultIndexAssumption
  <2>3. j \in Job /\ Shape(j)
    BY <1>a, RestingType DEF Resting, Job, PC, Shape
  <2>4. f \in [Thread -> Job] /\ \A u \in Thread : Shape(f[u])
    <3> HIDE DEF j
    <3> QED BY <1>a, <2>3
  <2>5. job' \in [Thread -> Job] /\ Shaped'
    <3>1. job' = Forgotten(Schema, f)
      BY <2>1
    <3> HIDE DEF f
    <3> QED BY <2>4, <3>1, ForgottenType DEF Shaped, Shape
  <2>6. store' \in [Path -> Stored] /\ due' \subseteq Path
    BY <2>1, <2>2, StoresType DEF TypeInv
  <2>7. QED
    BY <1>2, <1>b, <2>5, <2>6 DEF SwitchLayout, TypeInv, TypeOK, Thread
<1>3. QED
  BY <1>1, <1>2

LEMMA OtherTypes ==
  ASSUME TypeInv, Elsewhere \/ Tick \/ Restart \/ UNCHANGED vars
  PROVE  TypeInv'
<1>1. CASE Tick
  BY <1>1 DEF Tick, TypeInv, TypeOK, Shaped, Shape
<1>2. CASE Restart
  <2>1. Languages(store[Schema]) \in Language /\ store[Schema] \in Stored
    BY LanguagesType DEF TypeInv, TypeOK, Path
  <2>2. job' \in [Tool \cup Web -> Job] /\ Shaped'
    BY <1>2, RestingType DEF Restart, Shaped, Shape, Thread
  <2>3. index' \in [lang : Language, seen : Stored \cup {Unknown}]
    BY <1>2, <2>1 DEF Restart
  <2>4. row' \in [Note -> Row \cup {Absent}] /\ recent' \in BOOLEAN /\ stale' \in BOOLEAN
    BY <1>2 DEF Restart, TypeInv, TypeOK
  <2>5. writes' \in Nat /\ failures' \in Nat /\ restarts' \in Nat
    BY <1>2 DEF Restart, TypeInv, TypeOK
  <2>6. QED
    BY <1>2, <2>1, <2>2, <2>3, <2>4, <2>5 DEF Restart, TypeInv, TypeOK
<1>3. CASE Elsewhere
  <2>a. job \in [Thread -> Job] /\ \A u \in Thread : Shape(job[u])
    BY AtWork DEF TypeInv, TypeOK, Thread
  <2>1. PICK p \in Path, b \in Body \cup {Absent} : Stores(p, Written(b)) /\ job' = Forgotten(p, job)
    BY <1>3, TextTypes DEF Elsewhere
  <2>2. Written(b) \in Stored
    BY WrittenType, TextTypes DEF TypeInv
  <2>3. job' \in [Thread -> Job] /\ Shaped'
    BY <2>a, <2>1, ForgottenType DEF Shaped, Shape
  <2>4. store' \in [Path -> Stored] /\ due' \subseteq Path
    BY <2>1, <2>2, StoresType DEF TypeInv
  <2>5. QED
    BY <1>3, <2>3, <2>4 DEF Elsewhere, TypeInv, TypeOK, Thread
<1>4. CASE UNCHANGED vars
  BY <1>4 DEF vars, TypeInv, TypeOK, Shaped, Shape
<1>5. QED
  BY <1>1, <1>2, <1>3, <1>4

LEMMA TypeStep == TypeInv /\ [Next]_vars => TypeInv'
<1> SUFFICES ASSUME TypeInv, [Next]_vars PROVE TypeInv'
  OBVIOUS
<1>1. ASSUME NEW t \in Tool, Search(t) \/ Edit(t) PROVE TypeInv'
  BY <1>1, SyncTypes DEF Thread
<1>2. ASSUME NEW t \in Web, Upload(t) \/ SwitchLayout(t) PROVE TypeInv'
  BY <1>2, WriteTypes DEF Thread
<1>3. ASSUME NEW t \in Tool \cup Web, Continue(t) PROVE TypeInv'
  BY <1>3, SyncTypes, ApplyTypes, SchemaTypes, CallTypes DEF Continue, Thread
<1>4. QED
  BY <1>1, <1>2, <1>3, OtherTypes DEF Next

(* Every state of every behaviour is well typed, whatever the threads, the *)
(* notes, the texts and the number of writes, failures and restarts        *)
(* (index.py, vault.py).                                                   *)
THEOREM IndexTypeCorrect == Spec => []TypeOK
<1>1. TypeInv => TypeOK
  BY DEF TypeInv
<1>2. QED
  BY <1>1, TypeInit, TypeStep, PTL DEF Spec

-----------------------------------------------------------------------------
(* A thread that goes from j to k comes to hold nothing new. *)
Tamed(j, k) ==
  /\ k.new \in {j.new, Absent}
  /\ Pending(k) => Pending(j)
  /\ \A p \in Path : k.listing[p] \in {j.listing[p], Absent}
  /\ \A p \in Note : k.got[p] # Absent => k.got[p] = j.got[p] /\ k.listing[p] = j.listing[p]

LEMMA TamedResting ==
  ASSUME NEW j
  PROVE  Tamed(j, Resting)
BY DEF Tamed, Resting, Pending, Nothing, Path

LEMMA TamedSynced ==
  ASSUME TypeInv, NEW t \in Thread, job[t].pc \in {"list", "apply"}, NEW pc \in {"schema", "settle"},
         \A p \in Note : job[t].got[p] = Absent
  PROVE  Tamed(job[t], Synced(t, pc))
<1>1. job[t] \in Job
  BY AtWork
<1>2. QED
  BY <1>1 DEF Tamed, Synced, Pending, Job, Nothing, Path

LEMMA OnlyForgets ==
  ASSUME NEW f \in [Thread -> Job], NEW p, NEW u \in Thread
  PROVE  /\ Forgotten(p, f)[u].pc = f[u].pc /\ Forgotten(p, f)[u].at = f[u].at
         /\ Forgotten(p, f)[u].new = f[u].new /\ Forgotten(p, f)[u].listing = f[u].listing
         /\ Forgotten(p, f)[u].got = f[u].got
<1>1. Forgotten(p, f)[u] = [f[u] EXCEPT !.owes = @ \ {p}] /\ f[u] \in Job
  BY DEF Forgotten
<1>2. QED
  BY <1>1 DEF Job

LEMMA TamedForgotten ==
  ASSUME NEW f \in [Thread -> Job], NEW p, NEW u \in Thread, NEW j, Tamed(j, f[u])
  PROVE  Tamed(j, Forgotten(p, f)[u])
BY OnlyForgets DEF Tamed, Pending

LEMMA TamedSame ==
  ASSUME NEW j
  PROVE  Tamed(j, j)
BY DEF Tamed

LEMMA GoesTamed ==
  ASSUME TypeInv, NEW t \in Thread, NEW j, Tamed(job[t], j), Goes(t, j)
  PROVE  \A u \in Thread : Tamed(job[u], job'[u])
<1>1. \A u \in Thread : job'[u] = IF u = t THEN j ELSE job[u]
  BY DEF Goes, TypeInv, TypeOK, Thread
<1>2. QED
  BY <1>1, TamedSame

(* A step that writes nothing and reads nothing. *)
LEMMA QuietStep ==
  ASSUME IInv, store' = store, writes' = writes,
         \A p \in Note : row'[p] \in {row[p], Absent},
         \A u \in Thread : Tamed(job[u], job'[u])
  PROVE  Held'
<1>1. Counted'
  BY DEF IInv, Held, Counted, Old, Tamed
<1>2. Unseen'
  <2>1. SUFFICES ASSUME NEW t \in Thread, Pending(job'[t])
                 PROVE  /\ \A p \in Path : store[p] # job'[t].new
                        /\ \A p \in Note : row'[p] # Absent => row'[p].version # job'[t].new
                        /\ \A u \in Thread : \A p \in Path : job'[u].listing[p] # job'[t].new
                        /\ \A u \in Thread : u # t => job'[u].new # job'[t].new
    BY DEF Unseen, Pending
  <2>2. Pending(job[t]) /\ job'[t].new = job[t].new /\ job[t].new # Absent
    BY <2>1 DEF Tamed, Pending
  <2>3. QED
    BY <2>2 DEF IInv, Held, Unseen, Tamed
<1>3. FetchedTrue'
  BY DEF IInv, Held, FetchedTrue, Tamed
<1>4. RowTrue'
  BY DEF IInv, Held, RowTrue, Path
<1>5. QED
  BY <1>1, <1>2, <1>3, <1>4 DEF Held

LEMMA ObjectStamp == \A o \in Stored : o # Absent => o \in Object /\ o.stamp \in Nat
BY DEF Stored, Object

LEMMA Holdings ==
  ASSUME TypeInv
  PROVE  /\ \A p \in Path : store[p] \in Stored
         /\ \A p \in Note : row[p] # Absent => row[p].version \in Object
         /\ \A t \in Thread : job[t].new \in Stored /\ \A p \in Path : job[t].listing[p] \in Stored
         /\ \A t \in Thread : \A p \in Note : job[t].got[p] # Absent => job[t].listing[p] # Absent
         /\ writes \in Nat
<1>1. \A t \in Thread : job[t] \in Job /\ Shape(job[t])
  BY AtWork
<1>2. QED
  BY <1>1 DEF TypeInv, TypeOK, Row, Job, Shape

(* What a new write stores is nowhere yet. *)
LEMMA NewIsNowhere ==
  ASSUME IInv, NEW o \in Stored, o # Absent => o.stamp = writes + 1
  PROVE  o # Absent =>
           /\ \A p \in Path : store[p] # o
           /\ \A p \in Note : row[p] # Absent => row[p].version # o
           /\ \A t \in Thread : job[t].new # o /\ \A p \in Path : job[t].listing[p] # o
<1>1. \A q \in Stored : Old(q) /\ o # Absent => q # o
  BY Holdings, ObjectStamp DEF Old, IInv
<1>2. Object \subseteq Stored
  BY DEF Stored
<1>3. QED
  BY <1>1, <1>2, Holdings DEF IInv, Held, Counted

(* A write of what nobody has seen. *)
LEMMA NewWrite ==
  ASSUME IInv, NEW p \in Path, NEW o \in Stored, o # Absent => o.stamp = writes + 1,
         store' = [store EXCEPT ![p] = o], row' = row, writes' = writes + 1,
         \A u \in Thread :
           /\ job'[u].new \in {job[u].new, Absent, o}
           /\ Pending(job'[u]) => Pending(job[u]) /\ job'[u].new = job[u].new
           /\ \A q \in Path : job'[u].listing[q] \in {job[u].listing[q], Absent}
           /\ \A q \in Note : job'[u].got[q] # Absent =>
                job'[u].got[q] = job[u].got[q] /\ job'[u].listing[q] = job[u].listing[q]
  PROVE  Held'
<1>a. \A q \in Path : store'[q] = IF q = p THEN o ELSE store[q]
  BY DEF IInv, TypeInv, TypeOK
<1>b. /\ \A q \in Stored : q # Absent /\ q.stamp <= writes => q.stamp <= writes'
      /\ o # Absent => o.stamp <= writes'
  BY ObjectStamp, Holdings DEF IInv
<1>c. Object \subseteq Stored
  BY DEF Stored
<1>n. o # Absent =>
        /\ \A q \in Path : store[q] # o
        /\ \A q \in Note : row[q] # Absent => row[q].version # o
        /\ \A t \in Thread : job[t].new # o /\ \A q \in Path : job[t].listing[q] # o
  BY NewIsNowhere
<1>1. Counted'
  <2>1. \A q \in Path : store'[q] # Absent => store'[q].stamp <= writes'
    BY <1>a, <1>b, Holdings DEF IInv, Held, Counted, Old
  <2>2. \A q \in Note : row'[q] # Absent /\ row'[q].version # Absent => row'[q].version.stamp <= writes'
    BY <1>b, <1>c, Holdings DEF IInv, Held, Counted, Old
  <2>3. ASSUME NEW t \in Thread
        PROVE  /\ job'[t].new # Absent => job'[t].new.stamp <= writes'
               /\ \A q \in Path : job'[t].listing[q] # Absent => job'[t].listing[q].stamp <= writes'
    BY <1>b, Holdings DEF IInv, Held, Counted, Old
  <2>4. QED
    BY <2>1, <2>2, <2>3 DEF Counted, Old
<1>2. Unseen'
  <2>1. SUFFICES ASSUME NEW t \in Thread, Pending(job'[t])
                 PROVE  /\ \A q \in Path : store'[q] # job'[t].new
                        /\ \A q \in Note : row'[q] # Absent => row'[q].version # job'[t].new
                        /\ \A u \in Thread : \A q \in Path : job'[u].listing[q] # job'[t].new
                        /\ \A u \in Thread : u # t => job'[u].new # job'[t].new
    BY DEF Unseen, Pending
  <2>2. Pending(job[t]) /\ job'[t].new = job[t].new /\ job[t].new # Absent
    BY <2>1 DEF Pending
  <2>3. job[t].new # o
    BY <1>n, <2>2
  <2>4. QED
    BY <1>a, <2>2, <2>3 DEF IInv, Held, Unseen
<1>3. FetchedTrue'
  <2>1. SUFFICES ASSUME NEW t \in Thread, NEW q \in Note,
                        job'[t].got[q] # Absent, job'[t].listing[q] = store'[q]
                 PROVE  job'[t].got[q] = store'[q]
    BY DEF FetchedTrue
  <2>2. job[t].got[q] = job'[t].got[q] /\ job[t].listing[q] = store'[q] /\ q \in Path
    BY <2>1 DEF Path
  <2>3. job[t].listing[q] # Absent
    BY <2>1, <2>2, Holdings DEF IInv
  <2>4. store'[q] = store[q]
    BY <1>a, <1>n, <2>2, <2>3
  <2>5. QED
    BY <2>1, <2>2, <2>4 DEF IInv, Held, FetchedTrue
<1>4. RowTrue'
  <2>1. SUFFICES ASSUME NEW q \in Note, row[q] # Absent, row[q].version = store'[q]
                 PROVE  row[q].text = store'[q]
    BY DEF RowTrue
  <2>2. row[q].version # Absent /\ q \in Path
    BY <2>1, Holdings DEF Path, IInv, VaultIndexAssumption
  <2>3. store'[q] = store[q]
    BY <1>a, <1>n, <2>1, <2>2
  <2>4. QED
    BY <2>1, <2>3 DEF IInv, Held, RowTrue
<1>5. QED
  BY <1>1, <1>2, <1>3, <1>4 DEF Held

LEMMA HeldInit == Init => Held
<1> SUFFICES ASSUME Init PROVE Held
  OBVIOUS
<1>1. \A t \in Thread : job[t] = Resting
  BY DEF Init, Thread
<1>2. /\ \A p \in Path : store[p] = [text |-> Initial, stamp |-> 0]
      /\ \A p \in Note : row[p] = Absent
      /\ writes = 0
  BY DEF Init
<1>3. Counted
  BY <1>1, <1>2 DEF Counted, Old, Resting, Nothing
<1>4. Unseen /\ FetchedTrue /\ RowTrue
  BY <1>1, <1>2 DEF Unseen, FetchedTrue, RowTrue, Pending, Resting
<1>5. QED
  BY <1>3, <1>4 DEF Held

-----------------------------------------------------------------------------
(* The actions. *)

LEMMA QuietActions ==
  ASSUME IInv, NEW t \in Thread,
         \/ Search(t) \/ Sync(t) \/ Throttled(t) \/ ListFails(t) \/ Compare(t)
         \/ DropRow(t) \/ FetchFails(t) \/ Finish(t) \/ Breaks(t)
         \/ CheckSchema(t) \/ Load(t) \/ Settle(t) \/ Answer(t) \/ Mark(t)
  PROVE  Held'
<1>a. TypeInv /\ job[t] \in Job /\ Shape(job[t])
  BY AtWork DEF IInv
<1>b. store' = store /\ writes' = writes
  BY DEF Search, Sync, Throttled, ListFails, Compare, DropRow, FetchFails, Finish, Breaks,
         CheckSchema, Load, Settle, Answer, Mark
<1>c. \A p \in Note : row'[p] \in {row[p], Absent}
  BY <1>a DEF Search, Sync, Throttled, ListFails, Compare, DropRow, FetchFails, Finish, Breaks,
         CheckSchema, Load, Settle, Answer, Mark, TypeInv, TypeOK
<1>1. CASE Search(t)
  <2>1. Tamed(job[t], [Resting EXCEPT !.pc = "sync", !.owes = due])
    BY TamedResting DEF Tamed, Resting, Pending
  <2>2. Goes(t, [Resting EXCEPT !.pc = "sync", !.owes = due])
    BY <1>1 DEF Search
  <2>3. QED
    BY <1>a, <1>b, <1>c, <2>1, <2>2, GoesTamed, QuietStep
<1>2. CASE Returns(t)
  BY <1>2, <1>a, <1>b, <1>c, TamedResting, GoesTamed, QuietStep DEF Returns
<1>3. CASE Throttled(t)
  <2>1. Tamed(job[t], Synced(t, "schema"))
    BY <1>a, <1>3, TamedSynced DEF Throttled, Shape
  <2>2. QED
    BY <1>3, <1>a, <1>b, <1>c, <2>1, GoesTamed, QuietStep DEF Throttled
<1>4. CASE Finish(t)
  <2>1. PICK pc \in {"schema", "settle"} : Goes(t, Synced(t, pc))
    BY <1>4 DEF Finish
  <2>2. Tamed(job[t], Synced(t, pc))
    BY <1>a, <1>4, TamedSynced DEF Finish, Got
  <2>3. QED
    BY <1>a, <1>b, <1>c, <2>1, <2>2, GoesTamed, QuietStep
<1>5. CASE Sync(t)
  <2> DEFINE j == [job[t] EXCEPT !.pc = "list", !.force = stale, !.lang = index.lang]
  <2>1. Tamed(job[t], j)
    BY <1>a, <1>5 DEF Tamed, Pending, Job, Sync
  <2>2. Goes(t, j)
    BY <1>5 DEF Sync
  <2> HIDE DEF j
  <2>3. QED
    BY <1>a, <1>b, <1>c, <2>1, <2>2, GoesTamed, QuietStep
<1>6. CASE Load(t)
  <2> DEFINE j == [job[t] EXCEPT !.schema = store[Schema], !.pc = "adopt"]
  <2>1. Tamed(job[t], j)
    BY <1>a, <1>6 DEF Tamed, Pending, Job, Load
  <2>2. Goes(t, j)
    BY <1>6 DEF Load
  <2> HIDE DEF j
  <2>3. QED
    BY <1>a, <1>b, <1>c, <2>1, <2>2, GoesTamed, QuietStep
<1>7. CASE Compare(t)
  <2>1. PICK gone, fetch : Goes(t, [job[t] EXCEPT !.pc = "apply", !.gone = gone, !.fetch = fetch])
    BY <1>7 DEF Compare
  <2> DEFINE j == [job[t] EXCEPT !.pc = "apply", !.gone = gone, !.fetch = fetch]
  <2>2. Tamed(job[t], j)
    BY <1>a, <1>7 DEF Tamed, Pending, Job, Compare
  <2> HIDE DEF j
  <2>3. QED
    BY <1>a, <1>b, <1>c, <2>1, <2>2, GoesTamed, QuietStep DEF j
<1>8. CASE DropRow(t) \/ FetchFails(t)
  <2>1. PICK gone, fetch : Goes(t, [job[t] EXCEPT !.gone = gone])
                           \/ Goes(t, [job[t] EXCEPT !.fetch = fetch])
    BY <1>8 DEF DropRow, FetchFails
  <2> DEFINE j == [job[t] EXCEPT !.gone = gone]
             k == [job[t] EXCEPT !.fetch = fetch]
  <2>2. Tamed(job[t], j) /\ Tamed(job[t], k)
    BY <1>a DEF Tamed, Pending, Job
  <2> HIDE DEF j, k
  <2>3. QED
    BY <1>a, <1>b, <1>c, <2>1, <2>2, GoesTamed, QuietStep DEF j, k
<1>9. CASE CheckSchema(t)
  <2> DEFINE j == [job[t] EXCEPT !.pc = "act"]
             k == [job[t] EXCEPT !.pc = "load", !.seen = index.seen]
  <2>1. Tamed(job[t], j) /\ Tamed(job[t], k)
    BY <1>a, <1>9 DEF Tamed, Pending, Job, CheckSchema
  <2>2. Goes(t, j) \/ Goes(t, k)
    BY <1>9 DEF CheckSchema
  <2> HIDE DEF j, k
  <2>3. QED
    BY <1>a, <1>b, <1>c, <2>1, <2>2, GoesTamed, QuietStep
<1>10. CASE Settle(t)
  <2> DEFINE j == [job[t] EXCEPT !.pc = "act", !.seen = Unknown, !.rebuilds = FALSE]
  <2>1. Tamed(job[t], j)
    BY <1>a, <1>10 DEF Tamed, Pending, Job, Settle
  <2>2. Goes(t, j) \/ Returns(t)
    BY <1>10 DEF Settle
  <2> HIDE DEF j
  <2>3. QED
    BY <1>a, <1>b, <1>c, <1>2, <2>1, <2>2, GoesTamed, QuietStep
<1>11. QED
  BY <1>1, <1>2, <1>3, <1>4, <1>5, <1>6, <1>7, <1>8, <1>9, <1>10
     DEF ListFails, Breaks, Answer, Mark

(* A schema in other languages: rows go, no other thread comes to hold more. *)
LEMMA AdoptHeld ==
  ASSUME IInv, NEW t \in Thread, Adopt(t)
  PROVE  Held'
<1>a. TypeInv /\ job[t] \in Job
  BY AtWork DEF IInv
<1>b. store' = store /\ writes' = writes /\ \A p \in Note : row'[p] \in {row[p], Absent}
  BY <1>a DEF Adopt, TypeInv, TypeOK
<1> DEFINE lang == Languages(job[t].schema)
           j == [job[t] EXCEPT !.pc = "list", !.force = TRUE, !.rebuilds = TRUE,
                               !.lang = lang, !.schema = Absent]
           k == [job[t] EXCEPT !.pc = "settle", !.schema = Absent]
<1>1. Tamed(job[t], j) /\ Tamed(job[t], k)
  <2> HIDE DEF lang
  <2> QED BY <1>a DEF Tamed, Pending, Job, Adopt
<1>2. \/ Goes(t, k)
      \/ job' = [u \in Thread |-> IF u = t THEN j ELSE [job[u] EXCEPT !.old = @ \/ Syncing(u)]]
  BY DEF Adopt, Thread
<1>3. ASSUME NEW u \in Thread, NEW b PROVE Tamed(job[u], [job[u] EXCEPT !.old = b])
  BY <1>a, AtWork DEF Tamed, Pending, Job
<1>4. \A u \in Thread : Tamed(job[u], job'[u])
  <2> HIDE DEF j, k
  <2> QED BY <1>a, <1>1, <1>2, <1>3, GoesTamed
<1>5. QED
  BY <1>b, <1>4, QuietStep

(* What is listed is stored, so it is not what a call has yet to store. *)
LEMMA ListHeld ==
  ASSUME IInv, NEW t \in Thread, ListAll(t)
  PROVE  Held'
<1> DEFINE j == [job[t] EXCEPT !.pc = "compare", !.listing = store]
<1>a. TypeInv /\ job[t] \in Job /\ Shape(job[t])
  BY AtWork DEF IInv
<1>b. store' = store /\ row' = row /\ writes' = writes
  BY DEF ListAll
<1>1. j.new = job[t].new /\ j.listing = store /\ j.got = job[t].got
      /\ (Pending(j) <=> Pending(job[t])) /\ job[t].pc = "list"
  BY <1>a DEF Job, Pending, ListAll
<1>2. \A u \in Thread : job'[u] = IF u = t THEN j ELSE job[u]
  BY <1>a DEF ListAll, Goes, TypeInv, TypeOK, Thread
<1> HIDE DEF j
<1>3. \A u \in Thread : job'[u].new = job[u].new /\ (Pending(job'[u]) <=> Pending(job[u]))
  BY <1>1, <1>2
<1>4. \A u \in Thread : job'[u].listing = job[u].listing \/ job'[u].listing = store
  BY <1>1, <1>2
<1>5. Counted'
  BY <1>b, <1>3, <1>4 DEF IInv, Held, Counted, Old
<1>6. Unseen'
  <2>1. SUFFICES ASSUME NEW u \in Thread, Pending(job'[u])
                 PROVE  /\ \A q \in Path : store[q] # job[u].new
                        /\ \A q \in Note : row[q] # Absent => row[q].version # job[u].new
                        /\ \A v \in Thread : \A q \in Path : job'[v].listing[q] # job[u].new
                        /\ \A v \in Thread : v # u => job[v].new # job[u].new
    BY <1>b, <1>3 DEF Unseen, Pending
  <2>2. QED
    BY <1>3, <1>4, <2>1 DEF IInv, Held, Unseen
<1>7. FetchedTrue'
  <2>1. \A p \in Note : job'[t].got[p] = Absent
    BY <1>a, <1>1, <1>2 DEF Shape
  <2>2. QED
    BY <1>b, <1>2, <2>1 DEF IInv, Held, FetchedTrue
<1>8. RowTrue'
  BY <1>b DEF IInv, Held, RowTrue
<1>9. QED
  BY <1>5, <1>6, <1>7, <1>8 DEF Held

(* A note is fetched as it is stored. *)
LEMMA FetchHeld ==
  ASSUME IInv, NEW t \in Thread, Fetch(t)
  PROVE  Held'
<1>a. TypeInv /\ job[t] \in Job /\ Shape(job[t])
  BY AtWork DEF IInv
<1>b. store' = store /\ row' = row /\ writes' = writes
  BY DEF Fetch
<1>1. PICK p \in job[t].fetch : Goes(t, [job[t] EXCEPT !.fetch = @ \ {p}, !.got[p] = store[p]])
  BY DEF Fetch
<1> DEFINE j == [job[t] EXCEPT !.fetch = @ \ {p}, !.got[p] = store[p]]
<1>2. /\ j.new = job[t].new /\ j.listing = job[t].listing /\ (Pending(j) <=> Pending(job[t]))
      /\ \A q \in Note : j.got[q] = IF q = p THEN store[q] ELSE job[t].got[q]
  BY <1>a DEF Job, Pending
<1>3. \A u \in Thread : job'[u] = IF u = t THEN j ELSE job[u]
  BY <1>a, <1>1 DEF Goes, TypeInv, TypeOK, Thread
<1> HIDE DEF j
<1>4. \A u \in Thread : /\ job'[u].new = job[u].new /\ (Pending(job'[u]) <=> Pending(job[u]))
                        /\ job'[u].listing = job[u].listing
  BY <1>2, <1>3
<1>5. Counted' /\ RowTrue'
  BY <1>b, <1>4 DEF IInv, Held, Counted, Old, RowTrue
<1>6. Unseen'
  BY <1>b, <1>4 DEF IInv, Held, Unseen, Pending
<1>7. FetchedTrue'
  BY <1>b, <1>2, <1>3 DEF IInv, Held, FetchedTrue
<1>8. QED
  BY <1>5, <1>6, <1>7 DEF Held

(* The row has the listed version, and the text fetched, which is the text *)
(* of that version if that version is still there.                         *)
LEMMA UpsertHeld ==
  ASSUME IInv, NEW t \in Thread, Upsert(t)
  PROVE  Held'
<1>a. TypeInv /\ job[t] \in Job /\ Shape(job[t])
  BY AtWork DEF IInv
<1>b. store' = store /\ writes' = writes
  BY DEF Upsert
<1>1. PICK p \in Got(t) :
        /\ row' = [row EXCEPT ![p] = [text |-> job[t].got[p], lang |-> job[t].lang,
                                      version |-> job[t].listing[p]]]
        /\ Goes(t, [job[t] EXCEPT !.got[p] = Absent])
  BY DEF Upsert
<1> DEFINE j == [job[t] EXCEPT !.got[p] = Absent]
<1>2. Tamed(job[t], j)
  BY <1>a DEF Tamed, Pending, Job, Got
<1>3. \A u \in Thread : Tamed(job[u], job'[u])
  <2> HIDE DEF j
  <2> QED BY <1>a, <1>1, <1>2, GoesTamed DEF j
<1>4. p \in Note /\ p \in Path /\ job[t].got[p] # Absent
  BY DEF Got, Path
<1>5. /\ row'[p].text = job[t].got[p] /\ row'[p].version = job[t].listing[p]
      /\ \A q \in Note : q # p => row'[q] = row[q]
  BY <1>a, <1>1, <1>4 DEF TypeInv, TypeOK
<1>6. \A q \in Note : row'[q] # Absent => \/ row'[q].version = job[t].listing[q]
                                          \/ row[q] # Absent /\ row'[q].version = row[q].version
  BY <1>5
<1>7. Counted'
  <2>1. \A q \in Note : row'[q] # Absent /\ row'[q].version # Absent => row'[q].version.stamp <= writes
    BY <1>6 DEF IInv, Held, Counted, Old, Path
  <2>2. \A u \in Thread :
          /\ job'[u].new # Absent => job'[u].new.stamp <= writes
          /\ \A q \in Path : job'[u].listing[q] # Absent => job'[u].listing[q].stamp <= writes
    BY <1>3 DEF Tamed, IInv, Held, Counted, Old
  <2>3. QED
    BY <1>b, <2>1, <2>2 DEF Counted, Old, IInv, Held
<1>8. Unseen'
  <2>1. SUFFICES ASSUME NEW u \in Thread, Pending(job'[u])
                 PROVE  /\ \A q \in Path : store[q] # job'[u].new
                        /\ \A q \in Note : row'[q] # Absent => row'[q].version # job'[u].new
                        /\ \A v \in Thread : \A q \in Path : job'[v].listing[q] # job'[u].new
                        /\ \A v \in Thread : v # u => job'[v].new # job'[u].new
    BY <1>b DEF Unseen, Pending
  <2>2. Pending(job[u]) /\ job'[u].new = job[u].new /\ job[u].new # Absent
    BY <1>3, <2>1 DEF Tamed, Pending
  <2>3. \A q \in Note : row'[q] # Absent => row'[q].version # job'[u].new
    BY <1>6, <2>2 DEF IInv, Held, Unseen, Path
  <2>4. QED
    BY <1>3, <2>2, <2>3 DEF IInv, Held, Unseen, Tamed
<1>9. FetchedTrue'
  BY <1>b, <1>3 DEF IInv, Held, FetchedTrue, Tamed
<1>10. RowTrue'
  BY <1>b, <1>4, <1>5 DEF IInv, Held, FetchedTrue, RowTrue
<1>11. QED
  BY <1>7, <1>8, <1>9, <1>10 DEF Held

(* A call that is to write has an object of its own. *)
LEMMA EditHeld ==
  ASSUME ~Digests, IInv, NEW t \in Thread, Edit(t)
  PROVE  Held'
<1>a. TypeInv
  BY DEF IInv
<1>1. PICK p \in Note, b \in NoteTexts :
        Goes(t, [Resting EXCEPT !.pc = "sync", !.owes = due, !.at = p, !.new = Written(b)])
  BY DEF Edit
<1>b. store' = store /\ row' = row /\ writes' = writes + 1
  BY DEF Edit
<1> DEFINE j == [Resting EXCEPT !.pc = "sync", !.owes = due, !.at = p, !.new = Written(b)]
           o == Written(b)
<1>2. o \in Stored /\ (o # Absent => o.stamp = writes + 1)
  BY <1>a, WrittenType, TextTypes DEF TypeInv, Written, Stamp
<1>3. \A u \in Thread : job'[u] = IF u = t THEN j ELSE job[u]
  BY <1>a, <1>1 DEF Goes, TypeInv, TypeOK, Thread
<1>4. /\ j.new = o /\ \A q \in Path : j.listing[q] = Absent
      /\ \A q \in Note : j.got[q] = Absent
  BY DEF Resting, Nothing
<1> HIDE DEF j, o
<1>n. o # Absent =>
        /\ \A q \in Path : store[q] # o
        /\ \A q \in Note : row[q] # Absent => row[q].version # o
        /\ \A u \in Thread : job[u].new # o /\ \A q \in Path : job[u].listing[q] # o
  BY <1>2, NewIsNowhere
<1>5. Counted'
  <2>1. \A q \in Stored : q # Absent /\ q.stamp <= writes => q.stamp <= writes'
    BY <1>a, <1>b, ObjectStamp, Holdings
  <2>2. o # Absent => o.stamp <= writes'
    BY <1>a, <1>b, <1>2, Holdings
  <2>3. Object \subseteq Stored
    BY DEF Stored
  <2>4. \A u \in Thread :
          /\ job'[u].new # Absent => job'[u].new.stamp <= writes'
          /\ \A q \in Path : job'[u].listing[q] # Absent => job'[u].listing[q].stamp <= writes'
    BY <1>a, <1>3, <1>4, <2>1, <2>2, Holdings DEF IInv, Held, Counted, Old
  <2>5. /\ \A q \in Path : store[q] # Absent => store[q].stamp <= writes'
        /\ \A q \in Note : row[q] # Absent /\ row[q].version # Absent => row[q].version.stamp <= writes'
    BY <1>a, <2>1, <2>3, Holdings DEF IInv, Held, Counted, Old
  <2>6. QED
    BY <1>b, <2>4, <2>5 DEF Counted, Old
<1>6. Unseen'
  <2>1. SUFFICES ASSUME NEW u \in Thread, Pending(job'[u])
                 PROVE  /\ \A q \in Path : store[q] # job'[u].new
                        /\ \A q \in Note : row[q] # Absent => row[q].version # job'[u].new
                        /\ \A v \in Thread : \A q \in Path : job'[v].listing[q] # job'[u].new
                        /\ \A v \in Thread : v # u => job'[v].new # job'[u].new
    BY <1>b DEF Unseen, Pending
  <2>2. job'[u].new # Absent
    BY <2>1 DEF Pending
  <2>3. CASE u = t
    BY <1>3, <1>4, <1>n, <2>2, <2>3
  <2>4. CASE u # t
    BY <1>3, <1>4, <1>n, <2>1, <2>2, <2>4 DEF IInv, Held, Unseen
  <2>5. QED
    BY <2>3, <2>4
<1>7. FetchedTrue' /\ RowTrue'
  BY <1>b, <1>3, <1>4 DEF IInv, Held, FetchedTrue, RowTrue
<1>8. QED
  BY <1>5, <1>6, <1>7 DEF Held

(* And stores it where nobody has listed it before. *)
LEMMA StoreHeld ==
  ASSUME IInv, NEW t \in Thread, Store(t)
  PROVE  Held'
<1>a. TypeInv /\ job[t] \in Job /\ Shape(job[t])
  BY AtWork DEF IInv
<1> DEFINE o == job[t].new
           f == [job EXCEPT ![t].pc = "reindex"]
<1>b. row' = row /\ writes' = writes /\ store' = [store EXCEPT ![job[t].at] = o]
  BY DEF Store, Stores
<1>1. job[t].at \in Path /\ (o # Absent => Pending(job[t]))
  BY <1>a DEF Store, Shape, Pending, Path
<1>2. \A q \in Path : store'[q] = IF q = job[t].at THEN o ELSE store[q]
  BY <1>a, <1>b, <1>1 DEF TypeInv, TypeOK
<1>3. \A u \in Thread : /\ job'[u].new = job[u].new /\ job'[u].listing = job[u].listing
                        /\ job'[u].got = job[u].got /\ (Pending(job'[u]) => Pending(job[u]))
                        /\ ~Pending(job'[t])
  <2>1. \A u \in Thread : job[u] \in Job /\ f[u] \in Job
    BY <1>a, AtWork DEF Job, PC, TypeInv, TypeOK, Thread
  <2>2. \A u \in Thread : f[u] = IF u = t THEN [job[t] EXCEPT !.pc = "reindex"] ELSE job[u]
    BY <1>a DEF TypeInv, TypeOK, Thread
  <2>3. job' = Forgotten(job[t].at, f) /\ f \in [Thread -> Job]
    BY <1>a, <2>1, AtWork DEF Store, TypeInv, TypeOK, Thread
  <2>4. \A u \in Thread : /\ f[u].new = job[u].new /\ f[u].listing = job[u].listing
                          /\ f[u].got = job[u].got /\ f[u].at = job[u].at
                          /\ f[u].pc = IF u = t THEN "reindex" ELSE job[u].pc
    <3> HIDE DEF f
    <3> QED BY <2>1, <2>2 DEF Job
  <2>5. \A u \in Thread : /\ job'[u].new = job[u].new /\ job'[u].listing = job[u].listing
                          /\ job'[u].got = job[u].got /\ job'[u].at = job[u].at
                          /\ job'[u].pc = IF u = t THEN "reindex" ELSE job[u].pc
    <3> HIDE DEF f
    <3> QED BY <2>3, <2>4, OnlyForgets
  <2>6. QED
    BY <2>5 DEF Pending
<1>n. o # Absent =>
        /\ \A q \in Note : row[q] # Absent => row[q].version # o
        /\ \A u \in Thread : \A q \in Path : job[u].listing[q] # o
        /\ \A u \in Thread : u # t => job[u].new # o
  BY <1>1 DEF IInv, Held, Unseen
<1>4. Counted'
  BY <1>b, <1>2, <1>3 DEF IInv, Held, Counted, Old
<1>5. Unseen'
  <2>1. SUFFICES ASSUME NEW u \in Thread, Pending(job'[u])
                 PROVE  /\ \A q \in Path : store'[q] # job[u].new
                        /\ \A q \in Note : row[q] # Absent => row[q].version # job[u].new
                        /\ \A v \in Thread : \A q \in Path : job[v].listing[q] # job[u].new
                        /\ \A v \in Thread : v # u => job[v].new # job[u].new
    BY <1>b, <1>3 DEF Unseen, Pending
  <2>2. Pending(job[u]) /\ u # t /\ job[u].new # Absent
    BY <1>3, <2>1 DEF Pending
  <2>3. QED
    BY <1>2, <2>2 DEF IInv, Held, Unseen
<1>6. FetchedTrue'
  <2>1. SUFFICES ASSUME NEW u \in Thread, NEW q \in Note,
                        job[u].got[q] # Absent, job[u].listing[q] = store'[q]
                 PROVE  job[u].got[q] = store'[q]
    BY <1>3 DEF FetchedTrue
  <2>2. q \in Path /\ job[u].listing[q] # Absent
    BY <1>a, <2>1, Holdings DEF Path
  <2>3. store'[q] = store[q]
    BY <1>2, <1>n, <2>1, <2>2
  <2>4. QED
    BY <2>1, <2>3 DEF IInv, Held, FetchedTrue
<1>7. RowTrue'
  <2>1. SUFFICES ASSUME NEW q \in Note, row[q] # Absent, row[q].version = store'[q]
                 PROVE  row[q].text = store'[q]
    BY <1>b DEF RowTrue
  <2>2. q \in Path /\ row[q].version # Absent
    BY <1>a, <2>1, Holdings DEF Path, VaultIndexAssumption
  <2>3. store'[q] = store[q]
    BY <1>2, <1>n, <2>1, <2>2
  <2>4. QED
    BY <2>1, <2>3 DEF IInv, Held, RowTrue
<1>8. QED
  BY <1>4, <1>5, <1>6, <1>7 DEF Held

(* The row of what this call stored is that text in that version. *)
LEMMA ReindexHeld ==
  ASSUME IInv, NEW t \in Thread, Reindex(t)
  PROVE  Held'
<1>a. TypeInv /\ job[t] \in Job /\ Shape(job[t])
  BY AtWork DEF IInv
<1> DEFINE p == job[t].at
           o == job[t].new
<1>b. store' = store /\ writes' = writes /\ p \in Note
  BY <1>a DEF Reindex, Shape
<1>1. \A u \in Thread : Tamed(job[u], job'[u])
  BY <1>a, TamedResting, GoesTamed DEF Reindex, Returns
<1>2. \A q \in Note : \/ row'[q] = row[q]
                      \/ q = p /\ row'[q] = Absent
                      \/ q = p /\ o # Absent /\ row'[q].text = o /\ row'[q].version = o
  BY <1>a, <1>b DEF Reindex, TypeInv, TypeOK
<1>3. \A q \in Note : row'[q] # Absent =>
        \/ row[q] # Absent /\ row'[q].version = row[q].version
        \/ row'[q].version = o
  BY <1>2
<1>4. job[t].pc = "reindex"
  BY DEF Reindex
<1>5. Counted'
  <2>1. \A q \in Note : row'[q] # Absent /\ row'[q].version # Absent => row'[q].version.stamp <= writes
    BY <1>3 DEF IInv, Held, Counted, Old
  <2>2. \A u \in Thread :
          /\ job'[u].new # Absent => job'[u].new.stamp <= writes
          /\ \A q \in Path : job'[u].listing[q] # Absent => job'[u].listing[q].stamp <= writes
    BY <1>1 DEF Tamed, IInv, Held, Counted, Old
  <2>3. QED
    BY <1>b, <2>1, <2>2 DEF Counted, Old, IInv, Held
<1>6. Unseen'
  <2>1. SUFFICES ASSUME NEW u \in Thread, Pending(job'[u])
                 PROVE  /\ \A q \in Path : store[q] # job'[u].new
                        /\ \A q \in Note : row'[q] # Absent => row'[q].version # job'[u].new
                        /\ \A v \in Thread : \A q \in Path : job'[v].listing[q] # job'[u].new
                        /\ \A v \in Thread : v # u => job'[v].new # job'[u].new
    BY <1>b DEF Unseen, Pending
  <2>2. Pending(job[u]) /\ job'[u].new = job[u].new /\ job[u].new # Absent /\ u # t
    BY <1>1, <1>4, <2>1 DEF Tamed, Pending
  <2>3. \A q \in Note : row'[q] # Absent => row'[q].version # job'[u].new
    BY <1>3, <2>2 DEF IInv, Held, Unseen
  <2>4. QED
    BY <1>1, <2>2, <2>3 DEF IInv, Held, Unseen, Tamed
<1>7. FetchedTrue'
  BY <1>b, <1>1 DEF IInv, Held, FetchedTrue, Tamed
<1>8. RowTrue'
  BY <1>b, <1>2 DEF IInv, Held, RowTrue
<1>9. QED
  BY <1>5, <1>6, <1>7, <1>8 DEF Held

(* The writes of WebDAV, of the layout page and of other servers. *)
LEMMA WriteHeld ==
  ASSUME ~Digests, IInv, NEW t \in Thread, Upload(t) \/ SwitchLayout(t)
  PROVE  Held'
<1>a. TypeInv /\ job \in [Thread -> Job]
  BY DEF IInv, TypeInv, TypeOK, Thread
<1>b. row' = row /\ writes' = writes + 1
  BY DEF Upload, SwitchLayout
<1>1. PICK p \in Path, b \in Body \cup {Absent}, j \in Job :
        /\ Stores(p, Written(b))
        /\ job' = Forgotten(p, [job EXCEPT ![t] = j])
        /\ j.new \in {Written(b), Absent} /\ ~Pending(j)
        /\ \A q \in Path : j.listing[q] = Absent
        /\ \A q \in Note : j.got[q] = Absent
  <2>1. CASE Upload(t)
    <3>1. PICK p \in Path, b \in Body \cup {Absent} :
            /\ Stores(p, Written(b))
            /\ job' = Forgotten(p, [job EXCEPT ![t] =
                 [Resting EXCEPT !.pc = "mark", !.at = p, !.new = Written(b)]])
      BY <2>1, TextTypes DEF Upload
    <3> DEFINE j == [Resting EXCEPT !.pc = "mark", !.at = p, !.new = Written(b)]
    <3>2. Written(b) \in Stored
      BY <1>a, WrittenType DEF TypeInv
    <3>3. j \in Job
      BY <3>2, RestingType DEF Resting, Job, PC
    <3>4. /\ j.new = Written(b) /\ ~Pending(j) /\ \A q \in Path : j.listing[q] = Absent
          /\ \A q \in Note : j.got[q] = Absent
      BY DEF Resting, Pending, Nothing
    <3> HIDE DEF j
    <3>5. QED
      BY <3>1, <3>3, <3>4 DEF j
  <2>2. CASE SwitchLayout(t)
    <3>1. PICK b \in Body \cup {Absent} :
            /\ Stores(Schema, Written(b))
            /\ job' = Forgotten(Schema, [job EXCEPT ![t] = [Resting EXCEPT !.pc = "load"]])
      BY <2>2 DEF SwitchLayout, VaultIndexAssumption
    <3> DEFINE j == [Resting EXCEPT !.pc = "load"]
    <3>2. j \in Job /\ Schema \in Path
      BY RestingType DEF Resting, Job, PC, Path
    <3>3. /\ j.new = Absent /\ ~Pending(j) /\ \A q \in Path : j.listing[q] = Absent
          /\ \A q \in Note : j.got[q] = Absent
      BY DEF Resting, Pending, Nothing
    <3> HIDE DEF j
    <3>4. QED
      BY <3>1, <3>2, <3>3 DEF j
  <2>3. QED
    BY <2>1, <2>2
<1>2. Written(b) \in Stored /\ (Written(b) # Absent => Written(b).stamp = writes + 1)
  BY <1>a, WrittenType DEF TypeInv, Written, Stamp
<1>3. \A u \in Thread : /\ job'[u].new = (IF u = t THEN j ELSE job[u]).new
                        /\ job'[u].listing = (IF u = t THEN j ELSE job[u]).listing
                        /\ job'[u].got = (IF u = t THEN j ELSE job[u]).got
                        /\ Pending(job'[u]) <=> Pending(IF u = t THEN j ELSE job[u])
  <2> DEFINE f == [job EXCEPT ![t] = j]
  <2>1. f \in [Thread -> Job] /\ \A u \in Thread : f[u] = IF u = t THEN j ELSE job[u]
    BY <1>a
  <2>2. job' = Forgotten(p, f)
    BY <1>1
  <2> HIDE DEF f
  <2>3. \A u \in Thread : /\ job'[u].new = f[u].new /\ job'[u].listing = f[u].listing
                          /\ job'[u].got = f[u].got /\ (Pending(job'[u]) <=> Pending(f[u]))
    BY <2>1, <2>2, OnlyForgets DEF Pending
  <2>4. QED
    BY <2>1, <2>3
<1>4. store' = [store EXCEPT ![p] = Written(b)]
  BY <1>1 DEF Stores
<1>5. ASSUME NEW u \in Thread
      PROVE  /\ job'[u].new \in {job[u].new, Absent, Written(b)}
             /\ Pending(job'[u]) => Pending(job[u]) /\ job'[u].new = job[u].new
             /\ \A q \in Path : job'[u].listing[q] \in {job[u].listing[q], Absent}
             /\ \A q \in Note : job'[u].got[q] # Absent =>
                  job'[u].got[q] = job[u].got[q] /\ job'[u].listing[q] = job[u].listing[q]
  <2>1. CASE u = t
    BY <1>1, <1>3, <2>1
  <2>2. CASE u # t
    BY <1>3, <2>2
  <2>3. QED
    BY <2>1, <2>2
<1>6. QED
  BY <1>b, <1>2, <1>4, <1>5, NewWrite

LEMMA ElsewhereHeld ==
  ASSUME ~Digests, IInv, Elsewhere
  PROVE  Held'
<1>a. TypeInv /\ job \in [Thread -> Job]
  BY DEF IInv, TypeInv, TypeOK, Thread
<1>b. row' = row /\ writes' = writes + 1
  BY DEF Elsewhere
<1>1. PICK p \in Path, b \in Body \cup {Absent} :
        Stores(p, Written(b)) /\ job' = Forgotten(p, job)
  BY TextTypes DEF Elsewhere
<1>2. Written(b) \in Stored /\ (Written(b) # Absent => Written(b).stamp = writes + 1)
  BY <1>a, WrittenType DEF TypeInv, Written, Stamp
<1>3. \A u \in Thread : Tamed(job[u], job'[u])
  BY <1>a, <1>1, TamedSame, TamedForgotten
<1>4. \A u \in Thread : Pending(job'[u]) => job'[u].new = job[u].new
  BY <1>3 DEF Tamed, Pending
<1>5. store' = [store EXCEPT ![p] = Written(b)]
  BY <1>1 DEF Stores
<1>6. QED
  BY <1>b, <1>2, <1>3, <1>4, <1>5, NewWrite DEF Tamed

LEMMA OtherHeld ==
  ASSUME IInv, Tick \/ Restart \/ UNCHANGED vars
  PROVE  Held'
<1>1. store' = store /\ writes' = writes
  BY DEF Tick, Restart, vars
<1>2. \A p \in Note : row'[p] \in {row[p], Absent}
  BY DEF Tick, Restart, vars
<1>3. \A u \in Thread : Tamed(job[u], job'[u])
  BY TamedSame, TamedResting DEF Tick, Restart, vars, Thread
<1>4. QED
  BY <1>1, <1>2, <1>3, QuietStep

LEMMA IndexStep == ~Digests /\ IInv /\ [Next]_vars => IInv'
<1> SUFFICES ASSUME ~Digests, IInv, [Next]_vars PROVE Held'
  BY TypeStep DEF IInv
<1>1. ASSUME NEW t \in Tool, Search(t) \/ Edit(t) PROVE Held'
  BY <1>1, QuietActions, EditHeld DEF Thread
<1>2. ASSUME NEW t \in Web, Upload(t) \/ SwitchLayout(t) PROVE Held'
  BY <1>2, WriteHeld DEF Thread
<1>3. ASSUME NEW t \in Thread, Continue(t) PROVE Held'
  BY <1>3, QuietActions, ListHeld, FetchHeld, UpsertHeld, AdoptHeld, StoreHeld, ReindexHeld DEF Continue
<1>4. QED
  BY <1>1, <1>2, <1>3, ElsewhereHeld, OtherHeld DEF Next, Thread

(* Where every write has a version of its own, a row with the version of   *)
(* the stored note has its text, so no sync takes for known what the index *)
(* has not read: for any number of threads, notes, writes, failed requests *)
(* and restarts, syncs overlapping at will (Index.sync, Index._fetch,      *)
(* Index.upsert).                                                          *)
THEOREM RowsTrue == ~Digests => (Spec => []RowTrue)
<1> SUFFICES ASSUME ~Digests PROVE Spec => []RowTrue
  OBVIOUS
<1>1. Init => IInv
  BY TypeInit, HeldInit DEF IInv
<1>2. IInv /\ [Next]_vars => IInv'
  BY IndexStep
<1>3. IInv => RowTrue
  BY DEF IInv, Held
<1>4. QED
  BY <1>1, <1>2, <1>3, PTL DEF Spec

-----------------------------------------------------------------------------
(* One thread that runs tool calls.  A note that an answered write left as *)
(* it is has its row, or the flag is up, or the sync under way has listed  *)
(* the note as it is and is yet to read it or to write its row.            *)
OneTool == ~Digests /\ ~Pages /\ \E t : Tool = {t}

Shown(p) == IF store[p] = Absent THEN row[p] = Absent ELSE row[p] # Absent /\ row[p].text = store[p]

Kept(t, p) ==
  /\ job[t].pc \in {"compare", "apply"} => job[t].listing[p] = store[p]
  /\ job[t].pc = "reindex" => job[t].at # p
  /\ \/ Shown(p)
     \/ job[t].pc = "list" /\ job[t].force
     \/ job[t].pc = "compare"
     \/ job[t].pc = "apply" /\ (p \in job[t].gone \/ p \in job[t].fetch \/ job[t].got[p] # Absent)

Tracked(t, p) ==
  /\ p \in due => stale \/ Kept(t, p)
  /\ p \in job[t].owes => (job[t].pc = "sync" /\ stale) \/ Kept(t, p)

Followed(t) == failures = 0 /\ listed => \A p \in Note : Tracked(t, p)

(* Nobody closes the index under the thread, and what it drops was not listed. *)
Whole(j) == ~j.old /\ (j.pc # "apply" => j.gone = {}) /\ \A p \in j.gone : j.listing[p] = Absent

Alone ==
  /\ \A w \in Web : job[w].pc \in {"idle", "mark"}
  /\ \A t \in Tool : Whole(job[t])

ShownIInv == IInv /\ Alone /\ \A t \in Tool : Followed(t)

LEMMA ToolGoes ==
  ASSUME TypeInv, Alone, NEW t \in Tool, \A u \in Tool : u = t, NEW j, Goes(t, j), Whole(j)
  PROVE  job'[t] = j /\ Alone'
<1>1. job'[t] = j /\ \A w \in Web : job'[w] = job[w]
  BY DEF Goes, TypeInv, TypeOK, VaultIndexAssumption
<1>2. QED
  BY <1>1 DEF Alone

LEMMA WholeResting == Whole(Resting) /\ Resting.pc = "idle" /\ Resting.owes = {}
BY DEF Whole, Resting

(* The step of a call that returns with every note owed shown. *)
LEMMA ToolReturns ==
  ASSUME TypeInv, Alone, NEW t \in Tool, \A u \in Tool : u = t, Returns(t)
  PROVE  /\ job'[t] = Resting /\ Alone'
         /\ \A p \in Note : (p \in due' => stale' \/ Shown(p)') => Tracked(t, p)'
<1>1. job'[t] = Resting /\ Alone'
  BY WholeResting, ToolGoes DEF Returns
<1>2. job'[t].pc = "idle" /\ job'[t].owes = {}
  BY <1>1, WholeResting
<1>3. QED
  BY <1>1, <1>2 DEF Tracked, Kept

LEMMA BeginFollowed ==
  ASSUME IInv, Alone, NEW t \in Tool, \A u \in Tool : u = t, Followed(t), Search(t) \/ Edit(t)
  PROVE  Alone' /\ Followed(t)'
<1>1. PICK j : Goes(t, j) /\ j.pc = "sync" /\ j.owes = due /\ Whole(j)
  <2>1. CASE Search(t)
    <3> DEFINE j == [Resting EXCEPT !.pc = "sync", !.owes = due]
    <3>1. Goes(t, j)
      BY <2>1 DEF Search
    <3>2. j.pc = "sync" /\ j.owes = due /\ Whole(j)
      BY DEF Whole, Resting
    <3>3. QED
      BY <3>1, <3>2
  <2>2. CASE Edit(t)
    <3>1. PICK q \in Note, b \in NoteTexts :
            Goes(t, [Resting EXCEPT !.pc = "sync", !.owes = due, !.at = q, !.new = Written(b)])
      BY <2>2 DEF Edit
    <3> DEFINE j == [Resting EXCEPT !.pc = "sync", !.owes = due, !.at = q, !.new = Written(b)]
    <3>2. j.pc = "sync" /\ j.owes = due /\ Whole(j)
      BY DEF Whole, Resting
    <3>3. QED
      BY <3>1, <3>2
  <2>3. QED
    BY <2>1, <2>2
<1>2. job'[t] = j /\ Alone'
  BY <1>1, ToolGoes DEF IInv
<1>3. job[t].pc = "idle" /\ UNCHANGED <<store, row, due, stale, failures>> /\ (listed' => listed)
  BY DEF Search, Edit
<1>4. ASSUME failures = 0, listed, NEW p \in Note PROVE Tracked(t, p)'
  <2>1. p \in due => stale \/ Shown(p)
    BY <1>3, <1>4 DEF Followed, Tracked, Kept
  <2>2. Shown(p)' = Shown(p)
    BY <1>3 DEF Shown
  <2>3. QED
    BY <1>1, <1>2, <1>3, <2>1, <2>2 DEF Tracked, Kept
<1>5. QED
  BY <1>2, <1>3, <1>4 DEF Followed

(* The job of a step that leaves store, rows and debts alone. *)
LEMMA QuietFollowed ==
  ASSUME IInv, Alone, NEW t \in Tool, \A u \in Tool : u = t, Followed(t),
         NEW j, Goes(t, j), Whole(j), j.owes = job[t].owes, UNCHANGED <<store, due, failures, listed>>,
         \A p \in Note : /\ p \in due /\ (stale \/ Kept(t, p)) => stale' \/ (job'[t] = j => Kept(t, p)')
                         /\ p \in job[t].owes /\ ((job[t].pc = "sync" /\ stale) \/ Kept(t, p))
                            => (j.pc = "sync" /\ stale') \/ (job'[t] = j => Kept(t, p)')
  PROVE  Alone' /\ Followed(t)'
<1>1. job'[t] = j /\ Alone'
  BY ToolGoes DEF IInv
<1>2. ASSUME failures = 0, listed, NEW p \in Note PROVE Tracked(t, p)'
  <2>1. Tracked(t, p)
    BY <1>2 DEF Followed
  <2>2. QED
    BY <1>1, <2>1 DEF Tracked
<1>3. QED
  BY <1>1, <1>2 DEF Followed

LEMMA SyncFollowed ==
  ASSUME IInv, Alone, NEW t \in Tool, \A u \in Tool : u = t, Followed(t),
         Sync(t) \/ Throttled(t) \/ ListAll(t) \/ Compare(t)
  PROVE  Alone' /\ Followed(t)'
<1>a. job[t] \in Job /\ Whole(job[t]) /\ TypeInv
  BY AtWork DEF IInv, Alone, Thread
<1>1. CASE Sync(t)
  <2> DEFINE j == [job[t] EXCEPT !.pc = "list", !.force = stale, !.lang = index.lang]
  <2>1. Goes(t, j) /\ job[t].pc = "sync" /\ stale' = FALSE /\ UNCHANGED <<store, row, due, failures, listed>>
    BY <1>1 DEF Sync
  <2>2. j.pc = "list" /\ j.force = stale /\ j.owes = job[t].owes /\ Whole(j)
    BY <1>a, <2>1 DEF Job, Whole
  <2> HIDE DEF j
  <2>3. ASSUME NEW p \in Note, job'[t] = j, stale \/ Kept(t, p) PROVE Kept(t, p)'
    BY <2>1, <2>2, <2>3 DEF Kept, Shown
  <2>4. QED
    BY <2>1, <2>2, <2>3, QuietFollowed
<1>2. CASE Throttled(t)
  <2> DEFINE j == Synced(t, "schema")
  <2>1. Goes(t, j) /\ job[t].pc = "list" /\ ~job[t].force /\ UNCHANGED <<store, row, due, stale, failures, listed>>
    BY <1>2 DEF Throttled
  <2>2. j.pc = "schema" /\ j.owes = job[t].owes /\ Whole(j)
    BY <1>a, <2>1 DEF Job, Whole, Synced
  <2> HIDE DEF j
  <2>3. ASSUME NEW p \in Note, job'[t] = j, Kept(t, p) PROVE Kept(t, p)'
    BY <2>1, <2>2, <2>3 DEF Kept, Shown
  <2>4. QED
    BY <2>1, <2>2, <2>3, QuietFollowed
<1>3. CASE ListAll(t)
  <2> DEFINE j == [job[t] EXCEPT !.pc = "compare", !.listing = store]
  <2>1. Goes(t, j) /\ job[t].pc = "list" /\ UNCHANGED <<store, row, due, stale, failures>>
    BY <1>3 DEF ListAll
  <2>2. j.pc = "compare" /\ j.listing = store /\ j.owes = job[t].owes /\ Whole(j)
    BY <1>a, <2>1 DEF Job, Whole
  <2> HIDE DEF j
  <2>3. ASSUME NEW p \in Note, job'[t] = j PROVE Kept(t, p)'
    BY <2>1, <2>2, <2>3 DEF Kept, Shown
  <2>4. job'[t] = j /\ Alone'
    BY <1>a, <2>1, <2>2, ToolGoes
  <2>5. QED
    BY <2>3, <2>4 DEF Followed, Tracked
<1>4. CASE Compare(t)
  <2> DEFINE list == job[t].listing
             known(p) == IF row[p] = Absent THEN Absent ELSE row[p].version
             away == {p \in Note : row[p] # Absent /\ list[p] = Absent}
             new == {p \in Note : list[p] # Absent /\ known(p) # list[p]}
             j == [job[t] EXCEPT !.pc = "apply", !.gone = away, !.fetch = new]
  <2>1. Goes(t, j) /\ job[t].pc = "compare" /\ UNCHANGED <<store, row, due, stale, failures, listed>>
    BY <1>4 DEF Compare
  <2>2. /\ j.pc = "apply" /\ j.listing = job[t].listing /\ j.owes = job[t].owes /\ Whole(j)
        /\ j.gone = away /\ j.fetch = new
    BY <1>a, <2>1 DEF Job, Whole
  <2> HIDE DEF j
  <2>3. ASSUME NEW p \in Note, job'[t] = j, Kept(t, p) PROVE Kept(t, p)'
    <3>1. list[p] = store[p]
      BY <2>1, <2>3 DEF Kept
    <3>2. p \in away \/ p \in new \/ Shown(p)
      BY <3>1 DEF Shown, IInv, Held, RowTrue
    <3>3. Shown(p)' = Shown(p)
      BY <2>1 DEF Shown
    <3>4. QED
      BY <2>1, <2>2, <2>3, <3>1, <3>2, <3>3 DEF Kept
  <2>4. QED
    BY <2>1, <2>2, <2>3, QuietFollowed
<1>5. QED
  BY <1>1, <1>2, <1>3, <1>4

LEMMA ApplyFollowed ==
  ASSUME IInv, Alone, NEW t \in Tool, \A u \in Tool : u = t, Followed(t),
         DropRow(t) \/ Fetch(t) \/ Upsert(t) \/ Finish(t)
  PROVE  Alone' /\ Followed(t)'
<1>a. job[t] \in Job /\ Whole(job[t]) /\ TypeInv /\ Shape(job[t]) /\ row \in [Note -> Row \cup {Absent}]
  BY AtWork DEF IInv, Alone, Thread, TypeInv, TypeOK
<1>b. job[t].pc = "apply" /\ UNCHANGED <<store, due, stale, failures, listed>>
  BY DEF DropRow, Fetch, Upsert, Finish
<1>1. CASE DropRow(t)
  <2>1. PICK q \in job[t].gone : row' = [row EXCEPT ![q] = Absent] /\ Goes(t, [job[t] EXCEPT !.gone = @ \ {q}])
    BY <1>1 DEF DropRow
  <2> DEFINE j == [job[t] EXCEPT !.gone = @ \ {q}]
  <2>2. /\ j.pc = "apply" /\ j.listing = job[t].listing /\ j.owes = job[t].owes /\ Whole(j)
        /\ j.gone = job[t].gone \ {q} /\ j.fetch = job[t].fetch /\ j.got = job[t].got
    BY <1>a, <1>b DEF Job, Whole
  <2>3. Goes(t, j)
    BY <2>1
  <2> HIDE DEF j
  <2>4. ASSUME NEW p \in Note, job'[t] = j, Kept(t, p) PROVE Kept(t, p)'
    <3>1. job[t].listing[p] = store[p]
      BY <1>b, <2>4 DEF Kept
    <3>2. CASE p = q
      <4>1. store[p] = Absent /\ row'[p] = Absent
        BY <1>a, <2>1, <3>1, <3>2 DEF Whole
      <4>2. Shown(p)'
        BY <1>b, <4>1 DEF Shown
      <4>3. QED
        BY <1>b, <2>2, <2>4, <3>1, <4>2 DEF Kept
    <3>3. CASE p # q
      <4>1. Shown(p)' = Shown(p)
        BY <1>a, <1>b, <2>1, <3>3 DEF Shown
      <4>2. QED
        BY <1>b, <2>2, <2>4, <3>1, <3>3, <4>1 DEF Kept
    <3>4. QED
      BY <3>2, <3>3
  <2>5. QED
    BY <1>b, <2>2, <2>3, <2>4, QuietFollowed
<1>2. CASE Fetch(t)
  <2>0. row' = row
    BY <1>2 DEF Fetch
  <2>1. PICK q \in job[t].fetch : Goes(t, [job[t] EXCEPT !.fetch = @ \ {q}, !.got[q] = store[q]])
    BY <1>2 DEF Fetch
  <2> DEFINE j == [job[t] EXCEPT !.fetch = @ \ {q}, !.got[q] = store[q]]
  <2>2. /\ j.pc = "apply" /\ j.listing = job[t].listing /\ j.owes = job[t].owes /\ Whole(j)
        /\ j.gone = job[t].gone /\ j.fetch = job[t].fetch \ {q} /\ j.got = [job[t].got EXCEPT ![q] = store[q]]
    BY <1>a, <1>b DEF Job, Whole
  <2>3. Goes(t, j) /\ q \in Note /\ job[t].got \in [Note -> Stored]
    BY <1>a, <2>1 DEF Job
  <2> HIDE DEF j
  <2>4. ASSUME NEW p \in Note, job'[t] = j, Kept(t, p) PROVE Kept(t, p)'
    <3>1. job[t].listing[p] = store[p]
      BY <1>b, <2>4 DEF Kept
    <3>2. Shown(p)' = Shown(p)
      BY <1>b, <2>0 DEF Shown
    <3>3. p = q => j.got[p] # Absent
      BY <1>a, <2>2, <2>3, <3>1 DEF Shape
    <3>4. p # q => j.got[p] = job[t].got[p] /\ (p \in job[t].fetch => p \in j.fetch)
      BY <2>2, <2>3
    <3>5. QED
      BY <1>b, <2>2, <2>4, <3>1, <3>2, <3>3, <3>4 DEF Kept
  <2>5. QED
    BY <1>b, <2>2, <2>3, <2>4, QuietFollowed
<1>3. CASE Upsert(t)
  <2>1. PICK q \in Got(t) :
          /\ row' = [row EXCEPT ![q] = [text |-> job[t].got[q], lang |-> job[t].lang, version |-> job[t].listing[q]]]
          /\ Goes(t, [job[t] EXCEPT !.got[q] = Absent])
    BY <1>3 DEF Upsert
  <2> DEFINE j == [job[t] EXCEPT !.got[q] = Absent]
             new == [text |-> job[t].got[q], lang |-> job[t].lang, version |-> job[t].listing[q]]
  <2>2. /\ j.pc = "apply" /\ j.listing = job[t].listing /\ j.owes = job[t].owes /\ Whole(j)
        /\ j.gone = job[t].gone /\ j.fetch = job[t].fetch /\ j.got = [job[t].got EXCEPT ![q] = Absent]
    BY <1>a, <1>b DEF Job, Whole
  <2>3. Goes(t, j) /\ q \in Note /\ job[t].got[q] # Absent /\ job[t].got \in [Note -> Stored]
    BY <1>a, <2>1 DEF Job, Got
  <2>4. new.text = job[t].got[q] /\ (job[t].listing[q] # Absent => new # Absent)
    <3>1. job[t].listing[q] # Absent => new \in Row
      BY <1>a, <2>3 DEF Job, Row, Stored, Path
    <3>2. QED
      BY <3>1 DEF VaultIndexAssumption
  <2> HIDE DEF j
  <2>5. ASSUME NEW p \in Note, job'[t] = j, Kept(t, p) PROVE Kept(t, p)'
    <3>1. job[t].listing[p] = store[p]
      BY <1>b, <2>5 DEF Kept
    <3>2. CASE p = q
      <4>1. job[t].got[p] = store[p] /\ job[t].listing[q] # Absent
        BY <1>a, <2>3, <3>1, <3>2 DEF IInv, Held, FetchedTrue, Thread, Shape
      <4>2. row'[p] = new
        BY <1>a, <2>1, <2>3, <3>2
      <4>3. Shown(p)'
        BY <1>b, <2>3, <2>4, <3>2, <4>1, <4>2 DEF Shown
      <4>4. QED
        BY <1>b, <2>2, <2>5, <3>1, <4>3 DEF Kept
    <3>3. CASE p # q
      <4>1. Shown(p)' = Shown(p)
        BY <1>a, <1>b, <2>1, <2>3, <3>3 DEF Shown
      <4>2. j.got[p] = job[t].got[p]
        BY <2>2, <2>3, <3>3
      <4>3. QED
        BY <1>b, <2>2, <2>5, <3>1, <4>1, <4>2 DEF Kept
    <3>4. QED
      BY <3>2, <3>3
  <2>6. QED
    BY <1>b, <2>2, <2>3, <2>5, QuietFollowed
<1>4. CASE Finish(t)
  <2> DEFINE j == Synced(t, IF job[t].rebuilds THEN "settle" ELSE "schema")
  <2>1. Goes(t, j) /\ row' = row /\ job[t].gone = {} /\ job[t].fetch = {} /\ Got(t) = {}
    BY <1>4 DEF Finish
  <2>2. j.pc \in {"settle", "schema"} /\ j.owes = job[t].owes /\ Whole(j)
    BY <1>a, <2>1 DEF Job, Whole, Synced
  <2> HIDE DEF j
  <2>3. ASSUME NEW p \in Note, job'[t] = j, Kept(t, p) PROVE Kept(t, p)'
    <3>1. Shown(p) /\ Shown(p)' = Shown(p)
      BY <1>b, <2>1, <2>3 DEF Kept, Shown, Got
    <3>2. QED
      BY <2>2, <2>3, <3>1 DEF Kept
  <2>4. QED
    BY <1>b, <2>1, <2>2, <2>3, QuietFollowed
<1>5. QED
  BY <1>1, <1>2, <1>3, <1>4

LEMMA SchemaFollowed ==
  ASSUME IInv, Alone, NEW t \in Tool, \A u \in Tool : u = t, Followed(t),
         CheckSchema(t) \/ Load(t) \/ Settle(t) \/ Adopt(t)
  PROVE  Alone' /\ Followed(t)'
<1>a. job[t] \in Job /\ Whole(job[t]) /\ TypeInv
  BY AtWork DEF IInv, Alone, Thread
<1>b. UNCHANGED <<store, due, stale, failures, listed>> /\ job[t].pc \in {"schema", "load", "settle", "adopt"}
  BY DEF CheckSchema, Load, Settle, Adopt
<1>1. CASE /\ row' = row
           /\ \E j : Goes(t, j) /\ j.pc \in {"act", "load", "adopt", "settle"} /\ j.owes = job[t].owes /\ Whole(j)
  <2>1. PICK j : Goes(t, j) /\ j.pc \in {"act", "load", "adopt", "settle"} /\ j.owes = job[t].owes /\ Whole(j)
    BY <1>1
  <2>2. ASSUME NEW p \in Note, job'[t] = j, Kept(t, p) PROVE Kept(t, p)'
    BY <1>1, <1>b, <2>1, <2>2 DEF Kept, Shown
  <2>3. QED
    BY <1>b, <2>1, <2>2, QuietFollowed
<1>2. CASE CheckSchema(t)
  <2> DEFINE j == [job[t] EXCEPT !.pc = "act"]
             k == [job[t] EXCEPT !.pc = "load", !.seen = index.seen]
  <2>1. (Goes(t, j) \/ Goes(t, k)) /\ row' = row /\ job[t].pc = "schema"
    BY <1>2 DEF CheckSchema
  <2>2. j.pc = "act" /\ j.owes = job[t].owes /\ Whole(j)
    BY <1>a, <2>1 DEF Job, Whole
  <2>3. k.pc = "load" /\ k.owes = job[t].owes /\ Whole(k)
    BY <1>a, <2>1 DEF Job, Whole
  <2> HIDE DEF j, k
  <2>4. QED
    BY <1>1, <2>1, <2>2, <2>3
<1>3. CASE Load(t)
  <2> DEFINE j == [job[t] EXCEPT !.schema = store[Schema], !.pc = "adopt"]
  <2>1. Goes(t, j) /\ row' = row /\ job[t].pc = "load"
    BY <1>3 DEF Load
  <2>2. j.pc = "adopt" /\ j.owes = job[t].owes /\ Whole(j)
    BY <1>a, <2>1 DEF Job, Whole
  <2> HIDE DEF j
  <2>3. QED
    BY <1>1, <2>1, <2>2
<1>4. CASE Settle(t)
  <2> DEFINE j == [job[t] EXCEPT !.pc = "act", !.seen = Unknown, !.rebuilds = FALSE]
  <2>1. Goes(t, j) /\ row' = row /\ job[t].pc = "settle"
    BY <1>4 DEF Settle
  <2>2. j.pc = "act" /\ j.owes = job[t].owes /\ Whole(j)
    BY <1>a, <2>1 DEF Job, Whole
  <2> HIDE DEF j
  <2>3. QED
    BY <1>1, <2>1, <2>2
<1>5. CASE Adopt(t)
  <2>0. job[t].pc = "adopt"
    BY <1>5 DEF Adopt
  <2>1. CASE Languages(job[t].schema) = Languages(schema)
    <3> DEFINE j == [job[t] EXCEPT !.pc = "settle", !.schema = Absent]
    <3>1. Goes(t, j) /\ row' = row
      BY <1>5, <2>1 DEF Adopt
    <3>2. j.pc = "settle" /\ j.owes = job[t].owes /\ Whole(j)
      BY <1>a, <2>0 DEF Job, Whole
    <3> HIDE DEF j
    <3>3. QED
      BY <1>1, <3>1, <3>2
  <2>2. CASE Languages(job[t].schema) # Languages(schema)
    <3> DEFINE j == [job[t] EXCEPT !.pc = "list", !.force = TRUE, !.rebuilds = TRUE,
                                   !.lang = Languages(job[t].schema), !.schema = Absent]
    <3>1. job' = [u \in Tool \cup Web |-> IF u = t THEN j ELSE [job[u] EXCEPT !.old = @ \/ Syncing(u)]]
      BY <1>5, <2>2 DEF Adopt
    <3>2. j.pc = "list" /\ j.force = TRUE /\ j.owes = job[t].owes /\ Whole(j)
      BY <1>a, <2>0 DEF Job, Whole
    <3> HIDE DEF j
    <3>3. job'[t] = j
      BY <3>1
    <3>4. \A w \in Web : job'[w].pc = job[w].pc
      <4>1. \A w \in Web : w # t /\ job[w] \in Job
        BY AtWork DEF IInv, Thread, VaultIndexAssumption
      <4>2. \A w \in Web : job'[w] = [job[w] EXCEPT !.old = @ \/ Syncing(w)]
        BY <3>1, <4>1
      <4>3. ASSUME NEW w \in Web, NEW b PROVE [job[w] EXCEPT !.old = b].pc = job[w].pc
        BY <4>1 DEF Job
      <4>4. QED
        BY <4>2, <4>3
    <3>5. Alone'
      BY <3>2, <3>3, <3>4 DEF Alone
    <3>6. ASSUME NEW p \in Note PROVE Kept(t, p)'
      BY <3>2, <3>3 DEF Kept
    <3>7. QED
      BY <3>5, <3>6 DEF Followed, Tracked
  <2>3. QED
    BY <2>1, <2>2
<1>6. QED
  BY <1>2, <1>3, <1>4, <1>5

LEMMA AlsoForgets ==
  ASSUME NEW f \in [Thread -> Job], NEW p, NEW u \in Thread
  PROVE  /\ Forgotten(p, f)[u].owes = f[u].owes \ {p} /\ Forgotten(p, f)[u].force = f[u].force
         /\ Forgotten(p, f)[u].gone = f[u].gone /\ Forgotten(p, f)[u].fetch = f[u].fetch
         /\ Forgotten(p, f)[u].old = f[u].old
<1>1. Forgotten(p, f)[u] = [f[u] EXCEPT !.owes = @ \ {p}] /\ f[u] \in Job
  BY DEF Forgotten
<1>2. QED
  BY <1>1 DEF Job

(* A write, of whoever it is, takes what was owed of its note away. *)
LEMMA ForgetsFollowed ==
  ASSUME TypeInv, Alone, NEW t \in Tool, \A u \in Tool : u = t, Followed(t),
         NEW q \in Path, NEW o, Stores(q, o), UNCHANGED <<row, stale, failures, listed>>,
         NEW f \in [Thread -> Job], job' = Forgotten(q, f),
         \A w \in Web : f[w].pc \in {"idle", "mark"},
         \/ f[t] = job[t]
         \/ job[t].pc = "act" /\ job[t].at = q /\ f[t] = [job[t] EXCEPT !.pc = "reindex"]
  PROVE  Alone' /\ Followed(t)'
<1>0. t \in Thread /\ job[t] \in Job /\ Whole(job[t]) /\ store \in [Path -> Stored]
  BY AtWork DEF Alone, Thread, TypeInv, TypeOK
<1>1. /\ job'[t].pc = f[t].pc /\ job'[t].at = f[t].at /\ job'[t].listing = f[t].listing /\ job'[t].got = f[t].got
      /\ job'[t].owes = f[t].owes \ {q} /\ job'[t].force = f[t].force
      /\ job'[t].gone = f[t].gone /\ job'[t].fetch = f[t].fetch /\ job'[t].old = f[t].old
  BY <1>0, OnlyForgets, AlsoForgets
<1>2. /\ f[t].at = job[t].at /\ f[t].listing = job[t].listing /\ f[t].got = job[t].got /\ f[t].owes = job[t].owes
      /\ f[t].force = job[t].force /\ f[t].gone = job[t].gone /\ f[t].fetch = job[t].fetch /\ f[t].old = job[t].old
      /\ f[t].pc = job[t].pc \/ (job[t].pc = "act" /\ job[t].at = q /\ f[t].pc = "reindex")
  BY <1>0 DEF Job
<1>3. Alone'
  <2>1. \A w \in Web : job'[w].pc = f[w].pc
    <3>1. ASSUME NEW w \in Web PROVE Forgotten(q, f)[w].pc = f[w].pc
      <4>1. w \in Thread
        BY DEF Thread
      <4>2. QED
        BY <4>1, OnlyForgets
    <3>2. QED
      BY <3>1
  <2>2. Whole(job'[t])
    BY <1>0, <1>1, <1>2 DEF Whole
  <2>3. QED
    BY <2>1, <2>2 DEF Alone
<1>4. ASSUME failures = 0, listed, NEW p \in Note PROVE Tracked(t, p)'
  <2>1. Tracked(t, p)
    BY <1>4 DEF Followed
  <2>2. CASE p = q
    BY <1>1, <2>2 DEF Tracked, Stores
  <2>3. CASE p # q
    <3>1. store'[p] = store[p] /\ (p \in due' => p \in due)
      BY <1>0, <2>3 DEF Stores, Path
    <3>2. Kept(t, p) => Kept(t, p)'
      BY <1>1, <1>2, <2>3, <3>1 DEF Kept, Shown
    <3>3. p \in job'[t].owes => p \in job[t].owes
      BY <1>1, <1>2
    <3>4. job[t].pc = "sync" => job'[t].pc = "sync"
      BY <1>1, <1>2
    <3>5. QED
      BY <2>1, <3>1, <3>2, <3>3, <3>4 DEF Tracked
  <2>4. QED
    BY <2>2, <2>3
<1>5. QED
  BY <1>3, <1>4 DEF Followed

LEMMA WritesFollowed ==
  ASSUME IInv, Alone, NEW t \in Tool, \A u \in Tool : u = t, Followed(t),
         Store(t) \/ Elsewhere \/ \E w \in Web : Upload(w)
  PROVE  Alone' /\ Followed(t)'
<1>0. TypeInv /\ job \in [Thread -> Job] /\ t \in Thread /\ job[t] \in Job /\ Shape(job[t])
  BY AtWork DEF IInv, TypeInv, TypeOK, Thread
<1>1. CASE Store(t)
  <2> DEFINE k == [job[t] EXCEPT !.pc = "reindex"]
             f == [job EXCEPT ![t] = k]
  <2>1. job[t].at \in Path /\ job[t].pc = "act"
    BY <1>0, <1>1 DEF Store, Shape, Path
  <2>2. k \in Job
    BY <1>0 DEF Job, PC
  <2>3. Stores(job[t].at, job[t].new) /\ job' = Forgotten(job[t].at, f) /\ UNCHANGED <<row, stale, failures, listed>>
    BY <1>0, <1>1 DEF Store
  <2>4. f \in [Thread -> Job] /\ f[t] = [job[t] EXCEPT !.pc = "reindex"]
    BY <1>0, <2>2
  <2>5. \A w \in Web : f[w].pc \in {"idle", "mark"}
    <3>1. \A w \in Web : w # t /\ w \in Thread
      BY DEF Thread, VaultIndexAssumption
    <3> HIDE DEF k
    <3>2. QED
      BY <1>0, <3>1 DEF Alone
  <2> HIDE DEF f, k
  <2>6. QED
    BY <1>0, <2>1, <2>3, <2>4, <2>5, ForgetsFollowed
<1>2. CASE Elsewhere
  <2>1. PICK q \in Path, b \in Body \cup {Absent} : Stores(q, Written(b)) /\ job' = Forgotten(q, job)
    BY <1>2, TextTypes DEF Elsewhere
  <2>2. UNCHANGED <<row, stale, failures, listed>> /\ \A w \in Web : job[w].pc \in {"idle", "mark"}
    BY <1>2 DEF Elsewhere, Alone
  <2>3. QED
    BY <1>0, <2>1, <2>2, ForgetsFollowed
<1>3. ASSUME NEW w \in Web, Upload(w) PROVE Alone' /\ Followed(t)'
  <2>1. PICK q \in Path, b \in Body \cup {Absent} :
          /\ Stores(q, Written(b))
          /\ job' = Forgotten(q, [job EXCEPT ![w] = [Resting EXCEPT !.pc = "mark", !.at = q, !.new = Written(b)]])
    BY <1>3, TextTypes DEF Upload
  <2> DEFINE k == [Resting EXCEPT !.pc = "mark", !.at = q, !.new = Written(b)]
             f == [job EXCEPT ![w] = k]
  <2>2. Written(b) \in Stored
    BY <1>0, WrittenType DEF TypeInv
  <2>3. k \in Job /\ k.pc = "mark"
    BY <2>2, RestingType DEF Job, PC, Path
  <2>4. w # t /\ w \in Thread
    BY DEF Thread, VaultIndexAssumption
  <2>5. Stores(q, Written(b)) /\ job' = Forgotten(q, f) /\ UNCHANGED <<row, stale, failures, listed>>
    BY <1>3, <2>1 DEF Upload
  <2> HIDE DEF k
  <2>6. f \in [Thread -> Job] /\ f[t] = job[t] /\ \A v \in Web : f[v].pc \in {"idle", "mark"}
    BY <1>0, <2>3, <2>4 DEF Alone, Thread
  <2> HIDE DEF f
  <2>7. QED
    BY <1>0, <2>5, <2>6, ForgetsFollowed
<1>4. QED
  BY <1>1, <1>2, <1>3

LEMMA ReturnsFollowed ==
  ASSUME IInv, Alone, NEW t \in Tool, \A u \in Tool : u = t, Followed(t),
         Answer(t) \/ Reindex(t) \/ Mark(t)
  PROVE  Alone' /\ Followed(t)'
<1>0. TypeInv /\ row \in [Note -> Row \cup {Absent}] /\ Shape(job[t])
  BY AtWork DEF IInv, TypeInv, TypeOK, Thread
<1>1. Returns(t) /\ UNCHANGED <<store, failures, listed>>
  BY DEF Answer, Reindex, Mark
<1>2. ASSUME failures = 0, listed, NEW p \in Note, p \in due' PROVE stale' \/ Shown(p)'
  <2>1. Tracked(t, p)
    BY <1>2 DEF Followed
  <2>2. CASE Answer(t)
    BY <1>2, <2>1, <2>2 DEF Answer, Tracked, Kept, Shown
  <2>3. CASE Reindex(t)
    <3>1. job[t].pc = "reindex" /\ UNCHANGED <<store, due, stale>> /\ job[t].at \in Note
      BY <1>0, <2>3 DEF Reindex, Shape
    <3>2. stale \/ (job[t].at # p /\ Shown(p))
      BY <1>2, <2>1, <3>1 DEF Tracked, Kept
    <3>3. job[t].at # p => row'[p] = row[p]
      BY <1>0, <2>3 DEF Reindex
    <3>4. QED
      BY <3>1, <3>2, <3>3 DEF Shown
  <2>4. CASE Mark(t)
    BY <2>4 DEF Mark
  <2>5. QED
    BY <2>2, <2>3, <2>4
<1>3. Alone' /\ \A p \in Note : (p \in due' => stale' \/ Shown(p)') => Tracked(t, p)'
  BY <1>0, <1>1, ToolReturns
<1>4. QED
  BY <1>1, <1>2, <1>3 DEF Followed

LEMMA MarkFollowed ==
  ASSUME IInv, Alone, NEW t \in Tool, \A u \in Tool : u = t, Followed(t), NEW w \in Web, Mark(w)
  PROVE  Alone' /\ Followed(t)'
<1>0. TypeInv /\ job \in [Thread -> Job] /\ w # t /\ w \in Thread /\ t \in Thread
  BY DEF IInv, TypeInv, TypeOK, Thread, VaultIndexAssumption
<1>1. stale' = TRUE /\ UNCHANGED <<store, row, failures, listed>> /\ job' = [job EXCEPT ![w] = Resting]
  BY DEF Mark, Returns, Goes
<1>2. job'[t] = job[t] /\ \A v \in Thread : job'[v] \in {job[v], Resting}
  BY <1>0, <1>1
<1>3. Alone'
  <2>1. \A u \in Tool : job'[u] = job[u]
    BY <1>2
  <2>2. QED
    BY <1>2, <2>1, WholeResting DEF Alone, Thread
<1>4. ASSUME failures = 0, listed, NEW p \in Note PROVE Tracked(t, p)'
  <2>1. Tracked(t, p)
    BY <1>4 DEF Followed
  <2>2. Kept(t, p) => Kept(t, p)'
    BY <1>1, <1>2 DEF Kept, Shown
  <2>3. QED
    BY <1>1, <1>2, <2>1, <2>2 DEF Tracked
<1>5. QED
  BY <1>1, <1>3, <1>4 DEF Followed

LEMMA OthersFollowed ==
  ASSUME IInv, Alone, NEW t \in Tool, \A u \in Tool : u = t, Followed(t),
         ListFails(t) \/ FetchFails(t) \/ Breaks(t) \/ Tick \/ Restart \/ UNCHANGED vars
  PROVE  Alone' /\ Followed(t)'
<1>0. TypeInv /\ job[t] \in Job /\ Whole(job[t]) /\ failures \in Nat
  BY AtWork DEF IInv, Alone, Thread, TypeInv, TypeOK
<1>1. CASE ListFails(t)
  <2>1. failures' = failures + 1 /\ Returns(t)
    BY <1>1 DEF ListFails
  <2>2. QED
    BY <1>0, <2>1, ToolReturns DEF Followed
<1>2. CASE FetchFails(t)
  <2>1. /\ failures' = failures + 1 /\ job[t].pc = "apply"
        /\ \E p \in job[t].fetch : Goes(t, [job[t] EXCEPT !.fetch = @ \ {p}])
    BY <1>2 DEF FetchFails
  <2>2. PICK p \in job[t].fetch : Goes(t, [job[t] EXCEPT !.fetch = @ \ {p}])
    BY <2>1
  <2> DEFINE j == [job[t] EXCEPT !.fetch = @ \ {p}]
  <2>3. Whole(j)
    BY <1>0, <2>1 DEF Job, Whole
  <2>4. Goes(t, j)
    BY <2>2
  <2> HIDE DEF j
  <2>5. QED
    BY <1>0, <2>1, <2>3, <2>4, ToolGoes DEF Followed
<1>3. CASE Breaks(t)
  BY <1>0, <1>3 DEF Breaks, Whole
<1>4. CASE Tick \/ UNCHANGED vars
  <2>1. UNCHANGED <<store, row, due, stale, failures, listed, job>>
    BY <1>4 DEF Tick, vars
  <2>2. Alone'
    BY <2>1 DEF Alone
  <2>3. \A p \in Note : Tracked(t, p)' = Tracked(t, p)
    BY <2>1 DEF Tracked, Kept, Shown
  <2>4. QED
    BY <2>1, <2>2, <2>3 DEF Followed
<1>5. CASE Restart
  <2>1. ~listed' /\ (\A u \in Tool \cup Web : job'[u] = Resting)
    BY <1>5 DEF Restart
  <2>2. Alone'
    BY <2>1, WholeResting DEF Alone
  <2>3. QED
    BY <2>1, <2>2 DEF Followed
<1>6. QED
  BY <1>1, <1>2, <1>3, <1>4, <1>5

LEMMA ShownInit == Init => ShownIInv
<1> SUFFICES ASSUME Init PROVE ShownIInv
  OBVIOUS
<1>1. IInv
  BY TypeInit, HeldInit DEF IInv
<1>2. due = {} /\ \A t \in Tool \cup Web : job[t] = Resting
  BY DEF Init
<1>3. Alone
  BY <1>2, WholeResting DEF Alone
<1>4. \A t \in Tool : Followed(t)
  BY <1>2, WholeResting DEF Followed, Tracked
<1>5. QED
  BY <1>1, <1>3, <1>4 DEF ShownIInv

LEMMA ShownStep == OneTool /\ ShownIInv /\ [Next]_vars => ShownIInv'
<1> SUFFICES ASSUME OneTool, ShownIInv, [Next]_vars PROVE ShownIInv'
  OBVIOUS
<1>1. IInv /\ Alone /\ ~Pages
  BY DEF ShownIInv, OneTool
<1>2. IInv'
  BY <1>1, IndexStep DEF OneTool
<1>3. PICK t \in Tool : Tool = {t}
  BY DEF OneTool
<1>4. (\A u \in Tool : u = t) /\ Followed(t)
  BY <1>3 DEF ShownIInv
<1>5. Alone' /\ Followed(t)'
  <2>1. CASE \E u \in Tool : Search(u) \/ Edit(u)
    BY <1>1, <1>4, <2>1, BeginFollowed
  <2>2. CASE \E w \in Web : Upload(w) \/ SwitchLayout(w)
    BY <1>1, <1>4, <2>2, WritesFollowed DEF SwitchLayout
  <2>3. ASSUME NEW w \in Web, Continue(w) PROVE Mark(w)
    <3>1. job[w].pc \in {"idle", "mark"}
      BY <1>1 DEF Alone
    <3>2. QED
      BY <2>3, <3>1 DEF Continue, Sync, Throttled, ListAll, ListFails, Compare, DropRow, Fetch, FetchFails, Upsert,
                        Finish, Breaks, CheckSchema, Load, Adopt, Settle, Answer, Store, Reindex
  <2>4. ASSUME Continue(t) PROVE Alone' /\ Followed(t)'
    BY <1>1, <1>4, <2>4, SyncFollowed, ApplyFollowed, SchemaFollowed, WritesFollowed, ReturnsFollowed, OthersFollowed
       DEF Continue
  <2>5. CASE \E u \in Tool \cup Web : Continue(u)
    BY <1>1, <1>4, <2>3, <2>4, <2>5, MarkFollowed
  <2>6. CASE Elsewhere
    BY <1>1, <1>4, <2>6, WritesFollowed
  <2>7. CASE Tick \/ Restart \/ UNCHANGED vars
    BY <1>1, <1>4, <2>7, OthersFollowed
  <2>8. QED
    BY <2>1, <2>2, <2>5, <2>6, <2>7 DEF Next
<1>6. QED
  BY <1>2, <1>3, <1>5 DEF ShownIInv

(* A tool call begun after a WebDAV write was answered finds what it wrote,*)
(* unless a storage request failed, once the server has listed the storage *)
(* since its start: where one thread runs the tool calls and no page       *)
(* reloads the schema, for any number of WebDAV threads, notes, writes and *)
(* restarts (mark_stale, Vault.sync, Index.sync).                          *)
THEOREM WritesFound == OneTool => (Spec => []ShownInTurn)
<1> SUFFICES ASSUME OneTool PROVE Spec => []ShownInTurn
  OBVIOUS
<1>1. Init => ShownIInv
  BY ShownInit
<1>2. ShownIInv /\ [Next]_vars => ShownIInv'
  BY ShownStep
<1>3. ShownIInv => ShownInTurn
  BY DEF ShownIInv, Followed, Tracked, Kept, Shown, Shows, ShownInTurn
<1>4. QED
  BY <1>1, <1>2, <1>3, PTL DEF Spec
=============================================================================
