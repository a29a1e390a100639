--------------------------- MODULE NoteStoreProofs ---------------------------
(***************************************************************************)
(* Theorems about NoteStore: its types; that where every write is          *)
(* conditional and the condition is atomic no answered edit is lost, none  *)
(* is doubled, and the handlers implement NoteBook, in which a call is one *)
(* step; and that, beside the calls that take no version, a claim changes  *)
(* only by the commands that say so and no note comes back.                *)
(***************************************************************************)
EXTENDS NoteStore, WellFoundedInduction, TLAPS

(* What a handler holds at each of its steps. *)
Homes(r) == IF r.q.kind \in Filing \/ (r.q.kind = "close" /\ Names[r.q.at] # <<>>)
            THEN Listed(r.q.at) ELSE {r.q.at}

Shape(r) ==
  /\ r.pc # "idle" => r.q \in Calls
  /\ r.pc = "name" => r.q.kind \in Filing \/ (r.q.kind = "close" /\ Names[r.q.at] # <<>>)
  /\ r.pc \in {"hold", "check", "write", "recheck", "unlink", "undo"} =>
       r.q.kind \notin {"move", "delete", "put"} /\ r.tgt \in Homes(r)
  /\ r.pc \in {"recheck", "unlink", "undo"} => r.q.kind = "close" /\ Names[r.q.at] # <<>>
  /\ r.pc = "read" => r.q.kind \notin Filing \cup {"etag", "delete", "put"} /\ r.tgt = Target(r.q)
  /\ r.pc \in {"fetch", "move", "drop", "reread"} => r.q.kind = "move" /\ r.tgt = r.q.to
  /\ r.pc \in {"delete", "put"} => r.q.kind = r.pc /\ r.tgt = r.q.at
  /\ r.pc = "mark" => r.q.kind = "put"
  /\ r.pc \notin {"idle", "name"} => r.tgt \in Path

Shaped == \A c \in Client : Shape(h[c])

TypeInv == TypeOK /\ Shaped

USE NoteStoreAssumption

-----------------------------------------------------------------------------
(* The constants. *)

LEMMA ListedArePaths == \A k \in Note \cup Title : Listed(k) \subseteq Path
BY DEF Path, Listed

LEMMA CallTypes ==
  ASSUME NEW q \in Calls
  PROVE  /\ q \in Call
         /\ q.kind \in Kind
         /\ q.kind \notin Filing => q.at \in Path
         /\ q.kind \in Filing => q.at \in Title
         /\ q.kind = "close" => q.at \in Note
         /\ q.kind = "move" => q.to \in Path
         /\ q.kind = "claim" => q.who \in Machine
BY DEF NoteStoreAssumption, Call

LEMMA HomesArePaths ==
  ASSUME NEW r, r.q \in Calls
  PROVE  Homes(r) \subseteq Path
BY CallTypes, ListedArePaths DEF Homes

LEMMA RestingType == Resting \in Handler /\ Shape(Resting)
BY DEF Resting, Handler, PC, Claim, Shape

LEMMA LeastExists ==
  ASSUME NEW S \in SUBSET Nat, S # {}
  PROVE  \E i \in S : \A j \in S : i <= j
<1> DEFINE R == OpToRel(<, Nat)
<1>1. IsWellFoundedOn(R, Nat)
  BY NatLessThanWellFounded
<1>2. PICK i \in S : \A j \in S : <<j, i>> \notin R
  <2> HIDE DEF R
  <2> QED BY <1>1, WFMin
<1>3. \A j \in S : <<j, i>> \in R <=> j < i
  BY DEF OpToRel
<1>4. \A j \in S : ~(j < i)
  <2> HIDE DEF R
  <2> QED BY <1>2, <1>3
<1>5. i \in Nat /\ \A j \in S : j \in Nat
  OBVIOUS
<1>6. QED
  BY <1>4, <1>5

LEMMA FirstFreeListed ==
  ASSUME NEW k \in Note \cup Title, NEW taken, FreeAt(k, taken) # {}
  PROVE  FirstFree(k, taken) \in Listed(k) /\ FirstFree(k, taken) \notin taken
<1>1. Names[k] \in Seq(Path)
  BY DEF NoteStoreAssumption
<1>2. FreeAt(k, taken) \in SUBSET Nat
  BY <1>1 DEF FreeAt
<1>3. PICK i \in FreeAt(k, taken) : \A j \in FreeAt(k, taken) : i <= j
  BY <1>2, LeastExists
<1>4. QED
  BY <1>3 DEF FirstFree, FreeAt, Listed

-----------------------------------------------------------------------------
(* The helpers of the actions. *)

LEMMA ObjectParts ==
  ASSUME NEW o \in Object \cup {Absent}
  PROVE  LinesOf(o) \in SUBSET Line /\ ClaimOf(o) \in Claim
BY DEF Object, Text, LinesOf, ClaimOf, Claim

LEMMA GoesType ==
  ASSUME TypeInv, NEW c \in Client, NEW r \in Handler, Shape(r), Goes(c, r)
  PROVE  /\ h' \in [Client -> Handler]
         /\ \A d \in Client : h'[d].pc # "idle" => h'[d].q \in Calls
         /\ \A d \in Client : Shape(h'[d])
         /\ h'[c] = r
         /\ \A d \in Client : d # c => h'[d] = h[d]
BY DEF TypeInv, TypeOK, Shaped, Goes, Shape

LEMMA StampedType ==
  ASSUME TypeOK, NEW t \in Text
  PROVE  Stamped(t) \in Object
BY DEF TypeOK, Stamped, Object

LEMMA StoresType ==
  ASSUME TypeOK, NEW p \in Path, NEW t \in Text, Stores(p, t)
  PROVE  store' \in [Path -> Object \cup {Absent}] /\ writes' \in Nat
BY StampedType DEF TypeOK, Stores

LEMMA RemovesType ==
  ASSUME TypeOK, NEW p, Removes(p)
  PROVE  store' \in [Path -> Object \cup {Absent}] /\ writes' \in Nat
BY DEF TypeOK, Removes

LEMMA NewTextType ==
  ASSUME TypeInv, NEW c \in Client, h[c].pc # "idle"
  PROVE  NewText(c) \in Text /\ Edit(c) \in Line
<1>1. h[c] \in Handler /\ h[c].q \in Calls /\ calls[c] \in Nat
  BY DEF TypeInv, TypeOK
<1>2. Edit(c) \in Line
  BY <1>1 DEF Edit, Line
<1>3. LinesOf(h[c].snap) \in SUBSET Line /\ ClaimOf(h[c].snap) \in Claim /\ h[c].held \in Claim
  BY <1>1, ObjectParts DEF Handler
<1>4. NewText(c).lines \in SUBSET Line
  BY <1>2, <1>3 DEF NewText
<1>5. NewText(c).claim \in Claim
  BY <1>1, <1>3, CallTypes DEF NewText, Claim
<1>6. QED
  BY <1>2, <1>4, <1>5 DEF NewText, Text

-----------------------------------------------------------------------------
(* Types. *)

LEMMA AtWork ==
  ASSUME TypeInv, NEW c \in Client
  PROVE  /\ h[c] \in Handler /\ Shape(h[c])
         /\ h[c].pc # "idle" => h[c].q \in Calls
         /\ calls[c] \in Nat
BY DEF TypeInv, TypeOK, Shaped

(* A step of one handler keeps the types when what it stores has a type. *)
LEMMA StepTypes ==
  ASSUME TypeInv, NEW c \in Client, NEW r \in Handler, Shape(r), Goes(c, r),
         backend' = backend, crashes' = crashes,
         store' \in [Path -> Object \cup {Absent}], writes' \in Nat,
         row' \in [Path -> Row \cup {Absent}], stale' \in [Process -> BOOLEAN],
         lock' \in [Process -> Client \cup {Free}], calls' \in [Client -> Nat],
         acked' \in SUBSET Line
  PROVE  TypeInv'
<1>1. /\ h' \in [Client -> Handler]
      /\ \A d \in Client : h'[d].pc # "idle" => h'[d].q \in Calls
      /\ \A d \in Client : Shape(h'[d])
  BY GoesType
<1>2. TypeOK'
  BY <1>1 DEF TypeOK, TypeInv
<1>3. Shaped'
  BY <1>1 DEF Shaped
<1>4. QED
  BY <1>2, <1>3 DEF TypeInv

LEMMA ReturnsTypes ==
  ASSUME NEW c \in Client, Returns(c)
  PROVE  \E r \in Handler : Shape(r) /\ Goes(c, r)
BY RestingType DEF Returns

LEMMA FreshType ==
  ASSUME NEW q \in Calls, NEW o \in Object \cup {Absent}, NEW n \in Nat, NEW L \in SUBSET Path
  PROVE  Fresh(q, o, n, L) \in Handler /\ Shape(Fresh(q, o, n, L))
<1>1. /\ q \in Call /\ q.kind \in Kind
      /\ q.kind \notin Filing => q.at \in Path
      /\ q.kind \in Filing => q.at \in Title
      /\ q.kind = "close" => q.at \in Note
      /\ q.kind = "move" => q.to \in Path
  BY CallTypes
<1>2. Target(q) \in Path \cup {Absent}
  BY <1>1 DEF Target
<1>3. First(q) \in PC
  BY <1>1 DEF First, Kind, Filing, Rewriting, PC
<1>4. Fresh(q, o, n, L) \in Handler
  BY <1>1, <1>2, <1>3 DEF Fresh, Handler, Claim
<1>5. Shape(Fresh(q, o, n, L))
  BY <1>1 DEF Fresh, Shape, First, Target, Kind, Filing, Rewriting, Homes
<1>6. QED
  BY <1>4, <1>5

LEMMA RetriesTypes ==
  ASSUME TypeInv, NEW c \in Client, h[c].pc # "idle", NEW L \in SUBSET Path, Retries(c, L)
  PROVE  \E r \in Handler : Shape(r) /\ Goes(c, r)
<1>1. h[c].q \in Calls /\ h[c].tries \in Nat /\ h[c].lost \in SUBSET Path
  BY AtWork DEF Handler
<1>2. CASE Goes(c, Fresh(h[c].q, Absent, h[c].tries + 1, h[c].lost \cup L))
  <2>1. h[c].tries + 1 \in Nat /\ h[c].lost \cup L \in SUBSET Path
    BY <1>1
  <2>2. QED
    BY <1>1, <1>2, <2>1, FreshType
<1>3. CASE Returns(c)
  BY <1>3, ReturnsTypes
<1>4. QED
  BY <1>2, <1>3 DEF Retries

LEMMA BeginTypes ==
  ASSUME TypeInv, NEW c \in Client, Begin(c)
  PROVE  TypeInv'
<1>1. PICK q \in Calls : Goes(c, Fresh(q, IF q.kind = "etag" THEN store[q.at] ELSE Absent, 0, {}))
  BY DEF Begin
<1> DEFINE o == IF q.kind = "etag" THEN store[q.at] ELSE Absent
<1>2. o \in Object \cup {Absent}
  BY CallTypes DEF TypeInv, TypeOK, Filing
<1>3. Fresh(q, o, 0, {}) \in Handler /\ Shape(Fresh(q, o, 0, {}))
  BY <1>2, FreshType
<1>4. calls' \in [Client -> Nat] /\ UNCHANGED <<backend, store, row, stale, lock, writes, acked, crashes>>
  BY DEF Begin, TypeInv, TypeOK
<1>5. QED
  BY <1>1, <1>3, <1>4, StepTypes DEF TypeInv, TypeOK

LEMMA ReadTypes ==
  ASSUME TypeInv, NEW c \in Client, Read(c)
  PROVE  TypeInv'
<1>1. /\ h[c] \in Handler /\ Shape(h[c]) /\ h[c].q \in Calls /\ h[c].pc = "read"
      /\ UNCHANGED <<backend, store, row, stale, lock, writes, calls, acked, crashes>>
  BY AtWork DEF Read
<1>2. /\ h[c].q.kind \in Kind \ (Filing \cup {"etag", "delete", "put"})
      /\ h[c].q.at \in Path /\ h[c].tgt = Target(h[c].q) /\ h[c].tgt \in Path
      /\ h[c].q.kind = "close" => h[c].q.at \in Note
  BY <1>1, CallTypes DEF Shape
<1>3. PICK r : Goes(c, r) /\ r \in Handler /\ Shape(r)
  <2>1. CASE Returns(c)
    BY <2>1, ReturnsTypes
  <2>2. CASE ~Returns(c)
    <3> DEFINE x == CASE Archives(c) -> "name"
                      [] h[c].q.kind = "move" -> IF backend.move = "reput" THEN "fetch" ELSE "move"
                      [] OTHER -> "check"
               r == [h[c] EXCEPT !.snap = store[h[c].q.at], !.pc = x]
    <3>1. Goes(c, r)
      BY <2>2 DEF Read
    <3>2. store[h[c].q.at] \in Object \cup {Absent}
      BY <1>2 DEF TypeInv, TypeOK
    <3>3. x \in {"name", "fetch", "move", "check"}
      OBVIOUS
    <3>4. r \in Handler
      BY <1>1, <3>2, <3>3 DEF Handler, PC
    <3>5. Shape(r)
      BY <1>1, <1>2 DEF Shape, Handler, Archives, Target, Homes
    <3>6. QED
      BY <3>1, <3>4, <3>5
  <2>3. QED
    BY <2>1, <2>2
<1>4. QED
  BY <1>1, <1>3, StepTypes DEF TypeInv, TypeOK

LEMMA NameTypes ==
  ASSUME TypeInv, NEW c \in Client, Name(c)
  PROVE  TypeInv'
<1>1. /\ h[c] \in Handler /\ Shape(h[c]) /\ h[c].q \in Calls /\ h[c].pc = "name"
      /\ UNCHANGED <<backend, store, row, stale, lock, writes, calls, acked, crashes>>
  BY AtWork DEF Name
<1> DEFINE taken == {p \in Path : store[p] # Absent} \cup h[c].lost
           x == IF h[c].q.kind = "open" THEN "hold" ELSE "check"
           r == [h[c] EXCEPT !.tgt = FirstFree(h[c].q.at, taken), !.pc = x]
<1>2. h[c].q.at \in Note \cup Title
  BY <1>1, CallTypes DEF Shape
<1>3. FreeAt(h[c].q.at, taken) # {} /\ Goes(c, r)
  BY DEF Name
<1>4. FirstFree(h[c].q.at, taken) \in Listed(h[c].q.at)
  BY <1>2, <1>3, FirstFreeListed
<1>5. FirstFree(h[c].q.at, taken) \in Path
  BY <1>2, <1>4, ListedArePaths
<1>6. r \in Handler
  BY <1>1, <1>5 DEF Handler, PC
<1>7. Shape(r)
  <2> HIDE DEF taken
  <2> QED BY <1>1, <1>4, <1>5 DEF Shape, Handler, Homes, Filing
<1>8. QED
  BY <1>1, <1>3, <1>6, <1>7, StepTypes DEF TypeInv, TypeOK

LEMMA HoldTypes ==
  ASSUME TypeInv, NEW c \in Client, Hold(c)
  PROVE  TypeInv'
<1>1. /\ h[c] \in Handler /\ Shape(h[c]) /\ h[c].q \in Calls /\ h[c].pc = "hold" /\ h[c].tgt \in Path
      /\ UNCHANGED <<backend, store, row, stale, lock, writes, calls, acked, crashes>>
  BY AtWork DEF Hold, Shape
<1> DEFINE r == [h[c] EXCEPT !.held = ClaimOf(store[h[c].tgt]), !.pc = "check"]
<1>2. Goes(c, r)
  BY DEF Hold
<1>3. ClaimOf(store[h[c].tgt]) \in Claim
  BY <1>1, ObjectParts DEF TypeInv, TypeOK
<1>4. r \in Handler /\ Shape(r)
  BY <1>1, <1>3 DEF Handler, PC, Shape, Homes
<1>5. QED
  BY <1>1, <1>2, <1>4, StepTypes DEF TypeInv, TypeOK

LEMMA ConflictTypes ==
  ASSUME TypeInv, NEW c \in Client, Conflict(c)
  PROVE  TypeInv'
<1>1. /\ h[c] \in Handler /\ h[c].pc = "check" /\ h[c].tgt \in Path
      /\ UNCHANGED <<backend, store, row, stale, lock, writes, calls, acked, crashes>>
  BY AtWork DEF Conflict, Shape
<1>2. PICK r \in Handler : Shape(r) /\ Goes(c, r)
  <2> DEFINE L == IF h[c].tgt = h[c].q.at THEN {} ELSE {h[c].tgt}
  <2>1. L \in SUBSET Path /\ Retries(c, L)
    BY <1>1 DEF Conflict
  <2>2. QED
    BY <1>1, <2>1, RetriesTypes
<1>3. QED
  BY <1>1, <1>2, StepTypes DEF TypeInv, TypeOK

LEMMA CommitsTypes ==
  ASSUME TypeInv, NEW c \in Client, h[c].pc \in {"check", "write"}, Commits(c),
         lock' \in [Process -> Client \cup {Free}],
         UNCHANGED <<backend, row, stale, calls, crashes>>
  PROVE  TypeInv'
<1>1. /\ h[c] \in Handler /\ Shape(h[c]) /\ h[c].q \in Calls /\ h[c].tgt \in Path
      /\ h[c].q.kind \in Kind
  BY AtWork, CallTypes DEF Shape
<1>2. NewText(c) \in Text /\ Edit(c) \in Line
  BY NewTextType
<1>3. store' \in [Path -> Object \cup {Absent}] /\ writes' \in Nat /\ Stamped(NewText(c)) \in Object
  BY <1>1, <1>2, StoresType, StampedType DEF Commits, TypeInv
<1>4. acked' \in SUBSET Line
  BY <1>2 DEF Commits, TypeInv, TypeOK
<1> DEFINE x == IF Archives(c) THEN "recheck" ELSE "index"
           r == [h[c] EXCEPT !.out = Stamped(NewText(c)), !.pc = x]
<1>5. Goes(c, r)
  BY DEF Commits
<1>6. r \in Handler
  BY <1>1, <1>3 DEF Handler, PC
<1>7. Shape(r)
  BY <1>1 DEF Handler, Shape, Homes, Archives
<1>8. QED
  BY <1>3, <1>4, <1>5, <1>6, <1>7, StepTypes DEF TypeInv, TypeOK

LEMMA PutIfMatchTypes ==
  ASSUME TypeInv, NEW c \in Client, PutIfMatch(c)
  PROVE  TypeInv'
BY CommitsTypes DEF PutIfMatch, TypeInv, TypeOK

LEMMA CheckTypes ==
  ASSUME TypeInv, NEW c \in Client, Check(c)
  PROVE  TypeInv'
<1>1. /\ h[c] \in Handler /\ Shape(h[c]) /\ h[c].q \in Calls /\ h[c].pc = "check"
      /\ UNCHANGED <<backend, store, row, stale, writes, calls, acked, crashes>>
  BY AtWork DEF Check
<1> DEFINE r == [h[c] EXCEPT !.pc = "write"]
<1>2. Goes(c, r)
  BY DEF Check
<1>3. r \in Handler /\ Shape(r)
  BY <1>1 DEF Handler, PC, Shape, Homes
<1>4. lock' \in [Process -> Client \cup {Free}]
  BY DEF Check, Locks, TypeInv, TypeOK
<1>5. QED
  BY <1>1, <1>2, <1>3, <1>4, StepTypes DEF TypeInv, TypeOK

LEMMA WriteTypes ==
  ASSUME TypeInv, NEW c \in Client, Write(c)
  PROVE  TypeInv'
<1>1. lock' \in [Process -> Client \cup {Free}]
  BY DEF Write, Unlocks, TypeInv, TypeOK
<1>2. QED
  BY <1>1, CommitsTypes DEF Write

(* A step that changes only where the handler is. *)
LEMMA MoveOnTypes ==
  ASSUME TypeInv, NEW c \in Client, NEW x \in PC, h[c].pc # "idle",
         Goes(c, [h[c] EXCEPT !.pc = x]), Shape([h[c] EXCEPT !.pc = x]),
         backend' = backend, crashes' = crashes,
         store' \in [Path -> Object \cup {Absent}], writes' \in Nat,
         row' = row, stale' = stale, calls' = calls,
         lock' \in [Process -> Client \cup {Free}], acked' \in SUBSET Line
  PROVE  TypeInv'
<1>1. h[c] \in Handler
  BY AtWork
<1>2. [h[c] EXCEPT !.pc = x] \in Handler
  BY <1>1 DEF Handler
<1>3. QED
  BY <1>2, StepTypes DEF TypeInv, TypeOK

(* And a step that ends the call. *)
LEMMA EndTypes ==
  ASSUME TypeInv, NEW c \in Client, Returns(c),
         backend' = backend, crashes' = crashes,
         store' \in [Path -> Object \cup {Absent}], writes' \in Nat,
         row' \in [Path -> Row \cup {Absent}], stale' \in [Process -> BOOLEAN], calls' = calls,
         lock' \in [Process -> Client \cup {Free}], acked' \in SUBSET Line
  PROVE  TypeInv'
<1>1. PICK r \in Handler : Shape(r) /\ Goes(c, r)
  BY ReturnsTypes
<1>2. QED
  BY <1>1, StepTypes DEF TypeInv, TypeOK

LEMMA CloseTypes ==
  ASSUME TypeInv, NEW c \in Client,
         SourceChanged(c) \/ DeleteIfMatch(c) \/ Recheck(c) \/ Unlink(c)
  PROVE  TypeInv'
<1>1. /\ h[c] \in Handler /\ Shape(h[c]) /\ h[c].pc \in {"recheck", "unlink"}
      /\ UNCHANGED <<backend, row, stale, calls, acked, crashes>>
  BY AtWork DEF SourceChanged, DeleteIfMatch, Recheck, Unlink
<1>2. \A x \in {"undo", "unlink", "index"} : x \in PC /\ Shape([h[c] EXCEPT !.pc = x])
  BY <1>1 DEF Handler, Shape, PC, Homes
<1>3. /\ store' \in [Path -> Object \cup {Absent}] /\ writes' \in Nat
      /\ lock' \in [Process -> Client \cup {Free}]
  BY RemovesType DEF SourceChanged, DeleteIfMatch, Recheck, Unlink, Locks, Unlocks, TypeInv, TypeOK
<1>4. \/ Returns(c)
      \/ \E x \in {"undo", "unlink", "index"} : Goes(c, [h[c] EXCEPT !.pc = x])
  BY DEF SourceChanged, DeleteIfMatch, Recheck, Unlink
<1>5. CASE Returns(c)
  BY <1>1, <1>3, <1>5, EndTypes DEF TypeInv, TypeOK
<1>6. CASE \E x \in {"undo", "unlink", "index"} : Goes(c, [h[c] EXCEPT !.pc = x])
  BY <1>1, <1>2, <1>3, <1>6, MoveOnTypes DEF TypeInv, TypeOK
<1>7. QED
  BY <1>4, <1>5, <1>6

LEMMA UndoTypes ==
  ASSUME TypeInv, NEW c \in Client, Undo(c)
  PROVE  TypeInv'
<1>1. store' \in [Path -> Object \cup {Absent}] /\ writes' \in Nat
  BY RemovesType DEF Undo, TypeInv
<1>2. h[c].pc = "undo" /\ UNCHANGED <<backend, row, stale, lock, calls, acked, crashes>>
  BY DEF Undo
<1>3. PICK r \in Handler : Shape(r) /\ Goes(c, r)
  BY <1>2, RetriesTypes, ReturnsTypes DEF Undo
<1>4. QED
  BY <1>1, <1>2, <1>3, StepTypes DEF TypeInv, TypeOK

LEMMA FetchTypes ==
  ASSUME TypeInv, NEW c \in Client, Fetch(c)
  PROVE  TypeInv'
<1>1. /\ h[c] \in Handler /\ Shape(h[c]) /\ h[c].q \in Calls /\ h[c].pc = "fetch"
      /\ UNCHANGED <<backend, store, row, stale, lock, writes, calls, acked, crashes>>
  BY AtWork DEF Fetch
<1> DEFINE r == [h[c] EXCEPT !.snap = store[h[c].q.at], !.pc = "move"]
<1>2. CASE Returns(c)
  BY <1>1, <1>2, EndTypes DEF TypeInv, TypeOK
<1>3. CASE Goes(c, r)
  <2>1. store[h[c].q.at] \in Object \cup {Absent}
    BY <1>1, CallTypes DEF Shape, Filing, TypeInv, TypeOK
  <2>2. r \in Handler /\ Shape(r)
    BY <1>1, <2>1 DEF Handler, PC, Shape
  <2>3. QED
    BY <1>1, <1>3, <2>2, StepTypes DEF TypeInv, TypeOK
<1>4. QED
  BY <1>2, <1>3 DEF Fetch

LEMMA RenameTypes ==
  ASSUME TypeInv, NEW c \in Client, Rename(c)
  PROVE  TypeInv'
<1>1. /\ h[c] \in Handler /\ Shape(h[c]) /\ h[c].q \in Calls /\ h[c].pc = "move"
      /\ UNCHANGED <<backend, row, stale, lock, writes, calls, crashes>>
  BY AtWork DEF Rename
<1>2. h[c].q.at \in Path
  BY <1>1, CallTypes DEF Shape, Filing
<1>3. store' \in [Path -> Object \cup {Absent}] /\ acked' \in SUBSET Line
  BY <1>2 DEF Rename, Overwrites, TypeInv, TypeOK
<1>4. "reread" \in PC /\ Shape([h[c] EXCEPT !.pc = "reread"])
  BY <1>1 DEF Handler, PC, Shape
<1>5. Returns(c) \/ Goes(c, [h[c] EXCEPT !.pc = "reread"])
  BY DEF Rename
<1>6. QED
  BY <1>1, <1>3, <1>4, <1>5, MoveOnTypes, EndTypes DEF TypeInv, TypeOK

LEMMA CopyAcrossTypes ==
  ASSUME TypeInv, NEW c \in Client, CopyAcross(c)
  PROVE  TypeInv'
<1>1. /\ h[c] \in Handler /\ Shape(h[c]) /\ h[c].q \in Calls /\ h[c].pc = "move"
      /\ UNCHANGED <<backend, row, stale, lock, calls, crashes>>
  BY AtWork DEF CopyAcross
<1>2. h[c].q.at \in Path /\ h[c].tgt \in Path
  BY <1>1, CallTypes DEF Shape, Filing
<1> DEFINE o == IF backend.move = "copy" THEN store[h[c].q.at] ELSE h[c].snap
<1>3. o \in Object \cup {Absent}
  BY <1>1, <1>2 DEF Handler, TypeInv, TypeOK
<1>4. CASE o = Absent
  BY <1>1, <1>4, EndTypes DEF CopyAcross, TypeInv, TypeOK
<1>5. CASE o # Absent
  <2>1. o.text \in Text
    BY <1>3, <1>5 DEF Object
  <2>2. /\ Stores(h[c].tgt, o.text) /\ Overwrites(h[c].tgt)
        /\ Goes(c, [h[c] EXCEPT !.pc = "drop"])
    BY <1>5 DEF CopyAcross
  <2>3. store' \in [Path -> Object \cup {Absent}] /\ writes' \in Nat /\ acked' \in SUBSET Line
    <3> HIDE DEF o
    <3> QED BY <1>2, <2>1, <2>2, StoresType DEF Overwrites, TypeInv, TypeOK
  <2>4. "drop" \in PC /\ Shape([h[c] EXCEPT !.pc = "drop"])
    BY <1>1 DEF Handler, PC, Shape
  <2>5. QED
    BY <1>1, <2>2, <2>3, <2>4, MoveOnTypes DEF TypeInv, TypeOK
<1>6. QED
  BY <1>4, <1>5

LEMMA DropSourceTypes ==
  ASSUME TypeInv, NEW c \in Client, DropSource(c)
  PROVE  TypeInv'
<1>1. /\ h[c] \in Handler /\ Shape(h[c]) /\ h[c].pc = "drop"
      /\ UNCHANGED <<backend, row, stale, lock, calls, acked, crashes>>
  BY AtWork DEF DropSource
<1>2. store' \in [Path -> Object \cup {Absent}] /\ writes' \in Nat
  BY RemovesType DEF DropSource, TypeInv
<1>3. "reread" \in PC /\ Shape([h[c] EXCEPT !.pc = "reread"])
  BY <1>1 DEF Handler, PC, Shape
<1>4. Returns(c) \/ Goes(c, [h[c] EXCEPT !.pc = "reread"])
  BY DEF DropSource
<1>5. QED
  BY <1>1, <1>2, <1>3, <1>4, MoveOnTypes, EndTypes DEF TypeInv, TypeOK

LEMMA RereadTypes ==
  ASSUME TypeInv, NEW c \in Client, Reread(c)
  PROVE  TypeInv'
<1>1. /\ h[c] \in Handler /\ Shape(h[c]) /\ h[c].pc = "reread" /\ h[c].tgt \in Path
      /\ UNCHANGED <<backend, store, row, stale, lock, writes, calls, acked, crashes>>
  BY AtWork DEF Reread, Shape
<1> DEFINE r == [h[c] EXCEPT !.out = store[h[c].tgt], !.pc = "index"]
<1>2. CASE Returns(c)
  BY <1>1, <1>2, EndTypes DEF TypeInv, TypeOK
<1>3. CASE Goes(c, r)
  <2>1. store[h[c].tgt] \in Object \cup {Absent}
    BY <1>1 DEF TypeInv, TypeOK
  <2>2. r \in Handler /\ Shape(r)
    BY <1>1, <2>1 DEF Handler, PC, Shape
  <2>3. QED
    BY <1>1, <1>3, <2>2, StepTypes DEF TypeInv, TypeOK
<1>4. QED
  BY <1>2, <1>3 DEF Reread

LEMMA DeleteTypes ==
  ASSUME TypeInv, NEW c \in Client, Delete(c)
  PROVE  TypeInv'
<1>1. /\ h[c] \in Handler /\ Shape(h[c]) /\ h[c].pc = "delete"
      /\ UNCHANGED <<backend, row, stale, lock, calls, crashes>>
  BY AtWork DEF Delete
<1>2. store' \in [Path -> Object \cup {Absent}] /\ writes' \in Nat /\ acked' \in SUBSET Line
  BY RemovesType DEF Delete, Overwrites, TypeInv, TypeOK
<1>3. "index" \in PC /\ Shape([h[c] EXCEPT !.pc = "index"])
  BY <1>1 DEF Handler, PC, Shape
<1>4. Returns(c) \/ Goes(c, [h[c] EXCEPT !.pc = "index"])
  BY DEF Delete
<1>5. QED
  BY <1>1, <1>2, <1>3, <1>4, MoveOnTypes, EndTypes DEF TypeInv, TypeOK

LEMMA PutTypes ==
  ASSUME TypeInv, NEW c \in Client, Put(c)
  PROVE  TypeInv'
<1>1. /\ h[c] \in Handler /\ Shape(h[c]) /\ h[c].q \in Calls /\ h[c].pc = "put"
      /\ UNCHANGED <<backend, row, stale, lock, calls, crashes>>
  BY AtWork DEF Put
<1>2. h[c].q.at \in Path /\ NewText(c) \in Text /\ Edit(c) \in Line
  BY <1>1, NewTextType DEF Shape
<1>3. store' \in [Path -> Object \cup {Absent}] /\ writes' \in Nat /\ acked' \in SUBSET Line
  BY <1>2, StoresType DEF Put, TypeInv, TypeOK
<1>4. "mark" \in PC /\ Shape([h[c] EXCEPT !.pc = "mark"])
  BY <1>1 DEF Handler, PC, Shape
<1>5. Goes(c, [h[c] EXCEPT !.pc = "mark"])
  BY DEF Put
<1>6. QED
  BY <1>1, <1>3, <1>4, <1>5, MoveOnTypes DEF TypeInv, TypeOK

LEMMA MarkTypes ==
  ASSUME TypeInv, NEW c \in Client, Mark(c)
  PROVE  TypeInv'
BY EndTypes DEF Mark, TypeInv, TypeOK

LEMMA IndexTypes ==
  ASSUME TypeInv, NEW c \in Client, Index(c)
  PROVE  TypeInv'
<1>1. h[c] \in Handler
  BY AtWork
<1>2. h[c].out # Absent => [text |-> h[c].out.text, version |-> h[c].out] \in Row
  BY <1>1 DEF Handler, Object, Row
<1>3. row' \in [Path -> Row \cup {Absent}]
  BY <1>2 DEF Index, TypeInv, TypeOK
<1>4. QED
  BY <1>3, EndTypes DEF Index, TypeInv, TypeOK

LEMMA CrashTypes ==
  ASSUME TypeInv, NEW s \in Process, Crash(s)
  PROVE  TypeInv'
<1>1. \A c \in Client : h'[c] \in {Resting, h[c]}
  BY DEF Crash
<1>2. h' \in [Client -> Handler]
  BY <1>1, RestingType DEF Crash, TypeInv, TypeOK
<1>3. \A c \in Client : Shape(h'[c]) /\ (h'[c].pc # "idle" => h'[c].q \in Calls)
  <2>1. \A c \in Client : Shape(h'[c])
    BY <1>1, RestingType DEF TypeInv, Shaped
  <2>2. QED
    BY <2>1 DEF Shape
<1>4. TypeOK'
  BY <1>2, <1>3 DEF Crash, TypeInv, TypeOK
<1>5. Shaped'
  BY <1>3 DEF Shaped
<1>6. QED
  BY <1>4, <1>5 DEF TypeInv

LEMMA InitTypes == Init => TypeInv
<1> SUFFICES ASSUME Init PROVE TypeInv
  OBVIOUS
<1>1. \A p \in Note : [text |-> [lines |-> {p}, claim |-> NoClaim], stamp |-> 0] \in Object
  BY DEF Object, Text, Line, Path, Claim
<1>2. store \in [Path -> Object \cup {Absent}]
  BY <1>1 DEF Init
<1>3. row \in [Path -> Row \cup {Absent}]
  <2>1. \A p \in Path : store[p] # Absent =>
          [text |-> store[p].text, version |-> store[p]] \in Row
    BY <1>2 DEF Object, Row
  <2>2. QED
    BY <2>1 DEF Init
<1>4. acked \in SUBSET Line
  BY DEF Init, Line, Path
<1>5. h \in [Client -> Handler] /\ \A c \in Client : h[c] = Resting
  BY RestingType DEF Init
<1>6. TypeOK
  BY <1>2, <1>3, <1>4, <1>5 DEF Init, TypeOK, Resting
<1>7. Shaped
  BY <1>5, RestingType DEF Shaped
<1>8. QED
  BY <1>6, <1>7 DEF TypeInv

LEMMA NextTypes == TypeInv /\ [Next]_vars => TypeInv'
<1> SUFFICES ASSUME TypeInv, [Next]_vars PROVE TypeInv'
  OBVIOUS
<1>1. ASSUME NEW c \in Client, Begin(c) PROVE TypeInv'
  BY <1>1, BeginTypes
<1>2. ASSUME NEW c \in Client, Continue(c) PROVE TypeInv'
  BY <1>2, ReadTypes, NameTypes, HoldTypes, ConflictTypes, PutIfMatchTypes, CheckTypes, WriteTypes,
     CloseTypes, UndoTypes, FetchTypes, RenameTypes, CopyAcrossTypes, DropSourceTypes, RereadTypes,
     DeleteTypes, PutTypes, MarkTypes, IndexTypes DEF Continue
<1>3. ASSUME NEW s \in Process, Crash(s) PROVE TypeInv'
  BY <1>3, CrashTypes
<1>4. CASE UNCHANGED vars
  BY <1>4 DEF vars, TypeInv, TypeOK, Shaped
<1>5. QED
  BY <1>1, <1>2, <1>3, <1>4 DEF Next

(* Whatever the handlers do, in whatever order, what they hold and store   *)
(* has the type they take it to have; in particular a handler that stores  *)
(* has a path to store under.                                              *)
THEOREM TypeCorrect == Spec => []TypeOK
<1>1. Init => TypeInv
  BY InitTypes
<1>2. TypeInv /\ [Next]_vars => TypeInv'
  BY NextTypes
<1>3. TypeInv => TypeOK
  BY DEF TypeInv
<1>4. QED
  BY <1>1, <1>2, <1>3, PTL DEF Spec

-----------------------------------------------------------------------------
(* Where edits are safe: every call is conditional on a version, a store   *)
(* that does not compare and write in one request has one process, and     *)
(* callers do not name the paths of the archive.                           *)
Conditional == \A q \in Calls : q.kind \notin {"move", "delete", "put"}
OneProcessEach == (\A b \in Backends : b.atomic) \/ (\A c, d \in Client : ProcOf[c] = ProcOf[d])
ArchiveApart == \A q \in Calls : \A k \in Note : q.at \notin Listed(k)
Sheltered == Conditional /\ OneProcessEach /\ ArchiveApart

Copying(c) == h[c].pc \in {"recheck", "unlink", "undo"}

(* Between its check and its write a handler holds the lock, and what it   *)
(* checked still holds.                                                    *)
Locked == \A c \in Client : h[c].pc \in {"write", "unlink"} =>
            ~backend.atomic /\ lock[ProcOf[c]] = c
Window == \A c \in Client :
            /\ h[c].pc = "write" => store[h[c].tgt] = Expected(c)
            /\ h[c].pc = "unlink" => store[h[c].q.at] = h[c].snap

(* The copy of a close that runs has what the close read, and is its own.  *)
Copied == \A c \in Client : Copying(c) =>
            store[h[c].tgt] # Absent /\ LinesOf(h[c].snap) \subseteq LinesOf(store[h[c].tgt])
Own == \A c, d \in Client : Copying(c) /\ Copying(d) /\ c # d => h[c].tgt # h[d].tgt

IInv == TypeInv /\ Locked /\ Window /\ Copied /\ Own /\ AckedKept

USE DEF Copying

(* A path that a close copies to is no path that a call names. *)
LEMMA CopyIsArchived ==
  ASSUME TypeInv, Sheltered, NEW c \in Client, Copying(c)
  PROVE  /\ h[c].q \in Calls /\ h[c].q.kind = "close" /\ h[c].q.at \in Note
         /\ h[c].tgt \in Listed(h[c].q.at) /\ h[c].tgt \in Path /\ Archives(c)
         /\ \A q \in Calls : q.at # h[c].tgt
<1>1. /\ h[c].q \in Calls /\ h[c].q.kind = "close" /\ Names[h[c].q.at] # <<>>
      /\ h[c].tgt \in Homes(h[c]) /\ h[c].tgt \in Path
  BY AtWork DEF Shape
<1>2. h[c].q.at \in Note /\ h[c].tgt \in Listed(h[c].q.at)
  BY <1>1, CallTypes DEF Homes
<1>3. QED
  BY <1>1, <1>2 DEF Sheltered, ArchiveApart, Archives

(* Two handlers are never both between a check and its write. *)
LEMMA Alone ==
  ASSUME TypeInv, Locked, Sheltered, NEW c \in Client, NEW d \in Client,
         h[c].pc \in {"write", "unlink"}, h[d].pc \in {"write", "unlink"}
  PROVE  c = d
BY DEF TypeInv, TypeOK, Locked, Sheltered, OneProcessEach

(* Nor is one where the store compares and writes in one request. *)
LEMMA NoneBetween ==
  ASSUME Locked, backend.atomic
  PROVE  \A d \in Client : h[d].pc \notin {"write", "unlink"}
BY DEF Locked

Settled(r) == r.pc \notin {"write", "recheck", "unlink", "undo"}

(* A step of one handler that stores nothing. *)
LEMMA QuietStep ==
  ASSUME IInv, TypeInv', NEW c \in Client, UNCHANGED <<backend, store, lock, acked>>,
         \A d \in Client : d # c => h'[d] = h[d],
         Settled(h[c]), Settled(h'[c])
  PROVE  IInv'
<1> USE DEF Settled
<1>1. Locked' /\ Window'
  BY DEF IInv, Locked, Window, Expected
<1>2. Copied' /\ Own'
  BY DEF IInv, Copied, Own
<1>3. \A p \in Path : InFlight(p)' => InFlight(p)
  BY DEF InFlight
<1>4. AckedKept'
  BY <1>3 DEF IInv, AckedKept, Holding
<1>5. QED
  BY <1>1, <1>2, <1>4 DEF IInv

LEMMA FreshSettled ==
  ASSUME NEW q, NEW o, NEW n, NEW L
  PROVE  Settled(Fresh(q, o, n, L)) /\ Settled(Resting)
<1>1. /\ First(q) \in {"name", "hold", "read"} \cup {q.kind}
      /\ (First(q) = q.kind => First(q) \in {"name", "hold", "read", "delete", "put"})
  BY DEF First
<1>2. QED
  BY <1>1 DEF Fresh, Settled, Resting

(* Starting over keeps the other handlers where they are. *)
LEMMA RetriesSettled ==
  ASSUME TypeInv, NEW c \in Client, NEW L, Retries(c, L) \/ Returns(c)
  PROVE  Settled(h'[c]) /\ \A d \in Client : d # c => h'[d] = h[d]
BY FreshSettled DEF Retries, Returns, Goes, TypeInv, TypeOK

LEMMA BeginSafe ==
  ASSUME IInv, TypeInv', NEW c \in Client, Begin(c)
  PROVE  IInv'
<1>1. Settled(h'[c]) /\ \A d \in Client : d # c => h'[d] = h[d]
  BY FreshSettled DEF Begin, Goes, IInv, TypeInv, TypeOK
<1>2. Settled(h[c]) /\ UNCHANGED <<backend, store, lock, acked>>
  BY DEF Begin, Settled
<1>3. QED
  BY <1>1, <1>2, QuietStep

LEMMA QuietActions ==
  ASSUME IInv, TypeInv', NEW c \in Client,
         Read(c) \/ Name(c) \/ Hold(c) \/ Conflict(c) \/ Index(c)
  PROVE  IInv'
<1>1. Settled(h[c]) /\ UNCHANGED <<backend, store, lock, acked>>
  BY DEF Read, Name, Hold, Conflict, Index, Settled
<1>2. h[c] \in Handler /\ h \in [Client -> Handler]
  BY DEF IInv, TypeInv, TypeOK
<1>3. Settled(h'[c]) /\ \A d \in Client : d # c => h'[d] = h[d]
  <2>1. CASE Read(c)
    <3>1. CASE Returns(c)
      BY <3>1, RetriesSettled DEF IInv
    <3>2. CASE ~Returns(c)
      <4> DEFINE x == CASE Archives(c) -> "name"
                        [] h[c].q.kind = "move" -> IF backend.move = "reput" THEN "fetch" ELSE "move"
                        [] OTHER -> "check"
      <4>1. Goes(c, [h[c] EXCEPT !.snap = store[h[c].q.at], !.pc = x])
        BY <2>1, <3>2 DEF Read
      <4>2. x \in {"name", "fetch", "move", "check"}
        OBVIOUS
      <4> HIDE DEF x
      <4>3. QED
        BY <1>2, <4>1, <4>2 DEF Goes, Settled, Handler
    <3>3. QED
      BY <3>1, <3>2
  <2>2. CASE Name(c) \/ Hold(c)
    <3>1. PICK t, x : /\ x \in {"hold", "check"}
                      /\ \/ Goes(c, [h[c] EXCEPT !.tgt = t, !.pc = x])
                         \/ Goes(c, [h[c] EXCEPT !.held = t, !.pc = x])
      BY <2>2 DEF Name, Hold
    <3>2. CASE Goes(c, [h[c] EXCEPT !.tgt = t, !.pc = x])
      BY <1>2, <3>1, <3>2 DEF Goes, Settled, Handler
    <3>3. CASE Goes(c, [h[c] EXCEPT !.held = t, !.pc = x])
      BY <1>2, <3>1, <3>3 DEF Goes, Settled, Handler
    <3>4. QED
      BY <3>1, <3>2, <3>3
  <2>3. CASE Conflict(c) \/ Index(c)
    BY <2>3, RetriesSettled DEF Conflict, Index, IInv
  <2>4. QED
    BY <2>1, <2>2, <2>3
<1>4. QED
  BY <1>1, <1>3, QuietStep

(* Entering the lock: what was compared is what the write relies on. *)
LEMMA EntersLock ==
  ASSUME IInv, TypeInv', Sheltered, NEW c \in Client, Check(c) \/ Recheck(c)
  PROVE  IInv'
<1> DEFINE x == IF h[c].pc = "check" THEN "write" ELSE "unlink"
<1>1. /\ ~backend.atomic /\ lock[ProcOf[c]] = Free /\ lock' = [lock EXCEPT ![ProcOf[c]] = c]
      /\ UNCHANGED <<backend, store, acked>>
      /\ h' = [h EXCEPT ![c] = [h[c] EXCEPT !.pc = x]]
      /\ h[c].pc = "check" => store[h[c].tgt] = Expected(c)
      /\ h[c].pc = "recheck" => store[h[c].q.at] = h[c].snap
      /\ h[c].pc \in {"check", "recheck"}
  BY DEF Check, Recheck, Locks, Goes
<1>2. /\ h[c] \in Handler /\ h \in [Client -> Handler]
      /\ ProcOf[c] \in Process /\ lock \in [Process -> Client \cup {Free}]
  BY DEF IInv, TypeInv, TypeOK, NoteStoreAssumption
<1>3. /\ h'[c].pc = x /\ h'[c].tgt = h[c].tgt /\ h'[c].q = h[c].q /\ h'[c].snap = h[c].snap
      /\ \A d \in Client : d # c => h'[d] = h[d]
  BY <1>1, <1>2 DEF Handler
<1>4. Locked'
  <2>1. \A d \in Client : d # c => h[d].pc \notin {"write", "unlink"} \/ ProcOf[d] # ProcOf[c]
    BY <1>1 DEF IInv, Locked, NoteStoreAssumption
  <2>2. QED
    BY <1>1, <1>2, <1>3, <2>1 DEF IInv, Locked
<1>5. Window'
  BY <1>1, <1>3 DEF IInv, Window, Expected
<1>6. Copied' /\ Own'
  <2>1. \A d \in Client : Copying(d)' =>
          Copying(d) /\ h'[d].tgt = h[d].tgt /\ h'[d].snap = h[d].snap
    BY <1>1, <1>3
  <2>2. Copied'
    BY <1>1, <2>1 DEF IInv, Copied
  <2>3. QED
    BY <2>1, <2>2 DEF IInv, Own
<1>7. \A p \in Path : InFlight(p)' => InFlight(p)
  BY <1>1, <1>3 DEF InFlight
<1>8. AckedKept'
  BY <1>1, <1>7 DEF IInv, AckedKept, Holding
<1>9. QED
  BY <1>4, <1>5, <1>6, <1>8 DEF IInv

(* close finds its source changed. *)
LEMMA SourceChangedSafe ==
  ASSUME IInv, TypeInv', NEW c \in Client, SourceChanged(c)
  PROVE  IInv'
<1>1. /\ UNCHANGED <<backend, store, acked, lock>>
      /\ h' = [h EXCEPT ![c] = [h[c] EXCEPT !.pc = "undo"]]
      /\ h[c].pc = "recheck"
  BY DEF SourceChanged, Goes
<1>2. h[c] \in Handler /\ h \in [Client -> Handler]
  BY DEF IInv, TypeInv, TypeOK
<1>3. /\ h'[c].pc = "undo" /\ h'[c].tgt = h[c].tgt /\ h'[c].q = h[c].q /\ h'[c].snap = h[c].snap
      /\ \A d \in Client : d # c => h'[d] = h[d]
  BY <1>1, <1>2 DEF Handler
<1>4. Locked' /\ Window'
  BY <1>1, <1>3 DEF IInv, Locked, Window, Expected
<1>5. Copied' /\ Own'
  <2>1. \A d \in Client : Copying(d)' =>
          Copying(d) /\ h'[d].tgt = h[d].tgt /\ h'[d].snap = h[d].snap
    BY <1>1, <1>3
  <2>2. Copied'
    BY <1>1, <2>1 DEF IInv, Copied
  <2>3. QED
    BY <2>1, <2>2 DEF IInv, Own
<1>6. \A p \in Path : InFlight(p)' => InFlight(p)
  BY <1>1, <1>3 DEF InFlight
<1>7. AckedKept'
  BY <1>1, <1>6 DEF IInv, AckedKept, Holding
<1>8. QED
  BY <1>4, <1>5, <1>7 DEF IInv

(* The path a handler puts to is no close's copy. *)
LEMMA PutsElsewhere ==
  ASSUME IInv, Sheltered, NEW c \in Client, h[c].pc \in {"check", "write"},
         store[h[c].tgt] = Expected(c), NEW d \in Client, Copying(d)
  PROVE  h[d].tgt # h[c].tgt
<1>1. h[c].q \in Calls
  BY AtWork DEF IInv
<1>2. h[d].tgt # h[c].q.at
  BY <1>1, CopyIsArchived DEF IInv
<1>3. store[h[d].tgt] # Absent
  BY DEF IInv, Copied
<1>4. QED
  BY <1>2, <1>3 DEF Expected

(* The put goes through: what the edits of the note's old text were in is  *)
(* replaced by a text that keeps them, or by one that was to replace them. *)
LEMMA CommitsSafe ==
  ASSUME IInv, TypeInv', Sheltered, NEW c \in Client, h[c].pc \in {"check", "write"},
         Commits(c), store[h[c].tgt] = Expected(c),
         \A d \in Client : d # c => h[d].pc \notin {"write", "unlink"},
         UNCHANGED backend
  PROVE  IInv'
<1>1. /\ h[c] \in Handler /\ h \in [Client -> Handler] /\ Shape(h[c]) /\ h[c].q \in Calls
      /\ h[c].tgt \in Path /\ store \in [Path -> Object \cup {Absent}] /\ h[c].q.kind \in Kind
      /\ h[c].q.kind \notin {"move", "delete", "put"} /\ h[c].tgt \in Homes(h[c])
  BY AtWork, CallTypes DEF IInv, TypeInv, TypeOK, Shape
<1> DEFINE x == IF Archives(c) THEN "recheck" ELSE "index"
           p0 == h[c].tgt
           new == Stamped(NewText(c))
<1>2. /\ h' = [h EXCEPT ![c] = [h[c] EXCEPT !.out = new, !.pc = x]]
      /\ store' = [store EXCEPT ![p0] = new]
  BY DEF Commits, Goes, Stores
<1>3. /\ h'[c].pc = x /\ h'[c].tgt = p0 /\ h'[c].q = h[c].q /\ h'[c].snap = h[c].snap
      /\ \A d \in Client : d # c => h'[d] = h[d]
  BY <1>1, <1>2 DEF Handler
<1>4. store'[p0] = new /\ \A p \in Path : p # p0 => store'[p] = store[p]
  BY <1>1, <1>2
<1>5. new \in Object /\ new # Absent /\ LinesOf(new) = NewText(c).lines
  <2>1. NewText(c) \in Text
    BY NewTextType DEF IInv
  <2>2. new \in Object /\ new.text = NewText(c)
    BY <2>1, StampedType DEF Stamped, IInv, TypeInv
  <2>3. new # Absent
    BY <2>2 DEF NoteStoreAssumption
  <2>4. QED
    BY <2>2, <2>3 DEF LinesOf
<1>6. \A d \in Client : d # c /\ Copying(d) => h[d].tgt # p0
  BY PutsElsewhere
<1>7. Archives(c) => store[p0] = Absent
  <2>1. Archives(c) => h[c].q.at \in Note /\ p0 \in Listed(h[c].q.at)
    BY <1>1, CallTypes DEF Archives, Homes
  <2>2. Archives(c) => p0 # h[c].q.at
    BY <1>1, <2>1 DEF Sheltered, ArchiveApart
  <2>3. QED
    BY <2>2 DEF Expected
<1>8. x \in {"recheck", "index"} /\ (x = "recheck" <=> Archives(c))
  OBVIOUS
<1> HIDE DEF x, new, p0
<1>9. \A d \in Client : h'[d].pc \notin {"write", "unlink"}
  BY <1>3, <1>8
<1>10. Locked' /\ Window'
  BY <1>9 DEF Locked, Window
<1>11. \A d \in Client : Copying(d)' => d = c \/ Copying(d)
  BY <1>3
<1>12. Copied'
  <2> SUFFICES ASSUME NEW d \in Client, Copying(d)'
               PROVE  store'[h'[d].tgt] # Absent /\ LinesOf(h'[d].snap) \subseteq LinesOf(store'[h'[d].tgt])
    BY DEF Copied
  <2>1. CASE d = c
    <3>1. Archives(c)
      BY <1>3, <1>8, <2>1
    <3>2. NewText(c).lines = LinesOf(h[c].snap)
      BY <3>1 DEF NewText, Archives, Adding, Filing
    <3>3. QED
      BY <1>3, <1>4, <1>5, <2>1, <3>2
  <2>2. CASE d # c
    <3>1. Copying(d) /\ h'[d] = h[d]
      BY <1>3, <2>2
    <3>2. h[d].tgt # p0 /\ h[d].tgt \in Path
      BY <1>6, <2>2, <3>1, CopyIsArchived DEF IInv
    <3>3. QED
      BY <1>4, <3>1, <3>2 DEF IInv, Copied
  <2>3. QED
    BY <2>1, <2>2
<1>13. Own'
  <2>1. \A d \in Client : d # c /\ Copying(d)' => h'[d].tgt # p0
    BY <1>3, <1>6
  <2>2. QED
    BY <1>3, <1>11, <2>1 DEF IInv, Own
<1>14. \A p \in Path : p # p0 /\ InFlight(p)' => InFlight(p)
  BY <1>3 DEF InFlight
<1>15. AckedKept'
  <2> SUFFICES ASSUME NEW l \in acked'
               PROVE  \E p \in Path : l \in LinesOf(store'[p]) /\ ~InFlight(p)'
    BY DEF AckedKept, Holding
  <2>1. CASE Archives(c)
    <3>1. acked' = acked
      BY <2>1 DEF Commits, Archives, Replacing, Adding, Filing
    <3>2. PICK p \in Path : l \in LinesOf(store[p]) /\ ~InFlight(p)
      BY <3>1 DEF IInv, AckedKept, Holding
    <3>3. p # p0
      BY <1>7, <2>1, <3>2 DEF LinesOf
    <3>4. QED
      BY <1>4, <1>14, <3>2, <3>3
  <2>2. CASE ~Archives(c)
    <3>1. \A p \in Path : p = p0 => ~InFlight(p)'
      BY <1>3, <1>6, <1>8, <2>2 DEF InFlight
    <3>2. CASE l \in NewText(c).lines
      <4>1. p0 \in Path
        BY <1>1 DEF p0
      <4>2. l \in LinesOf(store'[p0])
        BY <1>4, <1>5, <3>2
      <4>3. QED
        BY <3>1, <4>1, <4>2
    <3>3. CASE l \notin NewText(c).lines
      <4>1. l # Edit(c) \/ h[c].q.kind \notin Adding
        BY <3>3 DEF NewText, Adding, Filing
      <4>2. l \in acked /\ (h[c].q.kind \in Replacing => l \notin LinesOf(h[c].snap))
        BY <4>1 DEF Commits
      <4>3. PICK p \in Path : l \in LinesOf(store[p]) /\ ~InFlight(p)
        BY <4>2 DEF IInv, AckedKept, Holding
      <4>4. p # p0
        <5>1. ASSUME p = p0 PROVE FALSE
          <6>1. Expected(c) # Absent /\ l \in LinesOf(Expected(c))
            BY <4>3, <5>1 DEF p0, LinesOf
          <6>2. p0 = h[c].q.at /\ l \in LinesOf(h[c].snap)
            BY <6>1 DEF p0, Expected
          <6>3. h[c].q.kind \notin Replacing \cup {"append", "log"}
            BY <3>3, <4>2, <6>2 DEF NewText
          <6>4. h[c].q.kind \notin Filing
            <7>1. h[c].q.kind \in Filing => h[c].q.at \in Title
              BY <1>1, CallTypes
            <7>2. QED
              BY <1>1, <6>2, <7>1 DEF p0, NoteStoreAssumption
          <6>5. h[c].q.kind \notin Adding
            BY <1>1, <6>3, <6>4 DEF Adding, Replacing
          <6>6. NewText(c).lines = LinesOf(h[c].snap)
            BY <6>3, <6>5 DEF NewText
          <6>7. QED
            BY <3>3, <6>2, <6>6
        <5>2. QED
          BY <5>1
      <4>5. QED
        BY <1>4, <1>14, <4>3, <4>4
    <3>4. QED
      BY <3>2, <3>3
  <2>3. QED
    BY <2>1, <2>2
<1>16. QED
  BY <1>10, <1>12, <1>13, <1>15 DEF IInv

LEMMA PutsSafe ==
  ASSUME IInv, TypeInv', Sheltered, NEW c \in Client, PutIfMatch(c) \/ Write(c)
  PROVE  IInv'
<1>1. /\ h[c].pc \in {"check", "write"} /\ Commits(c) /\ UNCHANGED backend
      /\ store[h[c].tgt] = Expected(c)
  BY DEF PutIfMatch, Write, IInv, Window
<1>2. \A d \in Client : d # c => h[d].pc \notin {"write", "unlink"}
  BY NoneBetween, Alone DEF PutIfMatch, Write, IInv
<1>3. QED
  BY <1>1, <1>2, CommitsSafe

(* close deletes the source it read: the copy has every line of it. *)
LEMMA SourceGone ==
  ASSUME IInv, TypeInv', Sheltered, NEW c \in Client, DeleteIfMatch(c) \/ Unlink(c)
  PROVE  IInv'
<1>1. /\ h[c] \in Handler /\ h \in [Client -> Handler] /\ store \in [Path -> Object \cup {Absent}]
      /\ Copying(c)
  BY DEF DeleteIfMatch, Unlink, IInv, TypeInv, TypeOK
<1>2. /\ UNCHANGED <<backend, acked>>
      /\ store' = [store EXCEPT ![h[c].q.at] = Absent]
      /\ store[h[c].q.at] = h[c].snap
      /\ Returns(c) \/ Goes(c, [h[c] EXCEPT !.pc = "index"])
  BY DEF DeleteIfMatch, Unlink, Removes, IInv, Window
<1>3. Settled(h'[c]) /\ \A d \in Client : d # c => h'[d] = h[d]
  <2>1. CASE Returns(c)
    BY <2>1, RetriesSettled DEF IInv
  <2>2. CASE Goes(c, [h[c] EXCEPT !.pc = "index"])
    BY <1>1, <2>2 DEF Goes, Handler, Settled
  <2>3. QED
    BY <1>2, <2>1, <2>2
<1>4. \A d \in Client : d # c => h[d].pc \notin {"write", "unlink"}
  BY NoneBetween, Alone DEF DeleteIfMatch, Unlink, IInv
<1>5. \A d \in Client : Copying(d)' => d # c /\ Copying(d) /\ h'[d] = h[d]
  BY <1>3 DEF Settled
<1>6. \A d \in Client : Copying(d) => h[d].tgt # h[c].q.at /\ h[d].tgt \in Path
  <2>1. h[c].q \in Calls
    BY <1>1, CopyIsArchived DEF IInv
  <2>2. QED
    BY <2>1, CopyIsArchived DEF IInv
<1>7. Locked' /\ Window'
  <2>1. \A d \in Client : h'[d].pc \notin {"write", "unlink"}
    <3>1. h'[c].pc \notin {"write", "unlink"}
      BY <1>3 DEF Settled
    <3>2. QED
      BY <1>3, <1>4, <3>1
  <2>2. QED
    BY <2>1 DEF Locked, Window
<1>8. Copied' /\ Own'
  <2>1. \A d \in Client : Copying(d)' => store'[h[d].tgt] = store[h[d].tgt]
    BY <1>1, <1>2, <1>5, <1>6
  <2>2. Copied'
    BY <1>5, <2>1 DEF IInv, Copied
  <2>3. QED
    BY <1>5, <2>2 DEF IInv, Own
<1>9. \A p \in Path : InFlight(p)' => InFlight(p) /\ p # h[c].tgt
  BY <1>1, <1>5 DEF InFlight, IInv, Own
<1>10. AckedKept'
  <2> SUFFICES ASSUME NEW l \in acked
               PROVE  \E p \in Path : l \in LinesOf(store'[p]) /\ ~InFlight(p)'
    BY <1>2 DEF AckedKept, Holding
  <2>1. PICK p \in Path : l \in LinesOf(store[p]) /\ ~InFlight(p)
    BY DEF IInv, AckedKept, Holding
  <2>2. CASE p = h[c].q.at
    <3>1. l \in LinesOf(store[h[c].tgt])
      BY <1>1, <1>2, <2>1, <2>2 DEF IInv, Copied
    <3>2. store'[h[c].tgt] = store[h[c].tgt] /\ h[c].tgt \in Path
      BY <1>1, <1>2, <1>6
    <3>3. QED
      BY <1>9, <3>1, <3>2
  <2>3. CASE p # h[c].q.at
    BY <1>1, <1>2, <1>9, <2>1, <2>3
  <2>4. QED
    BY <2>2, <2>3
<1>11. QED
  BY <1>7, <1>8, <1>10 DEF IInv

(* close takes its copy back: nobody else's edit was in it. *)
LEMMA UndoSafe ==
  ASSUME IInv, TypeInv', Sheltered, NEW c \in Client, Undo(c)
  PROVE  IInv'
<1>1. /\ h[c] \in Handler /\ h \in [Client -> Handler] /\ store \in [Path -> Object \cup {Absent}]
      /\ Copying(c)
  BY DEF Undo, IInv, TypeInv, TypeOK
<1>2. UNCHANGED <<backend, lock, acked>> /\ store' = [store EXCEPT ![h[c].tgt] = Absent]
  BY DEF Undo, Removes
<1>3. Settled(h'[c]) /\ \A d \in Client : d # c => h'[d] = h[d]
  BY RetriesSettled DEF Undo, IInv
<1>4. \A d \in Client : Copying(d)' => d # c /\ Copying(d) /\ h'[d] = h[d]
  BY <1>3 DEF Settled
<1>5. \A d \in Client : d # c /\ Copying(d) => h[d].tgt # h[c].tgt /\ h[d].tgt \in Path
  BY <1>1, CopyIsArchived DEF IInv, Own
<1>6. Locked'
  BY <1>2, <1>3 DEF IInv, Locked, Settled
<1>7. Window'
  <2>1. \A d \in Client : h[d].pc = "write" => h[d].tgt # h[c].tgt /\ h[d].tgt \in Path
    <3> SUFFICES ASSUME NEW d \in Client, h[d].pc = "write"
                 PROVE  h[d].tgt # h[c].tgt /\ h[d].tgt \in Path
      OBVIOUS
    <3>1. store[h[d].tgt] = Expected(d)
      BY DEF IInv, Window
    <3>2. QED
      BY <1>1, <3>1, PutsElsewhere, AtWork DEF IInv, Shape
  <2>2. \A d \in Client : h[d].pc = "unlink" => h[d].q.at # h[c].tgt /\ h[d].q.at \in Path
    <3> SUFFICES ASSUME NEW d \in Client, h[d].pc = "unlink"
                 PROVE  h[d].q.at # h[c].tgt /\ h[d].q.at \in Path
      OBVIOUS
    <3>1. h[d].q \in Calls /\ h[d].q.at \in Note
      BY CopyIsArchived DEF IInv
    <3>2. QED
      BY <1>1, <3>1, CopyIsArchived DEF IInv, Path
  <2>3. QED
    BY <1>1, <1>2, <1>3, <2>1, <2>2 DEF IInv, Window, Settled, Expected
<1>8. Copied'
  <2>1. \A d \in Client : Copying(d)' => /\ store'[h[d].tgt] = store[h[d].tgt]
                                        /\ h'[d] = h[d] /\ Copying(d)
    BY <1>1, <1>2, <1>4, <1>5
  <2>2. QED
    BY <2>1 DEF IInv, Copied
<1>9. Own'
  BY <1>4 DEF IInv, Own
<1>10. \A p \in Path : InFlight(p)' => InFlight(p)
  BY <1>4 DEF InFlight
<1>11. AckedKept'
  <2> SUFFICES ASSUME NEW l \in acked
               PROVE  \E p \in Path : l \in LinesOf(store'[p]) /\ ~InFlight(p)'
    BY <1>2 DEF AckedKept, Holding
  <2>1. PICK p \in Path : l \in LinesOf(store[p]) /\ ~InFlight(p)
    BY DEF IInv, AckedKept, Holding
  <2>2. p # h[c].tgt
    BY <1>1, <2>1 DEF InFlight
  <2>3. QED
    BY <1>1, <1>2, <1>10, <2>1, <2>2
<1>12. QED
  BY <1>6, <1>7, <1>8, <1>9, <1>11 DEF IInv

LEMMA CrashSafe ==
  ASSUME IInv, TypeInv', NEW s \in Process, Crash(s)
  PROVE  IInv'
<1>1. /\ UNCHANGED <<backend, store, acked>>
      /\ \A d \in Client : h'[d] = h[d] \/ h'[d].pc = "idle"
      /\ \A d \in Client : h'[d].pc # "idle" => ProcOf[d] # s /\ h'[d] = h[d]
      /\ lock' = [lock EXCEPT ![s] = Free]
  BY DEF Crash, Resting
<1>2. Locked'
  BY <1>1 DEF IInv, Locked, TypeInv, TypeOK, NoteStoreAssumption
<1>3. Window'
  BY <1>1 DEF IInv, Window, Expected
<1>4. \A d \in Client : Copying(d)' => Copying(d) /\ h'[d] = h[d]
  BY <1>1
<1>5. Copied'
  BY <1>1, <1>4 DEF IInv, Copied
<1>6. Own'
  BY <1>4 DEF IInv, Own
<1>7. \A p \in Path : InFlight(p)' => InFlight(p)
  BY <1>4 DEF InFlight
<1>8. AckedKept'
  BY <1>1, <1>7 DEF IInv, AckedKept, Holding
<1>9. QED
  BY <1>2, <1>3, <1>5, <1>6, <1>8 DEF IInv

(* The steps of the unconditional requests. *)
LEMMA NoBlindStep ==
  ASSUME TypeInv, Conditional, NEW c \in Client
  PROVE  ~(Fetch(c) \/ Rename(c) \/ CopyAcross(c) \/ DropSource(c) \/ Reread(c)
           \/ Delete(c) \/ Put(c) \/ Mark(c))
<1>1. h[c].pc \notin {"fetch", "move", "drop", "reread", "delete", "put", "mark"}
  BY AtWork DEF Shape, Conditional
<1>2. QED
  BY <1>1 DEF Fetch, Rename, CopyAcross, DropSource, Reread, Delete, Put, Mark

LEMMA InitSafe == Init => IInv
<1> SUFFICES ASSUME Init PROVE IInv
  OBVIOUS
<1>1. TypeInv
  BY InitTypes
<1>2. \A c \in Client : h[c].pc = "idle"
  BY DEF Init, Resting
<1>3. Locked /\ Window /\ Copied /\ Own
  BY <1>2 DEF Locked, Window, Copied, Own
<1>4. AckedKept
  <2> SUFFICES ASSUME NEW p \in Note
               PROVE  p \in Path /\ p \in LinesOf(store[p]) /\ ~InFlight(p)
    BY DEF Init, AckedKept, Holding
  <2>1. p \in Path /\ store[p] = [text |-> [lines |-> {p}, claim |-> NoClaim], stamp |-> 0]
    BY DEF Init, Path
  <2>2. store[p] # Absent
    BY <2>1 DEF NoteStoreAssumption, Object, Text, Line, Path, Claim
  <2>3. QED
    BY <1>2, <2>1, <2>2 DEF LinesOf, InFlight
<1>5. QED
  BY <1>1, <1>3, <1>4 DEF IInv

LEMMA NextSafe == Sheltered /\ IInv /\ [Next]_vars => IInv'
<1> SUFFICES ASSUME Sheltered, IInv, [Next]_vars PROVE IInv'
  OBVIOUS
<1>1. TypeInv'
  BY NextTypes DEF IInv
<1>2. ASSUME NEW c \in Client, Begin(c) PROVE IInv'
  BY <1>1, <1>2, BeginSafe
<1>3. ASSUME NEW c \in Client, Continue(c) PROVE IInv'
  BY <1>1, <1>3, QuietActions, EntersLock, SourceChangedSafe, PutsSafe, SourceGone, UndoSafe,
     NoBlindStep DEF Continue, IInv, Sheltered
<1>4. ASSUME NEW s \in Process, Crash(s) PROVE IInv'
  BY <1>1, <1>4, CrashSafe
<1>5. CASE UNCHANGED vars
  <2>1. UNCHANGED <<backend, store, lock, acked, h>>
    BY <1>5 DEF vars
  <2>2. Locked' /\ Window' /\ Copied' /\ Own'
    BY <2>1 DEF IInv, Locked, Window, Expected, Copied, Own
  <2>3. AckedKept'
    BY <2>1 DEF IInv, AckedKept, Holding, InFlight
  <2>4. QED
    BY <1>1, <2>2, <2>3 DEF IInv
<1>6. QED
  BY <1>2, <1>3, <1>4, <1>5 DEF Next

(* Where every call is conditional on the version it read, no answered     *)
(* edit is lost: not to another edit, not to a close that archives the     *)
(* note under it or takes its copy back, and not to a server that is       *)
(* killed, for any number of clients, notes, attempts and crashes.         *)
THEOREM AckedEditsKept == Sheltered => (Spec => []AckedKept)
<1> SUFFICES ASSUME Sheltered PROVE Spec => []AckedKept
  OBVIOUS
<1>1. Init => IInv
  BY InitSafe
<1>2. IInv /\ [Next]_vars => IInv'
  BY NextSafe
<1>3. IInv => AckedKept
  BY DEF IInv
<1>4. QED
  BY <1>1, <1>2, <1>3, PTL DEF Spec

-----------------------------------------------------------------------------
(* The handlers against the book of NoteBook.  A handler goes on with a    *)
(* note it may act on, and a copy is what its close read, less the claim.  *)
Admit(r) ==
  r.pc \in {"name", "hold", "check", "write", "recheck", "unlink", "undo"}
      /\ r.q.kind \in Rewriting \cup {"close"}
    => ~Refuses(r.q, r.snap)
Admitted == \A c \in Client : Admit(h[c])
Verbatim == \A c \in Client : Copying(c) =>
  store[h[c].tgt].text = [lines |-> LinesOf(h[c].snap), claim |-> NoClaim]

BookInv == IInv /\ Admitted /\ Verbatim

LEMMA AdmittedStep ==
  ASSUME Admitted, NEW c \in Client, Admit(h'[c]), \A d \in Client : d # c => h'[d] = h[d]
  PROVE  Admitted'
BY DEF Admitted, Admit

LEMMA FreshAdmitted ==
  ASSUME NEW q, NEW o, NEW n, NEW L
  PROVE  Admit(Fresh(q, o, n, L)) /\ Admit(Resting)
<1>1. First(q) \in {"name", "hold"} => q.kind \in Filing \cup {"etag"}
  BY DEF First
<1>2. /\ First(q) \in {"name", "hold", "read"} \cup {q.kind}
      /\ (First(q) = q.kind => First(q) \in {"name", "hold", "read", "delete", "put"})
  BY DEF First
<1>3. QED
  BY <1>1, <1>2 DEF Fresh, Resting, Admit, Filing, Rewriting

(* Who starts over or gives up copies nothing. *)
LEMMA RetriesAdmitted ==
  ASSUME TypeInv, NEW c \in Client, NEW L, Retries(c, L) \/ Returns(c)
  PROVE  Admit(h'[c]) /\ Settled(h'[c]) /\ \A d \in Client : d # c => h'[d] = h[d]
<1>1. Settled(h'[c]) /\ \A d \in Client : d # c => h'[d] = h[d]
  BY RetriesSettled
<1>2. Admit(h'[c])
  BY FreshAdmitted DEF Retries, Returns, Goes, TypeInv, TypeOK
<1>3. QED
  BY <1>1, <1>2

(* A call is retried as it was, or it is over; write_file with an etag is not retried. *)
LEMMA RetriesOrEnds ==
  ASSUME TypeInv, NEW c \in Client, NEW L, Retries(c, L) \/ Returns(c), h[c].pc # "idle"
  PROVE  \/ h'[c].pc = "idle"
         \/ h'[c].q = h[c].q /\ h'[c].pc \notin {"idle", "index"} /\ h[c].q.kind # "etag"
<1>1. h[c].q \in Calls /\ h[c].tries \in Nat /\ h \in [Client -> Handler]
  BY AtWork DEF Handler, TypeInv, TypeOK
<1>2. CASE Returns(c)
  BY <1>1, <1>2 DEF Returns, Goes, Resting
<1>3. CASE ~Returns(c)
  <2>1. h[c].tries + 1 < Limit(h[c].q) /\ Goes(c, Fresh(h[c].q, Absent, h[c].tries + 1, h[c].lost \cup L))
    BY <1>3 DEF Retries
  <2>2. h[c].q.kind # "etag"
    BY <1>1, <2>1 DEF Limit
  <2>3. h'[c].q = h[c].q /\ h'[c].pc = First(h[c].q)
    BY <1>1, <2>1 DEF Goes, Fresh
  <2>4. First(h[c].q) \notin {"idle", "index"}
    BY DEF First
  <2>5. QED
    BY <2>2, <2>3, <2>4
<1>4. QED
  BY <1>2, <1>3

(* A step of a handler that copies nothing, before or after, beside the copies. *)
LEMMA VerbatimApart ==
  ASSUME BookInv, NEW c \in Client, \A d \in Client : d # c => h'[d] = h[d], Settled(h'[c]),
         \A d \in Client : d # c /\ Copying(d) => store'[h[d].tgt] = store[h[d].tgt]
  PROVE  Verbatim'
BY DEF BookInv, Verbatim, Settled

LEMMA BeginAdmits ==
  ASSUME BookInv, NEW c \in Client, Begin(c)
  PROVE  Admitted' /\ Verbatim'
<1>1. /\ Admit(h'[c]) /\ Settled(h'[c])
      /\ \A d \in Client : d # c => h'[d] = h[d]
  BY FreshAdmitted, FreshSettled DEF Begin, Goes, BookInv, IInv, TypeInv, TypeOK
<1>2. store' = store
  BY DEF Begin
<1>3. QED
  BY <1>1, <1>2, AdmittedStep, VerbatimApart DEF BookInv

LEMMA QuietGoes ==
  ASSUME TypeInv, Admitted, NEW c \in Client, Read(c) \/ Name(c) \/ Hold(c) \/ Conflict(c) \/ Index(c)
  PROVE  /\ UNCHANGED <<store, calls, crashes>> /\ \A d \in Client : d # c => h'[d] = h[d]
         /\ Admit(h'[c]) /\ Settled(h[c]) /\ Settled(h'[c]) /\ h[c].pc # "idle"
         /\ h[c].pc = "index" => h'[c].pc = "idle"
         /\ \/ h'[c].pc = "idle"
            \/ h'[c].q = h[c].q /\ h'[c].pc \notin {"idle", "index"}
               /\ (h[c].q.kind = "etag" => h'[c].snap = h[c].snap)
<1>1. h[c] \in Handler /\ h \in [Client -> Handler] /\ Admit(h[c])
  BY DEF Admitted, TypeInv, TypeOK
<1>2. UNCHANGED <<store, calls, crashes>> /\ h[c].pc # "idle" /\ Settled(h[c])
  BY DEF Read, Name, Hold, Conflict, Index, Settled
<1>3. CASE Read(c)
  <2>1. CASE Returns(c)
    <3>1. Admit(h'[c]) /\ Settled(h'[c]) /\ \A d \in Client : d # c => h'[d] = h[d]
      BY <2>1, RetriesAdmitted
    <3>2. h'[c].pc = "idle"
      BY <1>1, <2>1 DEF Returns, Goes, Resting
    <3>3. QED
      BY <1>2, <3>1, <3>2
  <2>2. CASE ~Returns(c)
    <3> DEFINE x == CASE Archives(c) -> "name"
                      [] h[c].q.kind = "move" -> IF backend.move = "reput" THEN "fetch" ELSE "move"
                      [] OTHER -> "check"
    <3>1. /\ h[c].pc = "read" /\ ~Refuses(h[c].q, store[h[c].q.at])
          /\ Goes(c, [h[c] EXCEPT !.snap = store[h[c].q.at], !.pc = x])
      BY <1>3, <2>2 DEF Read
    <3>2. x \in {"name", "fetch", "move", "check"}
      OBVIOUS
    <3> HIDE DEF x
    <3>3. /\ h'[c].q = h[c].q /\ h'[c].snap = store[h[c].q.at] /\ h'[c].pc = x
          /\ \A d \in Client : d # c => h'[d] = h[d]
      BY <1>1, <3>1 DEF Goes, Handler
    <3>4. Settled(h'[c]) /\ Admit(h'[c])
      BY <3>1, <3>2, <3>3 DEF Settled, Admit
    <3>5. h[c].q.kind # "etag"
      BY <3>1, AtWork DEF Shape
    <3>6. QED
      BY <1>2, <3>1, <3>2, <3>3, <3>4, <3>5
  <2>3. QED
    BY <2>1, <2>2
<1>4. CASE Name(c) \/ Hold(c)
  <2>1. PICK t, x : /\ x \in {"hold", "check"}
                    /\ \/ Goes(c, [h[c] EXCEPT !.tgt = t, !.pc = x])
                       \/ Goes(c, [h[c] EXCEPT !.held = t, !.pc = x])
    BY <1>4 DEF Name, Hold
  <2>2. /\ h'[c].q = h[c].q /\ h'[c].snap = h[c].snap /\ h'[c].pc = x
        /\ \A d \in Client : d # c => h'[d] = h[d]
    <3>1. CASE Goes(c, [h[c] EXCEPT !.tgt = t, !.pc = x])
      BY <1>1, <3>1 DEF Goes, Handler
    <3>2. CASE Goes(c, [h[c] EXCEPT !.held = t, !.pc = x])
      BY <1>1, <3>2 DEF Goes, Handler
    <3>3. QED
      BY <2>1, <3>1, <3>2
  <2>3. h[c].pc \in {"name", "hold"}
    BY <1>4 DEF Name, Hold
  <2>4. Settled(h'[c]) /\ Admit(h'[c])
    BY <1>1, <2>1, <2>2, <2>3 DEF Settled, Admit
  <2>5. QED
    BY <1>2, <2>1, <2>2, <2>3, <2>4
<1>5. CASE Conflict(c)
  <2>1. PICK L : Retries(c, L) /\ h[c].pc = "check"
    BY <1>5 DEF Conflict
  <2>2. Admit(h'[c]) /\ Settled(h'[c]) /\ \A d \in Client : d # c => h'[d] = h[d]
    BY <2>1, RetriesAdmitted
  <2>3. \/ h'[c].pc = "idle"
        \/ h'[c].q = h[c].q /\ h'[c].pc \notin {"idle", "index"} /\ h[c].q.kind # "etag"
    BY <2>1, RetriesOrEnds
  <2>4. QED
    BY <1>2, <2>1, <2>2, <2>3
<1>6. CASE Index(c)
  <2>1. Admit(h'[c]) /\ Settled(h'[c]) /\ \A d \in Client : d # c => h'[d] = h[d]
    BY <1>6, RetriesAdmitted DEF Index
  <2>2. h'[c].pc = "idle"
    BY <1>1, <1>6 DEF Index, Returns, Goes, Resting
  <2>3. QED
    BY <1>2, <2>1, <2>2
<1>7. QED
  BY <1>3, <1>4, <1>5, <1>6

LEMMA QuietAdmits ==
  ASSUME BookInv, NEW c \in Client, Read(c) \/ Name(c) \/ Hold(c) \/ Conflict(c) \/ Index(c)
  PROVE  Admitted' /\ Verbatim'
<1>1. store' = store /\ Admit(h'[c]) /\ Settled(h'[c]) /\ \A d \in Client : d # c => h'[d] = h[d]
  BY QuietGoes DEF BookInv, IInv
<1>2. QED
  BY <1>1, AdmittedStep, VerbatimApart DEF BookInv

(* Between a check and what it allows, only the handler's place changes. *)
LEMMA EntersAdmits ==
  ASSUME BookInv, NEW c \in Client, Check(c) \/ Recheck(c) \/ SourceChanged(c)
  PROVE  /\ Admitted' /\ Verbatim'
         /\ store' = store /\ calls' = calls /\ crashes' = crashes
         /\ h'[c].q = h[c].q /\ h'[c].snap = h[c].snap /\ h'[c].tgt = h[c].tgt
         /\ h[c].pc \in {"check", "recheck"}
         /\ h'[c].pc \in {"write", "unlink", "undo"} /\ (Copying(c)' <=> Copying(c))
         /\ \A d \in Client : d # c => h'[d] = h[d]
<1>1. PICK x : /\ Goes(c, [h[c] EXCEPT !.pc = x])
               /\ \/ x = "write" /\ h[c].pc = "check"
                  \/ x \in {"unlink", "undo"} /\ h[c].pc = "recheck"
               /\ UNCHANGED <<store, calls, crashes>>
  BY DEF Check, Recheck, SourceChanged
<1>2. h[c] \in Handler /\ h \in [Client -> Handler] /\ Admit(h[c])
  BY DEF BookInv, Admitted, IInv, TypeInv, TypeOK
<1>3. /\ h'[c].q = h[c].q /\ h'[c].snap = h[c].snap /\ h'[c].tgt = h[c].tgt /\ h'[c].pc = x
      /\ \A d \in Client : d # c => h'[d] = h[d]
  BY <1>1, <1>2 DEF Goes, Handler
<1>4. Admitted'
  BY <1>1, <1>2, <1>3, AdmittedStep DEF Admit, BookInv
<1>5. Verbatim'
  <2>1. \A d \in Client : Copying(d)' => Copying(d) /\ h'[d].tgt = h[d].tgt /\ h'[d].snap = h[d].snap
    BY <1>1, <1>3
  <2>2. QED
    BY <1>1, <2>1 DEF Verbatim, BookInv
<1>6. QED
  BY <1>1, <1>3, <1>4, <1>5

(* A put, and what it leaves: the copy of a close, or a note that stands. *)
LEMMA PutAdmits ==
  ASSUME BookInv, Sheltered, NEW c \in Client, PutIfMatch(c) \/ Write(c)
  PROVE  /\ Admitted' /\ Verbatim'
         /\ store[h[c].tgt] = Expected(c) /\ h[c].tgt \in Path /\ h[c].pc \in {"check", "write"}
         /\ store'[h[c].tgt] \in Object /\ store'[h[c].tgt] # Absent
         /\ store'[h[c].tgt].text = NewText(c)
         /\ \A p \in Path : p # h[c].tgt => store'[p] = store[p]
         /\ h'[c].q = h[c].q /\ h'[c].snap = h[c].snap /\ h'[c].tgt = h[c].tgt
         /\ h'[c].pc = IF Archives(c) THEN "recheck" ELSE "index"
         /\ \A d \in Client : d # c => h'[d] = h[d]
         /\ \A d \in Client : Copying(d) => h[d].tgt # h[c].tgt
         /\ calls' = calls /\ crashes' = crashes
<1>1. /\ h[c].pc \in {"check", "write"} /\ Commits(c) /\ UNCHANGED <<calls, crashes>>
      /\ store[h[c].tgt] = Expected(c)
  BY DEF PutIfMatch, Write, BookInv, IInv, Window
<1>2. /\ h[c] \in Handler /\ h \in [Client -> Handler] /\ Shape(h[c]) /\ h[c].q \in Calls
      /\ h[c].tgt \in Path /\ store \in [Path -> Object \cup {Absent}] /\ Admit(h[c])
  BY <1>1, AtWork DEF BookInv, Admitted, IInv, TypeInv, TypeOK, Shape
<1> DEFINE x == IF Archives(c) THEN "recheck" ELSE "index"
           new == Stamped(NewText(c))
<1>3. /\ h' = [h EXCEPT ![c] = [h[c] EXCEPT !.out = new, !.pc = x]]
      /\ store' = [store EXCEPT ![h[c].tgt] = new]
  BY <1>1 DEF Commits, Goes, Stores
<1>4. new \in Object /\ new.text = NewText(c) /\ new # Absent
  <2>1. NewText(c) \in Text
    BY <1>1, NewTextType DEF BookInv, IInv
  <2>2. new \in Object /\ new.text = NewText(c)
    BY <2>1, StampedType DEF Stamped, BookInv, IInv, TypeInv
  <2>3. QED
    BY <2>2
<1> HIDE DEF new
<1>5. /\ h'[c].pc = x /\ h'[c].tgt = h[c].tgt /\ h'[c].q = h[c].q /\ h'[c].snap = h[c].snap
      /\ \A d \in Client : d # c => h'[d] = h[d]
  BY <1>2, <1>3 DEF Handler
<1>6. store'[h[c].tgt] = new /\ \A p \in Path : p # h[c].tgt => store'[p] = store[p]
  BY <1>2, <1>3
<1>7. \A d \in Client : Copying(d) => h[d].tgt # h[c].tgt
  BY <1>1, PutsElsewhere DEF BookInv
<1>8. Admitted'
  BY <1>1, <1>2, <1>5, AdmittedStep DEF Admit, BookInv
<1>9. Verbatim'
  <2> SUFFICES ASSUME NEW d \in Client, Copying(d)'
               PROVE  store'[h'[d].tgt].text = [lines |-> LinesOf(h'[d].snap), claim |-> NoClaim]
    BY DEF Verbatim
  <2>1. CASE d = c
    <3>1. Archives(c)
      BY <1>5, <2>1
    <3>2. NewText(c) = [lines |-> LinesOf(h[c].snap), claim |-> NoClaim]
      BY <3>1 DEF NewText, Archives, Adding, Filing
    <3>3. QED
      BY <1>4, <1>5, <1>6, <2>1, <3>2
  <2>2. CASE d # c
    <3>1. Copying(d) /\ h'[d] = h[d]
      BY <1>5, <2>2
    <3>2. h[d].tgt # h[c].tgt /\ h[d].tgt \in Path
      BY <1>7, <3>1, CopyIsArchived DEF BookInv, IInv
    <3>3. QED
      BY <1>6, <3>1, <3>2 DEF Verbatim, BookInv
  <2>3. QED
    BY <2>1, <2>2
<1>10. QED
  BY <1>1, <1>2, <1>4, <1>5, <1>6, <1>7, <1>8, <1>9

(* close deletes its source, or takes its copy back. *)
LEMMA DropAdmits ==
  ASSUME BookInv, Sheltered, NEW c \in Client, NEW p0,
         \/ (DeleteIfMatch(c) \/ Unlink(c)) /\ p0 = h[c].q.at
         \/ Undo(c) /\ p0 = h[c].tgt
  PROVE  /\ Admitted' /\ Verbatim' /\ Copying(c) /\ Settled(h'[c])
         /\ p0 \in Path /\ store'[p0] = Absent
         /\ \A p \in Path : p # p0 => store'[p] = store[p]
         /\ \A d \in Client : d # c => h'[d] = h[d]
         /\ \A d \in Client : d # c /\ Copying(d) => h[d].tgt # p0 /\ h[d].tgt # h[c].tgt
         /\ calls' = calls /\ crashes' = crashes
<1>1. /\ Copying(c) /\ store' = [store EXCEPT ![p0] = Absent] /\ UNCHANGED <<calls, crashes>>
      /\ \/ Returns(c) \/ Retries(c, {})
         \/ Goes(c, [h[c] EXCEPT !.pc = "index"])
  BY DEF DeleteIfMatch, Unlink, Undo, Removes
<1>2. /\ h[c] \in Handler /\ h \in [Client -> Handler] /\ h[c].q \in Calls
      /\ store \in [Path -> Object \cup {Absent}]
      /\ h[c].tgt \in Path /\ h[c].q.at \in Path
  BY <1>1, CopyIsArchived DEF BookInv, IInv, TypeInv, TypeOK, Path
<1>3. p0 \in Path
  BY <1>2
<1>4. Admit(h'[c]) /\ Settled(h'[c]) /\ \A d \in Client : d # c => h'[d] = h[d]
  <2>1. CASE Returns(c) \/ Retries(c, {})
    BY <2>1, RetriesAdmitted DEF BookInv, IInv
  <2>2. CASE Goes(c, [h[c] EXCEPT !.pc = "index"])
    BY <1>2, <2>2 DEF Goes, Handler, Admit, Settled
  <2>3. QED
    BY <1>1, <2>1, <2>2
<1>5. \A d \in Client : d # c /\ Copying(d) => h[d].tgt # p0 /\ h[d].tgt # h[c].tgt /\ h[d].tgt \in Path
  BY <1>1, <1>2, CopyIsArchived DEF BookInv, IInv, Own
<1>6. store'[p0] = Absent /\ \A p \in Path : p # p0 => store'[p] = store[p]
  BY <1>1, <1>2, <1>3
<1>7. Admitted' /\ Verbatim'
  BY <1>4, <1>5, <1>6, AdmittedStep, VerbatimApart DEF BookInv
<1>8. QED
  BY <1>1, <1>3, <1>4, <1>5, <1>6, <1>7

LEMMA CrashAdmits ==
  ASSUME BookInv, NEW s \in Process, Crash(s)
  PROVE  Admitted' /\ Verbatim'
<1>1. store' = store /\ \A d \in Client : h'[d] = h[d] \/ h'[d] = Resting
  BY DEF Crash
<1>2. Resting.pc = "idle"
  BY DEF Resting
<1>3. Admitted'
  BY <1>1, <1>2 DEF Admitted, Admit, BookInv
<1>4. Verbatim'
  BY <1>1, <1>2 DEF Verbatim, BookInv
<1>5. QED
  BY <1>3, <1>4

LEMMA BookInvInit == Init => BookInv
<1> SUFFICES ASSUME Init PROVE BookInv
  OBVIOUS
<1>1. \A c \in Client : h[c].pc = "idle"
  BY DEF Init, Resting
<1>2. QED
  BY <1>1, InitSafe DEF BookInv, Admitted, Admit, Verbatim

LEMMA BookInvNext == Sheltered /\ BookInv /\ [Next]_vars => BookInv'
<1> SUFFICES ASSUME Sheltered, BookInv, [Next]_vars PROVE BookInv'
  OBVIOUS
<1>1. IInv'
  BY NextSafe DEF BookInv
<1>2. ASSUME NEW c \in Client, Begin(c) PROVE Admitted' /\ Verbatim'
  BY <1>2, BeginAdmits
<1>3. ASSUME NEW c \in Client, Continue(c) PROVE Admitted' /\ Verbatim'
  BY <1>3, QuietAdmits, EntersAdmits, PutAdmits, DropAdmits, NoBlindStep
     DEF Continue, BookInv, IInv, Sheltered
<1>4. ASSUME NEW s \in Process, Crash(s) PROVE Admitted' /\ Verbatim'
  BY <1>4, CrashAdmits
<1>5. ASSUME UNCHANGED vars PROVE Admitted' /\ Verbatim'
  BY <1>5 DEF vars, BookInv, Admitted, Verbatim
<1>6. Admitted' /\ Verbatim'
  BY <1>2, <1>3, <1>4, <1>5 DEF Next
<1>7. QED
  BY <1>1, <1>6 DEF BookInv

-----------------------------------------------------------------------------
(* The refinement: the book is what is stored, less the copies in flight.  *)
Page(p) == IF store[p] = Absent \/ InFlight(p) THEN Absent ELSE store[p].text
Seen(c) == IF Awaited(c) # Absent /\ h[c].q.kind = "etag" /\ h[c].snap # Absent
           THEN h[c].snap.text ELSE Absent
pages == [p \in Path |-> Page(p)]
asked == [c \in Client |-> Awaited(c)]
shown == [c \in Client |-> Seen(c)]

LEMMA BookInits == Init => Book!BookInit
<1> SUFFICES ASSUME Init PROVE Book!BookInit
  OBVIOUS
<1>1. \A c \in Client : h[c] = Resting /\ Resting.pc = "idle"
  BY DEF Init, Resting
<1>2. asked = [c \in Client |-> Absent] /\ shown = [c \in Client |-> Absent]
  BY <1>1 DEF asked, shown, Awaited, Seen
<1>3. \A p \in Path : ~InFlight(p)
  BY <1>1 DEF InFlight
<1>4. \A p \in Path : Page(p) = IF p \in Note THEN [lines |-> {p}, claim |-> NoClaim] ELSE Absent
  <2>1. \A p \in Note : [text |-> [lines |-> {p}, claim |-> NoClaim], stamp |-> 0] \in Object
    BY DEF Object, Text, Line, Path, Claim
  <2>2. QED
    BY <1>3, <2>1 DEF Page, Init
<1>5. pages = [p \in Path |-> IF p \in Note THEN [lines |-> {p}, claim |-> NoClaim] ELSE Absent]
  BY <1>4 DEF pages
<1>6. calls = [c \in Client |-> 0]
  BY DEF Init
<1>7. QED
  BY <1>2, <1>5, <1>6 DEF Book!BookInit, Book!Page, pages, asked, shown, Page, Seen

(* What one handler's step leaves of the calls. *)
LEMMA OneAsks ==
  ASSUME NEW c \in Client, \A d \in Client : d # c => h'[d] = h[d]
  PROVE  /\ asked' = [asked EXCEPT ![c] = Awaited(c)']
         /\ shown' = [shown EXCEPT ![c] = Seen(c)']
<1>1. \A d \in Client : d # c => Awaited(d)' = Awaited(d) /\ Seen(d)' = Seen(d)
  BY DEF Awaited, Seen
<1>2. QED
  BY <1>1 DEF asked, shown

LEMMA SameAsked ==
  ASSUME NEW c \in Client, \A d \in Client : d # c => h'[d] = h[d],
         Awaited(c)' = Awaited(c), Seen(c)' = Seen(c)
  PROVE  asked' = asked /\ shown' = shown
BY OneAsks DEF asked, shown

(* A step that the book does not see. *)
LEMMA BookStutters ==
  ASSUME asked' = asked, shown' = shown, pages' = pages, calls' = calls
  PROVE  UNCHANGED Book!bookVars
BY DEF Book!bookVars, asked, shown, pages, Page, Seen

(* The call is over: it has taken effect, or it fails. *)
LEMMA CallEnds ==
  ASSUME TypeInv, NEW c \in Client, \A d \in Client : d # c => h'[d] = h[d], calls' = calls,
         h[c].pc \notin {"idle", "index"}, h'[c].pc \in {"idle", "index"}, NEW K, h[c].q.kind \in K
  PROVE  Book!Ends(c, K)
<1>1. Awaited(c)' = Absent /\ Seen(c)' = Absent
  BY DEF Awaited, Seen
<1>2. asked[c] = h[c].q /\ asked[c] # Absent
  BY AtWork DEF asked, Awaited
<1>3. asked' = [asked EXCEPT ![c] = Absent] /\ shown' = [shown EXCEPT ![c] = Absent]
  BY <1>1, OneAsks
<1>4. QED
  BY <1>2, <1>3 DEF Book!Ends, asked, shown, Seen

LEMMA CallFails ==
  ASSUME TypeInv, NEW c \in Client, \A d \in Client : d # c => h'[d] = h[d], calls' = calls,
         h[c].pc \notin {"idle", "index"}, h'[c].pc \in {"idle", "index"}, pages' = pages
  PROVE  Book!BookNext
<1>1. PICK K : K = {h[c].q.kind}
  OBVIOUS
<1>2. Book!Ends(c, K)
  BY <1>1, CallEnds
<1>3. K = {asked[c].kind}
  BY <1>1 DEF asked, Awaited
<1>4. Book!Fail(c)
  BY <1>2, <1>3 DEF Book!Fail, Book!Ends, pages, Page, asked
<1>5. QED
  BY <1>4 DEF Book!BookNext

LEMMA PagesStay ==
  ASSUME store' = store, \A p \in Path : InFlight(p)' <=> InFlight(p)
  PROVE  pages' = pages
BY DEF pages, Page

LEMMA SettledFlight ==
  ASSUME NEW c \in Client, \A d \in Client : d # c => h'[d] = h[d], Settled(h[c]), Settled(h'[c])
  PROVE  \A p \in Path : InFlight(p)' <=> InFlight(p)
BY DEF InFlight, Settled

LEMMA BeginAsks ==
  ASSUME BookInv, Sheltered, NEW c \in Client, Begin(c)
  PROVE  Book!BookNext
<1>1. PICK q \in Calls : Goes(c, Fresh(q, IF q.kind = "etag" THEN store[q.at] ELSE Absent, 0, {}))
  BY DEF Begin
<1>2. /\ h[c].pc = "idle" /\ store' = store /\ calls' = [calls EXCEPT ![c] = @ + 1]
      /\ h \in [Client -> Handler]
  BY DEF Begin, BookInv, IInv, TypeInv, TypeOK
<1>3. /\ h'[c].pc = First(q) /\ h'[c].q = q /\ h'[c].snap = IF q.kind = "etag" THEN store[q.at] ELSE Absent
      /\ \A d \in Client : d # c => h'[d] = h[d]
  BY <1>1, <1>2 DEF Goes, Fresh
<1>4. First(q) \notin {"idle", "index", "write", "recheck", "unlink", "undo"}
  BY DEF First
<1>5. Awaited(c)' = q /\ asked[c] = Absent
  BY <1>2, <1>3, <1>4 DEF Awaited, asked
<1>6. Seen(c)' = IF q.kind = "etag" THEN pages[q.at] ELSE Absent
  <2>1. CASE q.kind = "etag"
    <3>1. q.at \in Path /\ q # Absent
      BY <2>1, CallTypes DEF Filing
    <3>2. ~InFlight(q.at)
      BY CopyIsArchived DEF InFlight, BookInv, IInv
    <3>3. pages[q.at] = IF store[q.at] = Absent THEN Absent ELSE store[q.at].text
      BY <3>1, <3>2 DEF pages, Page
    <3>4. QED
      BY <1>3, <1>5, <2>1, <3>1, <3>3 DEF Seen
  <2>2. CASE q.kind # "etag"
    BY <1>3, <2>2 DEF Seen
  <2>3. QED
    BY <2>1, <2>2
<1>7. pages' = pages
  <2>1. Settled(h[c]) /\ Settled(h'[c])
    BY <1>2, <1>3, <1>4 DEF Settled
  <2>2. QED
    BY <1>2, <1>3, <2>1, SettledFlight, PagesStay
<1>8. /\ asked' = [asked EXCEPT ![c] = q]
      /\ shown' = [shown EXCEPT ![c] = IF q.kind = "etag" THEN pages[q.at] ELSE Absent]
  BY <1>3, <1>5, <1>6, OneAsks
<1>9. Book!Ask(c)
  BY <1>2, <1>5, <1>7, <1>8 DEF Book!Ask, asked, shown, pages, Page, Seen
<1>10. QED
  BY <1>9 DEF Book!BookNext

LEMMA QuietBook ==
  ASSUME BookInv, NEW c \in Client, Read(c) \/ Name(c) \/ Hold(c) \/ Conflict(c) \/ Index(c)
  PROVE  [Book!BookNext]_Book!bookVars
<1>1. /\ UNCHANGED <<store, calls>> /\ \A d \in Client : d # c => h'[d] = h[d]
      /\ Settled(h[c]) /\ Settled(h'[c]) /\ h[c].pc # "idle"
      /\ h[c].pc = "index" => h'[c].pc = "idle"
      /\ \/ h'[c].pc = "idle"
         \/ h'[c].q = h[c].q /\ h'[c].pc \notin {"idle", "index"}
               /\ (h[c].q.kind = "etag" => h'[c].snap = h[c].snap)
  BY QuietGoes DEF BookInv, IInv
<1>2. pages' = pages
  BY <1>1, SettledFlight, PagesStay
<1>3. CASE h'[c].pc = "idle" /\ h[c].pc # "index"
  BY <1>1, <1>2, <1>3, CallFails DEF BookInv, IInv
<1>4. CASE h'[c].pc = "idle" /\ h[c].pc = "index"
  <2>1. Awaited(c)' = Awaited(c) /\ Seen(c)' = Seen(c)
    BY <1>4 DEF Awaited, Seen
  <2>2. QED
    BY <1>1, <1>2, <2>1, SameAsked, BookStutters
<1>5. CASE h'[c].pc # "idle"
  <2>1. Awaited(c)' = Awaited(c) /\ Seen(c)' = Seen(c)
    BY <1>1, <1>5 DEF Awaited, Seen
  <2>2. QED
    BY <1>1, <1>2, <2>1, SameAsked, BookStutters
<1>6. QED
  BY <1>3, <1>4, <1>5

LEMMA EntersBook ==
  ASSUME BookInv, NEW c \in Client, Check(c) \/ Recheck(c) \/ SourceChanged(c)
  PROVE  UNCHANGED Book!bookVars
<1>1. /\ store' = store /\ calls' = calls
      /\ h'[c].q = h[c].q /\ h'[c].snap = h[c].snap /\ h'[c].tgt = h[c].tgt
      /\ h[c].pc \in {"check", "recheck"}
      /\ h'[c].pc \in {"write", "unlink", "undo"} /\ (Copying(c)' <=> Copying(c))
      /\ \A d \in Client : d # c => h'[d] = h[d]
  BY EntersAdmits
<1>2. \A d \in Client : (Copying(d)' <=> Copying(d)) /\ h'[d].tgt = h[d].tgt
  BY <1>1
<1>3. pages' = pages
  BY <1>1, <1>2, PagesStay DEF InFlight
<1>4. Awaited(c)' = Awaited(c) /\ Seen(c)' = Seen(c)
  BY <1>1 DEF Awaited, Seen
<1>5. QED
  BY <1>1, <1>3, <1>4, SameAsked, BookStutters

(* What a page shows. *)
LEMMA PageShows ==
  ASSUME TypeInv, NEW p \in Path, ~InFlight(p)
  PROVE  /\ (pages[p] = Absent) <=> (store[p] = Absent)
         /\ store[p] # Absent => pages[p] = store[p].text /\ store[p].text \in Text
         /\ Book!Lines(p) = LinesOf(store[p]) /\ Book!Claimant(p) = ClaimOf(store[p])
<1>1. store[p] # Absent => store[p].text \in Text /\ store[p].text # Absent
  BY DEF TypeInv, TypeOK, Object
<1>2. pages[p] = Page(p)
  BY DEF pages
<1>3. [x \in Path |-> IF store[x] = Absent \/ InFlight(x) THEN Absent ELSE store[x].text][p] = pages[p]
  BY DEF pages, Page
<1>4. QED
  BY <1>1, <1>2, <1>3 DEF Page, Book!Lines, Book!Claimant, LinesOf, ClaimOf

(* A put of a note that stands. *)
LEMMA PutPages ==
  ASSUME BookInv, Sheltered, NEW c \in Client, PutIfMatch(c) \/ Write(c), ~Archives(c)
  PROVE  /\ pages' = [pages EXCEPT ![h[c].tgt] = NewText(c)]
         /\ ~InFlight(h[c].tgt) /\ h[c].tgt \in Path /\ h[c].tgt \in Homes(h[c])
         /\ store[h[c].tgt] = Expected(c)
         /\ \A K : h[c].q.kind \in K => Book!Ends(c, K)
         /\ h[c].q \in Calls /\ asked[c] = h[c].q /\ h[c].q.kind \notin {"move", "delete", "put"}
<1>1. /\ store[h[c].tgt] = Expected(c) /\ h[c].tgt \in Path /\ h[c].pc \in {"check", "write"}
      /\ store'[h[c].tgt] # Absent /\ store'[h[c].tgt].text = NewText(c)
      /\ \A p \in Path : p # h[c].tgt => store'[p] = store[p]
      /\ h'[c].tgt = h[c].tgt /\ h'[c].pc = "index"
      /\ \A d \in Client : d # c => h'[d] = h[d]
      /\ \A d \in Client : Copying(d) => h[d].tgt # h[c].tgt
      /\ calls' = calls
  BY PutAdmits
<1>2. ~InFlight(h[c].tgt) /\ \A p \in Path : InFlight(p)' <=> InFlight(p)
  BY <1>1 DEF InFlight
<1>3. pages' = [pages EXCEPT ![h[c].tgt] = NewText(c)]
  BY <1>1, <1>2 DEF pages, Page
<1>4. \A K : h[c].q.kind \in K => Book!Ends(c, K)
  BY <1>1, CallEnds DEF BookInv, IInv
<1>5. /\ h[c].tgt \in Homes(h[c]) /\ h[c].q \in Calls
      /\ h[c].q.kind \notin {"move", "delete", "put"}
  BY <1>1, AtWork DEF Shape, BookInv, IInv
<1>6. asked[c] = h[c].q
  BY <1>1 DEF asked, Awaited
<1>7. QED
  BY <1>1, <1>2, <1>3, <1>4, <1>5, <1>6

(* Where the claim a handler holds is the note's, a put is the one step of its call. *)
ReadsClaim(q) == q.kind \in {"etag", "open"}
ClaimsHeld == \A c \in Client :
  h[c].pc \in {"check", "write"} /\ ReadsClaim(h[c].q) /\ store[h[c].tgt] = Expected(c)
    => h[c].held = ClaimOf(store[h[c].tgt])

LEMMA PutInPlace ==
  ASSUME BookInv, Sheltered, ClaimsHeld, NEW c \in Client, PutIfMatch(c) \/ Write(c), ~Archives(c),
         h[c].q.kind \notin Filing
  PROVE  Book!BookNext
<1> DEFINE q == h[c].q
           p == q.at
<1>1. /\ pages' = [pages EXCEPT ![h[c].tgt] = NewText(c)]
      /\ ~InFlight(h[c].tgt) /\ h[c].tgt \in Path /\ h[c].tgt \in Homes(h[c])
      /\ store[h[c].tgt] = Expected(c)
      /\ \A K : q.kind \in K => Book!Ends(c, K)
      /\ q \in Calls /\ asked[c] = q /\ q.kind \notin {"move", "delete", "put"}
  BY PutPages
<1>2. h[c].tgt = p /\ store[p] = h[c].snap /\ p \in Path
  <2>1. h[c].tgt = p
    BY <1>1 DEF Homes, Archives
  <2>2. QED
    BY <1>1, <2>1 DEF Expected
<1>3. /\ (pages[p] = Absent) <=> (store[p] = Absent)
      /\ store[p] # Absent => pages[p] = store[p].text
      /\ Book!Lines(p) = LinesOf(h[c].snap) /\ Book!Claimant(p) = ClaimOf(h[c].snap)
  BY <1>1, <1>2, PageShows DEF BookInv, IInv
<1>4. h[c].pc \in {"check", "write"}
  BY DEF PutIfMatch, Write
<1>5. Admit(h[c])
  BY DEF BookInv, Admitted
<1>6. pages' = [pages EXCEPT ![p] = NewText(c)]
  BY <1>1, <1>2
<1>7. Book!NewLine(c) = Edit(c)
  BY DEF Book!NewLine, Edit
<1>8. CASE q.kind \in {"append", "log"}
  <2>1. NewText(c) = Book!Page(Book!Lines(p) \cup {Book!NewLine(c)}, Book!Claimant(p))
    BY <1>3, <1>7, <1>8 DEF NewText, Book!Page
  <2>2. pages[p] # Absent \/ q.kind = "log"
    BY <1>2, <1>3, <1>4, <1>5, <1>8 DEF Admit, Refuses, Rewriting
  <2>3. Book!Ends(c, {"append", "log"})
    BY <1>1, <1>8
  <2>4. Book!Append(c)
    BY <1>1, <1>6, <2>1, <2>2, <2>3 DEF Book!Append, Book!Becomes, asked, pages, Page
  <2>5. QED
    BY <2>4 DEF Book!BookNext
<1>9. CASE q.kind \in {"write", "etag"}
  <2>1. NewText(c).claim = Book!Claimant(p)
    <3>1. CASE q.kind = "write"
      BY <1>3, <3>1 DEF NewText
    <3>2. CASE q.kind = "etag"
      BY <1>1, <1>2, <1>3, <1>4, <3>2 DEF NewText, ClaimsHeld, ReadsClaim
    <3>3. QED
      BY <1>9, <3>1, <3>2
  <2>2. NewText(c) = Book!Page({Book!NewLine(c)}, Book!Claimant(p))
    BY <1>7, <1>9, <2>1 DEF NewText, Book!Page, Adding
  <2>3. q.kind = "etag" => pages[p] = shown[c]
    <3>1. Awaited(c) = q /\ q # Absent
      BY <1>1, <1>4 DEF Awaited
    <3>2. shown[c] = Seen(c)
      BY DEF shown
    <3>3. QED
      BY <1>2, <1>3, <3>1, <3>2 DEF Seen
  <2>4. Book!Ends(c, {"write", "etag"})
    BY <1>1, <1>9
  <2>5. Book!Overwrite(c)
    BY <1>1, <1>6, <2>2, <2>3, <2>4 DEF Book!Overwrite, Book!Becomes, asked, pages, Page, shown, Seen
  <2>6. QED
    BY <2>5 DEF Book!BookNext
<1>10. CASE q.kind = "claim"
  <2>1. NewText(c) = Book!Page(Book!Lines(p), q.who)
    BY <1>3, <1>10 DEF NewText, Book!Page, Adding, Filing
  <2>2. pages[p] # Absent /\ (q.force \/ Book!Claimant(p) \in {NoClaim, q.who})
    <3>1. ~Refuses(q, h[c].snap)
      BY <1>4, <1>5, <1>10 DEF Admit, Rewriting
    <3>2. h[c].snap # Absent
      BY <1>10, <3>1 DEF Refuses
    <3>3. q.force \/ ClaimOf(h[c].snap) \in {NoClaim, q.who}
      BY <1>10, <3>1 DEF Refuses
    <3>4. QED
      BY <1>2, <1>3, <3>2, <3>3
  <2>3. Book!Ends(c, {"claim"})
    BY <1>1, <1>10
  <2>4. Book!TakeClaim(c)
    BY <1>1, <1>6, <2>1, <2>2, <2>3 DEF Book!TakeClaim, Book!Becomes, asked, pages, Page
  <2>5. QED
    BY <2>4 DEF Book!BookNext
<1>11. CASE q.kind = "release"
  <2>1. NewText(c) = Book!Page(Book!Lines(p), NoClaim)
    BY <1>3, <1>11 DEF NewText, Book!Page, Adding, Filing
  <2>2. Book!Claimant(p) # NoClaim /\ q.who \in {Anyone, Book!Claimant(p)}
    <3>1. ~Refuses(q, h[c].snap)
      BY <1>4, <1>5, <1>11 DEF Admit, Rewriting
    <3>2. ClaimOf(h[c].snap) # NoClaim /\ (q.who = Anyone \/ q.who = ClaimOf(h[c].snap))
      BY <1>11, <3>1 DEF Refuses
    <3>3. QED
      BY <1>3, <3>2
  <2>3. Book!Ends(c, {"release"})
    BY <1>1, <1>11
  <2>4. Book!DropClaim(c)
    BY <1>1, <1>6, <2>1, <2>2, <2>3 DEF Book!DropClaim, Book!Becomes, asked, pages, Page
  <2>5. QED
    BY <2>4 DEF Book!BookNext
<1>12. CASE q.kind \in {"status", "park", "close"}
  <2>1. NewText(c) = Book!Page(Book!Lines(p), IF q.kind = "status" THEN Book!Claimant(p) ELSE NoClaim)
    BY <1>3, <1>12 DEF NewText, Book!Page, Adding, Filing
  <2>2. q.kind = "close" => Book!NamesOf(q.at) = {}
    BY DEF Archives, Book!NamesOf
  <2>3. pages[p] # Absent
    <3>1. ~Refuses(q, h[c].snap)
      BY <1>4, <1>5, <1>12 DEF Admit, Rewriting
    <3>2. h[c].snap # Absent
      BY <1>12, <3>1 DEF Refuses
    <3>3. QED
      BY <1>2, <1>3, <3>2
  <2>4. Book!Ends(c, {"status", "park", "close"})
    BY <1>1, <1>12
  <2>5. Book!Settle(c)
    BY <1>1, <1>6, <2>1, <2>2, <2>3, <2>4 DEF Book!Settle, Book!Becomes, asked, pages, Page
  <2>6. QED
    BY <2>5 DEF Book!BookNext
<1>13. QED
  <2>1. q.kind \in Kind
    BY <1>1, CallTypes
  <2>2. QED
    BY <1>1, <1>8, <1>9, <1>10, <1>11, <1>12, <2>1 DEF Kind, Rewriting, Filing

LEMMA PutFiles ==
  ASSUME BookInv, Sheltered, ClaimsHeld, NEW c \in Client, PutIfMatch(c) \/ Write(c), ~Archives(c),
         h[c].q.kind \in Filing
  PROVE  Book!BookNext
<1> DEFINE q == h[c].q
           p == h[c].tgt
<1>1. /\ pages' = [pages EXCEPT ![p] = NewText(c)]
      /\ ~InFlight(p) /\ p \in Path /\ p \in Homes(h[c])
      /\ store[p] = Expected(c)
      /\ \A K : q.kind \in K => Book!Ends(c, K)
      /\ q \in Calls /\ asked[c] = q
  BY PutPages
<1>2. p \in Book!NamesOf(q.at)
  BY <1>1 DEF Homes, Listed, Book!NamesOf
<1>3. store[p] = Absent
  <2>1. q.at \in Title /\ p # q.at
    BY <1>1, CallTypes
  <2>2. QED
    BY <1>1, <2>1 DEF Expected
<1>4. pages[p] = Absent
  BY <1>1, <1>3, PageShows DEF BookInv, IInv
<1>5. NewText(c).claim = NoClaim
  <2>1. CASE q.kind = "open"
    <3>1. h[c].held = ClaimOf(store[p])
      BY <1>1, <2>1 DEF ClaimsHeld, ReadsClaim, PutIfMatch, Write
    <3>2. QED
      BY <1>3, <2>1, <3>1 DEF NewText, ClaimOf
  <2>2. CASE q.kind = "backlog"
    BY <2>2 DEF NewText
  <2>3. QED
    BY <2>1, <2>2 DEF Filing
<1>6. NewText(c) = Book!Page({Book!NewLine(c)}, NoClaim)
  <2>1. NewText(c).lines = {Edit(c)}
    BY DEF NewText, Adding, Filing
  <2>2. Edit(c) = Book!NewLine(c)
    BY DEF Edit, Book!NewLine
  <2>3. NewText(c) = [lines |-> NewText(c).lines, claim |-> NewText(c).claim]
    BY DEF NewText
  <2>4. QED
    BY <1>5, <2>1, <2>2, <2>3 DEF Book!Page
<1>7. Book!Ends(c, {"backlog", "open"})
  BY <1>1 DEF Filing
<1>8. Book!File(c)
  BY <1>1, <1>2, <1>4, <1>6, <1>7 DEF Book!File, Book!Becomes, asked, pages, Page
<1>9. QED
  BY <1>8 DEF Book!BookNext

(* The copy of a close is not in the book yet. *)
LEMMA CopyStutters ==
  ASSUME BookInv, Sheltered, NEW c \in Client, PutIfMatch(c) \/ Write(c), Archives(c)
  PROVE  UNCHANGED Book!bookVars
<1>1. /\ store[h[c].tgt] = Expected(c) /\ h[c].tgt \in Path /\ h[c].pc \in {"check", "write"}
      /\ \A p \in Path : p # h[c].tgt => store'[p] = store[p]
      /\ h'[c].q = h[c].q /\ h'[c].snap = h[c].snap /\ h'[c].tgt = h[c].tgt
      /\ h'[c].pc = "recheck"
      /\ \A d \in Client : d # c => h'[d] = h[d]
      /\ calls' = calls
  BY PutAdmits
<1>2. store[h[c].tgt] = Absent
  <2>1. h[c].q \in Calls /\ h[c].q.at \in Note /\ h[c].tgt \in Listed(h[c].q.at)
    BY <1>1, AtWork, CallTypes DEF Archives, Shape, Homes, BookInv, IInv
  <2>2. h[c].tgt # h[c].q.at
    BY <2>1 DEF Sheltered, ArchiveApart
  <2>3. QED
    BY <1>1, <2>2 DEF Expected
<1>3. InFlight(h[c].tgt)' /\ \A p \in Path : p # h[c].tgt => (InFlight(p)' <=> InFlight(p))
  BY <1>1 DEF InFlight
<1>4. pages' = pages
  <2>1. \A p \in Path : Page(p)' = Page(p)
    BY <1>1, <1>2, <1>3 DEF Page
  <2>2. QED
    BY <2>1 DEF pages
<1>5. Awaited(c)' = Awaited(c) /\ Seen(c)' = Seen(c)
  BY <1>1 DEF Awaited, Seen
<1>6. QED
  BY <1>1, <1>4, <1>5, SameAsked, BookStutters

(* The delete of its source moves the note into the archive. *)
LEMMA SourceArchives ==
  ASSUME BookInv, Sheltered, NEW c \in Client, DeleteIfMatch(c) \/ Unlink(c)
  PROVE  Book!BookNext
<1>0. PICK q, p, t : q = h[c].q /\ p = q.at /\ t = h[c].tgt
  OBVIOUS
<1>1. /\ Copying(c) /\ store'[p] = Absent /\ calls' = calls
      /\ \A x \in Path : x # p => store'[x] = store[x]
      /\ \A d \in Client : d # c => h'[d] = h[d]
      /\ \A d \in Client : d # c /\ Copying(d) => h[d].tgt # t
      /\ Settled(h'[c])
  BY <1>0, DropAdmits
<1>2. /\ q \in Calls /\ q.kind = "close" /\ p \in Note /\ p \in Path /\ t \in Path
      /\ t \in Listed(p) /\ t # p
      /\ \A d \in Client : Copying(d) => h[d].tgt # p
  BY <1>0, <1>1, CopyIsArchived DEF BookInv, IInv, Path
<1>3. store[p] = h[c].snap /\ h[c].pc \in {"recheck", "unlink"}
  BY <1>0 DEF DeleteIfMatch, Unlink, BookInv, IInv, Window
<1>4. h[c].snap # Absent
  BY <1>0, <1>2, <1>3 DEF BookInv, Admitted, Admit, Refuses
<1>5. h'[c].pc \in {"idle", "index"}
  BY DEF DeleteIfMatch, Unlink, Returns, Goes, Resting, BookInv, IInv, TypeInv, TypeOK, Handler
<1>6. store[t] # Absent /\ store[t].text = [lines |-> LinesOf(h[c].snap), claim |-> NoClaim]
  BY <1>0, <1>1 DEF BookInv, IInv, Copied, Verbatim
<1>7. ~InFlight(p) /\ ~InFlight(p)' /\ ~InFlight(t)' /\ InFlight(t)
  BY <1>0, <1>1, <1>2, <1>5 DEF InFlight
<1>8. \A x \in Path : x # t => (InFlight(x)' <=> InFlight(x))
  BY <1>0, <1>1, <1>2, <1>5 DEF InFlight
<1>9. /\ pages[p] # Absent /\ pages[t] = Absent /\ Book!Lines(p) = LinesOf(h[c].snap)
  <2>1. pages[t] = Absent
    BY <1>2, <1>7 DEF pages, Page
  <2>2. QED
    BY <1>2, <1>3, <1>4, <1>7, <2>1, PageShows DEF BookInv, IInv
<1>10. pages' = [pages EXCEPT ![t] = Book!Page(Book!Lines(p), NoClaim), ![p] = Absent]
  <2>1. Page(t)' = Book!Page(Book!Lines(p), NoClaim)
    BY <1>1, <1>2, <1>6, <1>7, <1>9 DEF Page, Book!Page
  <2>2. Page(p)' = Absent
    BY <1>1 DEF Page
  <2>3. \A x \in Path : x # p /\ x # t => Page(x)' = Page(x)
    BY <1>1, <1>8 DEF Page
  <2>4. QED
    BY <1>2, <2>1, <2>2, <2>3 DEF pages
<1>11. Book!Ends(c, {"close"})
  BY <1>0, <1>1, <1>2, <1>3, <1>5, CallEnds DEF BookInv, IInv
<1>12. asked[c] = q /\ t \in Book!NamesOf(p)
  BY <1>0, <1>2, <1>3 DEF asked, Awaited, Listed, Book!NamesOf
<1>13. Book!Archive(c)
  <2>1. asked[c].at = p
    BY <1>0, <1>12
  <2>2. \E d \in Book!NamesOf(p) :
          pages[d] = Absent /\ pages' = [pages EXCEPT ![d] = Book!Page(Book!Lines(p), NoClaim), ![p] = Absent]
    BY <1>9, <1>10, <1>12
  <2>3. QED
    BY <1>9, <1>11, <2>1, <2>2 DEF Book!Archive, asked, pages, Page
<1>14. QED
  BY <1>13 DEF Book!BookNext

(* A copy taken back was not in the book: the call goes on, or fails. *)
LEMMA UndoBook ==
  ASSUME BookInv, Sheltered, NEW c \in Client, Undo(c)
  PROVE  [Book!BookNext]_Book!bookVars
<1>0. PICK t : t = h[c].tgt
  OBVIOUS
<1>1. /\ Copying(c) /\ store'[t] = Absent /\ calls' = calls
      /\ \A x \in Path : x # t => store'[x] = store[x]
      /\ \A d \in Client : d # c => h'[d] = h[d]
      /\ Settled(h'[c])
  BY <1>0, DropAdmits
<1>2. \A x \in Path : x # t => (InFlight(x)' <=> InFlight(x))
  BY <1>0, <1>1 DEF InFlight, Settled
<1>3. pages' = pages
  <2>1. Page(t)' = Absent /\ Page(t) = Absent
    BY <1>0, <1>1 DEF Page, InFlight
  <2>2. \A x \in Path : Page(x)' = Page(x)
    BY <1>1, <1>2, <2>1 DEF Page
  <2>3. QED
    BY <2>2 DEF pages
<1>4. h[c].q \in Calls /\ h[c].q.kind = "close"
  BY <1>1, CopyIsArchived DEF BookInv, IInv
<1>5. \/ h'[c].pc = "idle"
      \/ h'[c].q = h[c].q /\ h'[c].pc \notin {"idle", "index"}
  <2>1. h[c].pc # "idle" /\ (Returns(c) \/ Retries(c, {}))
    BY DEF Undo
  <2>2. QED
    BY <2>1, RetriesOrEnds DEF BookInv, IInv
<1>6. CASE h'[c].pc = "idle"
  BY <1>1, <1>3, <1>6, CallFails DEF BookInv, IInv
<1>7. CASE h'[c].pc # "idle"
  <2>1. Awaited(c)' = Awaited(c) /\ Seen(c)' = Seen(c)
    BY <1>1, <1>4, <1>5, <1>7 DEF Awaited, Seen
  <2>2. QED
    BY <1>1, <1>3, <2>1, SameAsked, BookStutters
<1>8. QED
  BY <1>6, <1>7

(* A killed server leaves its calls, and the copies its closes had stored. *)
LEMMA CrashKills ==
  ASSUME BookInv, Sheltered, NEW s \in Process, Crash(s)
  PROVE  Book!BookNext
<1>1. PICK S : S = {c \in Client : ProcOf[c] = s}
  OBVIOUS
<1>2. /\ store' = store /\ calls' = calls
      /\ h' = [c \in Client |-> IF c \in S THEN Resting ELSE h[c]]
  BY <1>1 DEF Crash
<1>3. /\ \A c \in Client : c \in S => h'[c].pc = "idle"
      /\ \A c \in Client : c \notin S => h'[c] = h[c]
  BY <1>2 DEF Resting
<1>4. \A c \in Client : /\ c \in S => Awaited(c)' = Absent /\ Seen(c)' = Absent
                        /\ c \notin S => Awaited(c)' = Awaited(c) /\ Seen(c)' = Seen(c)
  BY <1>3 DEF Awaited, Seen
<1>5. /\ asked' = [c \in Client |-> IF c \in S THEN Absent ELSE asked[c]]
      /\ shown' = [c \in Client |-> IF c \in S THEN Absent ELSE shown[c]]
  BY <1>4 DEF asked, shown
<1>6. ASSUME NEW p \in Path, pages'[p] # pages[p]
      PROVE  /\ pages[p] = Absent
             /\ \E c \in S : asked[c] # Absent /\ asked[c].kind = "close" /\ p \in Book!NamesOf(asked[c].at)
  <2>1. Page(p)' # Page(p)
    BY <1>6 DEF pages
  <2>2. ~(InFlight(p)' <=> InFlight(p))
    BY <1>2, <2>1 DEF Page
  <2>3. InFlight(p) /\ ~InFlight(p)'
    BY <1>3, <2>2 DEF InFlight
  <2>4. PICK c \in Client : Copying(c) /\ h[c].tgt = p
    BY <2>3 DEF InFlight
  <2>5. c \in S
    BY <1>3, <2>3, <2>4 DEF InFlight
  <2>6. h[c].q \in Calls /\ h[c].q.kind = "close" /\ p \in Listed(h[c].q.at)
    BY <2>4, CopyIsArchived DEF BookInv, IInv
  <2>7. asked[c] = h[c].q /\ asked[c] # Absent
    BY <2>4, <2>6 DEF asked, Awaited
  <2>8. pages[p] = Absent
    BY <2>3 DEF pages, Page
  <2>9. p \in Book!NamesOf(asked[c].at)
    BY <2>6, <2>7 DEF Book!NamesOf, Listed
  <2>10. QED
    BY <2>5, <2>6, <2>7, <2>8, <2>9
<1>7. Book!Killed(S)
  BY <1>2, <1>5, <1>6 DEF Book!Killed, asked, shown, pages, Page, Seen
<1>8. S \in SUBSET Client
  BY <1>1
<1>9. QED
  BY <1>7, <1>8 DEF Book!BookNext

LEMMA BookNexts == Sheltered /\ BookInv /\ ClaimsHeld /\ [Next]_vars => [Book!BookNext]_Book!bookVars
<1> SUFFICES ASSUME Sheltered, BookInv, ClaimsHeld, [Next]_vars PROVE [Book!BookNext]_Book!bookVars
  OBVIOUS
<1>1. ASSUME NEW c \in Client, Begin(c) PROVE Book!BookNext
  BY <1>1, BeginAsks
<1>2. ASSUME NEW c \in Client, Continue(c) PROVE [Book!BookNext]_Book!bookVars
  <2>1. CASE Read(c) \/ Name(c) \/ Hold(c) \/ Conflict(c) \/ Index(c)
    BY <2>1, QuietBook
  <2>2. CASE Check(c) \/ Recheck(c) \/ SourceChanged(c)
    BY <2>2, EntersBook
  <2>3. CASE PutIfMatch(c) \/ Write(c)
    BY <2>3, PutInPlace, PutFiles, CopyStutters
  <2>4. CASE DeleteIfMatch(c) \/ Unlink(c)
    BY <2>4, SourceArchives
  <2>5. CASE Undo(c)
    BY <2>5, UndoBook
  <2>6. QED
    BY <1>2, <2>1, <2>2, <2>3, <2>4, <2>5, NoBlindStep DEF Continue, BookInv, IInv, Sheltered
<1>3. ASSUME NEW s \in Process, Crash(s) PROVE Book!BookNext
  BY <1>3, CrashKills
<1>4. ASSUME UNCHANGED vars PROVE UNCHANGED Book!bookVars
  <2>1. store' = store /\ h' = h /\ calls' = calls
    BY <1>4 DEF vars
  <2>2. asked' = asked /\ shown' = shown /\ pages' = pages
    BY <2>1 DEF asked, shown, pages, Awaited, Seen, Page, InFlight
  <2>3. QED
    BY <2>1, <2>2, BookStutters
<1>5. QED
  BY <1>1, <1>2, <1>3, <1>4 DEF Next

(* Where every call is conditional on the version it read, the handlers    *)
(* implement the book: each call takes effect in one step, all of it or    *)
(* nothing, as long as what a handler has read of a claim apart from the   *)
(* version (_stored_claim) is the claim of the note it then replaces.      *)
THEOREM HandlersAreOneStep == Sheltered => (Spec /\ []ClaimsHeld => InOneStep)
<1> SUFFICES ASSUME Sheltered PROVE Spec /\ []ClaimsHeld => InOneStep
  OBVIOUS
<1>1. Init => BookInv /\ Book!BookInit
  BY BookInvInit, BookInits
<1>2. BookInv /\ [Next]_vars => BookInv'
  BY BookInvNext
<1>3. BookInv /\ ClaimsHeld /\ [Next]_vars => [Book!BookNext]_Book!bookVars
  BY BookNexts
<1>4. QED
  BY <1>1, <1>2, <1>3, PTL DEF Spec, InOneStep, Book!BookSpec

-----------------------------------------------------------------------------
(* Where no note is claimed that is written with an etag or opened, every handler holds the right claim. *)
Unclaimed(p) == \A q \in Calls : q.kind = "claim" => q.at # p
ClaimsApart == \A q \in Calls :
  /\ q.kind = "etag" => Unclaimed(q.at)
  /\ q.kind = "open" => \A p \in Listed(q.at) : Unclaimed(p)

NoneClaimed == \A p \in Path : Unclaimed(p) => ClaimOf(store[p]) = NoClaim
HoldsNone(r) == r.pc \in {"check", "write"} /\ ReadsClaim(r.q) => r.held = NoClaim
NoneHeld == \A c \in Client : HoldsNone(h[c])

ClaimInv == BookInv /\ NoneClaimed /\ NoneHeld

LEMMA TargetUnclaimed ==
  ASSUME TypeInv, ClaimsApart, NEW c \in Client, h[c].pc \in {"hold", "check", "write"}, ReadsClaim(h[c].q)
  PROVE  Unclaimed(h[c].tgt) /\ h[c].tgt \in Path
<1>1. h[c].q \in Calls /\ h[c].tgt \in Homes(h[c]) /\ h[c].tgt \in Path
  BY AtWork DEF Shape
<1>2. CASE h[c].q.kind = "etag"
  BY <1>1, <1>2 DEF Homes, Filing, ClaimsApart
<1>3. CASE h[c].q.kind = "open"
  BY <1>1, <1>3 DEF Homes, Filing, ClaimsApart
<1>4. QED
  BY <1>1, <1>2, <1>3 DEF ReadsClaim

LEMMA FreshHoldsNone ==
  ASSUME NEW q, NEW o, NEW n, NEW L
  PROVE  HoldsNone(Fresh(q, o, n, L)) /\ HoldsNone(Resting)
BY DEF Fresh, Resting, HoldsNone

LEMMA HeldStep ==
  ASSUME NoneHeld, NEW c \in Client, HoldsNone(h'[c]), \A d \in Client : d # c => h'[d] = h[d]
  PROVE  NoneHeld'
BY DEF NoneHeld, HoldsNone

LEMMA RetriesHoldsNone ==
  ASSUME TypeInv, NEW c \in Client, NEW L, Retries(c, L) \/ Returns(c)
  PROVE  HoldsNone(h'[c])
BY FreshHoldsNone DEF Retries, Returns, Goes, TypeInv, TypeOK

LEMMA QuietHolds ==
  ASSUME ClaimInv, ClaimsApart, NEW c \in Client, Read(c) \/ Name(c) \/ Hold(c) \/ Conflict(c) \/ Index(c)
  PROVE  HoldsNone(h'[c])
<1>1. h[c] \in Handler /\ h \in [Client -> Handler] /\ Shape(h[c])
  BY AtWork DEF ClaimInv, BookInv, IInv, TypeInv, TypeOK
<1>2. CASE Read(c)
  <2>1. CASE Returns(c)
    BY <2>1, RetriesHoldsNone DEF ClaimInv, BookInv, IInv
  <2>2. CASE ~Returns(c)
    <3> DEFINE x == CASE Archives(c) -> "name"
                      [] h[c].q.kind = "move" -> IF backend.move = "reput" THEN "fetch" ELSE "move"
                      [] OTHER -> "check"
    <3>1. h[c].pc = "read" /\ Goes(c, [h[c] EXCEPT !.snap = store[h[c].q.at], !.pc = x])
      BY <1>2, <2>2 DEF Read
    <3> HIDE DEF x
    <3>2. h'[c].q = h[c].q
      BY <1>1, <3>1 DEF Goes, Handler
    <3>3. h[c].q.kind \notin {"etag", "open"}
      BY <1>1, <3>1 DEF Shape, Filing
    <3>4. QED
      BY <3>2, <3>3 DEF HoldsNone, ReadsClaim
  <2>3. QED
    BY <2>1, <2>2
<1>3. CASE Name(c)
  <2> DEFINE taken == {p \in Path : store[p] # Absent} \cup h[c].lost
  <2>1. Goes(c, [h[c] EXCEPT !.tgt = FirstFree(h[c].q.at, taken),
                                  !.pc = IF h[c].q.kind = "open" THEN "hold" ELSE "check"])
    BY <1>3 DEF Name
  <2> HIDE DEF taken
  <2>2. h'[c].q = h[c].q /\ h'[c].pc = IF h[c].q.kind = "open" THEN "hold" ELSE "check"
    BY <1>1, <2>1 DEF Goes, Handler
  <2>3. h[c].q.kind # "etag"
    BY <1>1, <1>3 DEF Name, Shape, Filing
  <2>4. QED
    BY <2>2, <2>3 DEF HoldsNone, ReadsClaim
<1>4. CASE Hold(c)
  <2>1. h[c].pc = "hold" /\ h'[c].q = h[c].q /\ h'[c].held = ClaimOf(store[h[c].tgt])
    BY <1>1, <1>4 DEF Hold, Goes, Handler
  <2>2. ReadsClaim(h[c].q) => ClaimOf(store[h[c].tgt]) = NoClaim
    BY <2>1, TargetUnclaimed DEF ClaimInv, BookInv, IInv, NoneClaimed
  <2>3. QED
    BY <2>1, <2>2 DEF HoldsNone
<1>5. CASE Conflict(c) \/ Index(c)
  BY <1>5, RetriesHoldsNone DEF Conflict, Index, ClaimInv, BookInv, IInv
<1>6. QED
  BY <1>2, <1>3, <1>4, <1>5

LEMMA PutUnclaimed ==
  ASSUME ClaimInv, Sheltered, NEW c \in Client, PutIfMatch(c) \/ Write(c), Unclaimed(h[c].tgt)
  PROVE  NewText(c).claim = NoClaim
<1>1. h[c].pc \in {"check", "write"} /\ store[h[c].tgt] = Expected(c) /\ h[c].tgt \in Path
  BY PutAdmits DEF ClaimInv
<1>2. /\ h[c].q \in Calls /\ h[c].tgt \in Homes(h[c]) /\ h[c].q.kind \notin {"move", "delete", "put"}
      /\ h[c].q.kind \in Kind
  BY <1>1, AtWork, CallTypes DEF Shape, ClaimInv, BookInv, IInv
<1>3. CASE h[c].q.kind = "claim"
  BY <1>2, <1>3 DEF Homes, Filing, Unclaimed
<1>4. CASE h[c].q.kind \in {"append", "log", "write", "status"}
  <2>1. h[c].tgt = h[c].q.at
    BY <1>2, <1>4 DEF Homes, Filing
  <2>2. ClaimOf(h[c].snap) = NoClaim
    BY <1>1, <2>1 DEF Expected, ClaimInv, NoneClaimed
  <2>3. QED
    BY <1>4, <2>2 DEF NewText
<1>5. CASE h[c].q.kind \in {"etag", "open"}
  BY <1>1, <1>5 DEF NewText, ClaimInv, NoneHeld, HoldsNone, ReadsClaim
<1>6. CASE h[c].q.kind \in {"release", "park", "close", "backlog"}
  BY <1>6 DEF NewText
<1>7. QED
  BY <1>2, <1>3, <1>4, <1>5, <1>6 DEF Kind, Rewriting, Filing

LEMMA ClaimInvInit == Init => ClaimInv
<1> SUFFICES ASSUME Init PROVE ClaimInv
  OBVIOUS
<1>1. BookInv
  BY BookInvInit
<1>2. NoneHeld
  BY FreshHoldsNone DEF Init, NoneHeld
<1>3. NoneClaimed
  BY DEF Init, NoneClaimed, ClaimOf
<1>4. QED
  BY <1>1, <1>2, <1>3 DEF ClaimInv

LEMMA ClaimInvNext == Sheltered /\ ClaimsApart /\ ClaimInv /\ [Next]_vars => ClaimInv'
<1> SUFFICES ASSUME Sheltered, ClaimsApart, ClaimInv, [Next]_vars PROVE ClaimInv'
  OBVIOUS
<1>0. BookInv /\ IInv /\ TypeInv /\ h \in [Client -> Handler]
  BY DEF ClaimInv, BookInv, IInv, TypeInv, TypeOK
<1>1. BookInv'
  BY BookInvNext DEF ClaimInv
<1>2. ASSUME NEW c \in Client, Begin(c) PROVE NoneClaimed' /\ NoneHeld'
  <2>1. store' = store /\ HoldsNone(h'[c]) /\ \A d \in Client : d # c => h'[d] = h[d]
    BY <1>0, <1>2, FreshHoldsNone DEF Begin, Goes
  <2>2. QED
    BY <2>1, HeldStep DEF ClaimInv, NoneClaimed
<1>3. ASSUME NEW c \in Client, Continue(c) PROVE NoneClaimed' /\ NoneHeld'
  <2>1. CASE Read(c) \/ Name(c) \/ Hold(c) \/ Conflict(c) \/ Index(c)
    <3>1. store' = store /\ HoldsNone(h'[c]) /\ \A d \in Client : d # c => h'[d] = h[d]
      BY <1>0, <2>1, QuietGoes, QuietHolds DEF BookInv
    <3>2. QED
      BY <3>1, HeldStep DEF ClaimInv, NoneClaimed
  <2>2. CASE Check(c) \/ Recheck(c) \/ SourceChanged(c)
    <3>1. /\ store' = store /\ \A d \in Client : d # c => h'[d] = h[d]
          /\ h[c].pc = "check" \/ h'[c].pc \notin {"check", "write"}
          /\ h'[c].q = h[c].q
      BY <1>0, <2>2, EntersAdmits DEF Check, Recheck, SourceChanged, Goes, Handler
    <3>2. h'[c].held = h[c].held
      BY <1>0, <2>2 DEF Check, Recheck, SourceChanged, Goes, Handler
    <3>3. HoldsNone(h'[c])
      BY <3>1, <3>2 DEF ClaimInv, NoneHeld, HoldsNone
    <3>4. QED
      BY <3>1, <3>3, HeldStep DEF ClaimInv, NoneClaimed
  <2>3. CASE PutIfMatch(c) \/ Write(c)
    <3>1. /\ h[c].tgt \in Path /\ store'[h[c].tgt] # Absent /\ store'[h[c].tgt].text = NewText(c)
          /\ \A p \in Path : p # h[c].tgt => store'[p] = store[p]
          /\ h'[c].pc \in {"recheck", "index"}
          /\ \A d \in Client : d # c => h'[d] = h[d]
      BY <1>0, <2>3, PutAdmits
    <3>2. NoneClaimed'
      <4> SUFFICES ASSUME NEW p \in Path, Unclaimed(p) PROVE ClaimOf(store'[p]) = NoClaim
        BY DEF NoneClaimed, Unclaimed
      <4>1. CASE p = h[c].tgt
        BY <2>3, <3>1, <4>1, PutUnclaimed DEF ClaimOf
      <4>2. CASE p # h[c].tgt
        BY <3>1, <4>2 DEF ClaimInv, NoneClaimed
      <4>3. QED
        BY <4>1, <4>2
    <3>3. NoneHeld'
      BY <3>1, HeldStep DEF HoldsNone, ClaimInv
    <3>4. QED
      BY <3>2, <3>3
  <2>4. CASE DeleteIfMatch(c) \/ Unlink(c) \/ Undo(c)
    <3>1. PICK p0 : \/ (DeleteIfMatch(c) \/ Unlink(c)) /\ p0 = h[c].q.at
                    \/ Undo(c) /\ p0 = h[c].tgt
      BY <2>4
    <3>2. /\ p0 \in Path /\ store'[p0] = Absent
          /\ \A p \in Path : p # p0 => store'[p] = store[p]
          /\ \A d \in Client : d # c => h'[d] = h[d]
      <4>1. BookInv /\ Sheltered
        BY <1>0
      <4>2. QED
        BY <3>1, <4>1, DropAdmits
    <3>3. NoneClaimed'
      BY <3>2 DEF ClaimInv, NoneClaimed, ClaimOf, Unclaimed
    <3>4. HoldsNone(h'[c])
      <4>1. CASE Returns(c) \/ Retries(c, {})
        BY <1>0, <4>1, RetriesHoldsNone
      <4>2. CASE Goes(c, [h[c] EXCEPT !.pc = "index"])
        BY <1>0, <4>2 DEF Goes, Handler, HoldsNone
      <4>3. QED
        BY <2>4, <4>1, <4>2 DEF DeleteIfMatch, Unlink, Undo
    <3>5. QED
      BY <3>2, <3>3, <3>4, HeldStep DEF ClaimInv
  <2>5. QED
    BY <1>0, <1>3, <2>1, <2>2, <2>3, <2>4, NoBlindStep DEF Continue, Sheltered
<1>4. ASSUME NEW s \in Process, Crash(s) PROVE NoneClaimed' /\ NoneHeld'
  <2>1. store' = store /\ \A d \in Client : h'[d] = h[d] \/ h'[d] = Resting
    BY <1>4 DEF Crash
  <2>2. QED
    BY <2>1, FreshHoldsNone DEF ClaimInv, NoneClaimed, NoneHeld
<1>5. ASSUME UNCHANGED vars PROVE NoneClaimed' /\ NoneHeld'
  BY <1>5 DEF vars, ClaimInv, NoneClaimed, NoneHeld
<1>6. NoneClaimed' /\ NoneHeld'
  BY <1>2, <1>3, <1>4, <1>5 DEF Next
<1>7. QED
  BY <1>1, <1>6 DEF ClaimInv

LEMMA HeldIsTheNotes == ClaimsApart /\ ClaimInv => ClaimsHeld
<1> SUFFICES ASSUME ClaimsApart, ClaimInv, NEW c \in Client, h[c].pc \in {"check", "write"},
                    ReadsClaim(h[c].q)
             PROVE  h[c].held = ClaimOf(store[h[c].tgt])
  BY DEF ClaimsHeld
<1>1. Unclaimed(h[c].tgt) /\ h[c].tgt \in Path
  BY TargetUnclaimed DEF ClaimInv, BookInv, IInv
<1>2. QED
  BY <1>1 DEF ClaimInv, NoneClaimed, NoneHeld, HoldsNone

(* Where besides no call claims a note that another call writes with an    *)
(* etag or opens, that is so: the handlers implement the book, whatever    *)
(* the number of clients, notes, attempts and crashes.                     *)
THEOREM CallsAreOneStep == Sheltered /\ ClaimsApart => (Spec => InOneStep)
<1> SUFFICES ASSUME Sheltered, ClaimsApart PROVE Spec => InOneStep
  OBVIOUS
<1>1. Init => ClaimInv
  BY ClaimInvInit
<1>2. ClaimInv /\ [Next]_vars => ClaimInv'
  BY ClaimInvNext
<1>3. ClaimInv => ClaimsHeld
  BY HeldIsTheNotes
<1>4. Spec /\ []ClaimsHeld => InOneStep
  BY HandlersAreOneStep
<1>5. QED
  BY <1>1, <1>2, <1>3, <1>4, PTL DEF Spec

-----------------------------------------------------------------------------
(* That no edit is doubled: an edit that a call has yet to write is in no  *)
(* note and in nothing a handler read.                                     *)
Unwritten(c, n) == n > calls[c] \/ (n = calls[c] /\ h[c].pc \notin {"idle", "index"})
Early(L) == \A c \in Client, n \in Nat : Unwritten(c, n) => <<c, n>> \notin L
EditsNew == /\ \A p \in Path : Early(LinesOf(store[p]))
            /\ \A d \in Client : Early(LinesOf(h[d].snap))

OnceInv == BookInv /\ EditsNew /\ OneCopy

(* What is written stays written. *)
LEMMA EarlyStays ==
  ASSUME NEW L, Early(L), \A c \in Client, n \in Nat : Unwritten(c, n)' => Unwritten(c, n)
  PROVE  Early(L)'
BY DEF Early

(* A step that writes no edit: what it leaves was in a note or was read.   *)
LEMMA EditsStayNew ==
  ASSUME EditsNew, \A c \in Client, n \in Nat : Unwritten(c, n)' => Unwritten(c, n),
         \A p \in Path : store'[p] = store[p] \/ store'[p] = Absent,
         \A d \in Client : \/ h'[d].snap = h[d].snap \/ h'[d].snap = Absent
                           \/ \E p \in Path : h'[d].snap = store[p]
  PROVE  EditsNew'
<1>1. Early({})
  BY DEF Early
<1>2. \A p \in Path : Early(LinesOf(store'[p]))
  BY <1>1 DEF EditsNew, LinesOf
<1>3. \A d \in Client : Early(LinesOf(h'[d].snap))
  BY <1>1 DEF EditsNew, LinesOf
<1>4. \A L : Early(L) => Early(L)'
  BY EarlyStays
<1>5. ASSUME NEW p \in Path PROVE Early(LinesOf(store[p]))'
  <2>1. PICK L : L = LinesOf(store'[p])
    OBVIOUS
  <2>2. Early(L)'
    BY <1>2, <1>4, <2>1
  <2>3. QED
    BY <2>1, <2>2 DEF Early, LinesOf
<1>6. ASSUME NEW d \in Client PROVE Early(LinesOf(h[d].snap))'
  <2>1. PICK L : L = LinesOf(h'[d].snap)
    OBVIOUS
  <2>2. Early(L)'
    BY <1>3, <1>4, <2>1
  <2>3. QED
    BY <2>1, <2>2 DEF Early, LinesOf
<1>7. QED
  BY <1>5, <1>6 DEF EditsNew

(* A handler at its next step has written no more than before. *)
LEMMA StepWrites ==
  ASSUME NEW c \in Client, calls' = calls, h[c].pc \notin {"idle", "index"} \/ h'[c].pc \in {"idle", "index"},
         \A d \in Client : d # c => h'[d] = h[d]
  PROVE  \A d \in Client, n \in Nat : Unwritten(d, n)' => Unwritten(d, n)
BY DEF Unwritten

LEMMA FreshReads ==
  ASSUME NEW q, NEW o, NEW n, NEW L
  PROVE  Fresh(q, o, n, L).snap = o /\ Resting.snap = Absent
BY DEF Fresh, Resting

LEMMA RetriesReads ==
  ASSUME TypeInv, NEW c \in Client, NEW L, Retries(c, L) \/ Returns(c)
  PROVE  h'[c].snap = Absent
<1>1. h \in [Client -> Handler]
  BY DEF TypeInv, TypeOK
<1>2. CASE Returns(c)
  BY <1>1, <1>2 DEF Returns, Goes, Resting
<1>3. CASE ~Returns(c)
  <2>1. PICK n : Goes(c, Fresh(h[c].q, Absent, n, h[c].lost \cup L))
    BY <1>3 DEF Retries
  <2>2. QED
    BY <1>1, <2>1 DEF Goes, Fresh
<1>4. QED
  BY <1>2, <1>3

LEMMA OneCopyStays ==
  ASSUME OneCopy, crashes' = crashes, store' = store, \A p \in Path : InFlight(p)' <=> InFlight(p)
  PROVE  OneCopy'
BY DEF OneCopy

LEMMA BeginOnce ==
  ASSUME OnceInv, NEW c \in Client, Begin(c)
  PROVE  EditsNew' /\ OneCopy'
<1>1. h \in [Client -> Handler] /\ calls \in [Client -> Nat]
  BY DEF OnceInv, BookInv, IInv, TypeInv, TypeOK
<1>2. PICK q \in Calls : Goes(c, Fresh(q, IF q.kind = "etag" THEN store[q.at] ELSE Absent, 0, {}))
  BY DEF Begin
<1>3. h'[c].snap = IF q.kind = "etag" THEN store[q.at] ELSE Absent
  BY <1>1, <1>2, FreshReads DEF Goes
<1>4. Settled(h'[c]) /\ \A d \in Client : d # c => h'[d] = h[d]
  BY <1>1, <1>2, FreshSettled DEF Goes
<1>5. q.kind = "etag" => q.at \in Path
  BY <1>2 DEF NoteStoreAssumption, Call, Filing, Path
<1>6. store' = store /\ crashes' = crashes /\ h[c].pc = "idle" /\ calls' = [calls EXCEPT ![c] = @ + 1]
  BY DEF Begin
<1>7. \A d \in Client, n \in Nat : Unwritten(d, n)' => Unwritten(d, n)
  BY <1>1, <1>4, <1>6 DEF Unwritten
<1>8. EditsNew'
  <2>1. \A d \in Client : \/ h'[d].snap = h[d].snap \/ h'[d].snap = Absent
                          \/ \E p \in Path : h'[d].snap = store[p]
    BY <1>3, <1>4, <1>5
  <2>2. QED
    BY <1>6, <1>7, <2>1, EditsStayNew DEF OnceInv
<1>9. OneCopy'
  BY <1>4, <1>6, SettledFlight, OneCopyStays DEF OnceInv, Settled
<1>10. QED
  BY <1>8, <1>9

LEMMA QuietReads ==
  ASSUME TypeInv, NEW c \in Client, Read(c) \/ Name(c) \/ Hold(c) \/ Conflict(c) \/ Index(c)
  PROVE  \/ h'[c].snap = h[c].snap \/ h'[c].snap = Absent
         \/ \E p \in Path : h'[c].snap = store[p]
<1>1. h[c] \in Handler /\ h \in [Client -> Handler]
  BY DEF TypeInv, TypeOK
<1>2. CASE Read(c)
  <2>1. h[c].q \in Calls /\ h[c].q.kind \notin Filing
    BY <1>2, AtWork DEF Read, Shape
  <2>2. h[c].q.at \in Path
    BY <2>1, CallTypes
  <2>3. CASE Returns(c)
    BY <2>3, RetriesReads
  <2>4. CASE ~Returns(c)
    <3>1. PICK x : Goes(c, [h[c] EXCEPT !.snap = store[h[c].q.at], !.pc = x])
      BY <1>2, <2>4 DEF Read
    <3>2. h'[c].snap = store[h[c].q.at]
      BY <1>1, <3>1 DEF Goes, Handler
    <3>3. QED
      BY <2>2, <3>2
  <2>5. QED
    BY <2>3, <2>4
<1>3. CASE Name(c) \/ Hold(c)
  <2>1. PICK t, x : \/ Goes(c, [h[c] EXCEPT !.tgt = t, !.pc = x])
                    \/ Goes(c, [h[c] EXCEPT !.held = t, !.pc = x])
    BY <1>3 DEF Name, Hold
  <2>2. CASE Goes(c, [h[c] EXCEPT !.tgt = t, !.pc = x])
    BY <1>1, <2>2 DEF Goes, Handler
  <2>3. CASE Goes(c, [h[c] EXCEPT !.held = t, !.pc = x])
    BY <1>1, <2>3 DEF Goes, Handler
  <2>4. QED
    BY <2>1, <2>2, <2>3
<1>4. CASE Conflict(c) \/ Index(c)
  BY <1>4, RetriesReads DEF Conflict, Index
<1>5. QED
  BY <1>2, <1>3, <1>4

LEMMA QuietOnce ==
  ASSUME OnceInv, NEW c \in Client, Read(c) \/ Name(c) \/ Hold(c) \/ Conflict(c) \/ Index(c)
  PROVE  EditsNew' /\ OneCopy'
<1>1. /\ UNCHANGED <<store, calls, crashes>> /\ \A d \in Client : d # c => h'[d] = h[d]
      /\ Settled(h[c]) /\ Settled(h'[c])
      /\ h[c].pc \notin {"idle", "index"} \/ h'[c].pc \in {"idle", "index"}
  BY QuietGoes DEF OnceInv, BookInv, IInv
<1>2. \A d \in Client, n \in Nat : Unwritten(d, n)' => Unwritten(d, n)
  BY <1>1, StepWrites
<1>3. \A d \in Client : \/ h'[d].snap = h[d].snap \/ h'[d].snap = Absent
                        \/ \E p \in Path : h'[d].snap = store[p]
  BY <1>1, QuietReads DEF OnceInv, BookInv, IInv
<1>4. EditsNew'
  BY <1>1, <1>2, <1>3, EditsStayNew DEF OnceInv
<1>5. OneCopy'
  BY <1>1, SettledFlight, OneCopyStays DEF OnceInv
<1>6. QED
  BY <1>4, <1>5

LEMMA EntersOnce ==
  ASSUME OnceInv, NEW c \in Client, Check(c) \/ Recheck(c) \/ SourceChanged(c)
  PROVE  EditsNew' /\ OneCopy'
<1>1. /\ UNCHANGED <<store, calls, crashes>> /\ \A d \in Client : d # c => h'[d] = h[d]
      /\ h'[c].snap = h[c].snap /\ h'[c].tgt = h[c].tgt
      /\ h[c].pc \notin {"idle", "index"} /\ (Copying(c)' <=> Copying(c))
  BY EntersAdmits DEF OnceInv
<1>2. EditsNew'
  BY <1>1, StepWrites, EditsStayNew DEF OnceInv
<1>3. \A p \in Path : InFlight(p)' <=> InFlight(p)
  BY <1>1 DEF InFlight
<1>4. QED
  BY <1>1, <1>2, <1>3, OneCopyStays DEF OnceInv

(* A put stores the lines that were there, or those and the new edit. *)
LEMMA PutLines ==
  ASSUME TypeInv, Sheltered, NEW c \in Client, h[c].pc \in {"check", "write"},
         store[h[c].tgt] = Expected(c), ~Archives(c)
  PROVE  NewText(c).lines \subseteq LinesOf(store[h[c].tgt]) \cup {Edit(c)}
<1>1. h[c].q \in Calls /\ h[c].q.kind \notin {"move", "delete", "put"} /\ h[c].tgt \in Homes(h[c])
  BY AtWork DEF Shape
<1>2. CASE h[c].q.kind \in Filing
  BY <1>2 DEF NewText, Adding, Filing
<1>3. CASE h[c].q.kind \notin Filing
  <2>1. h[c].tgt = h[c].q.at
    BY <1>1, <1>3 DEF Homes, Archives
  <2>2. store[h[c].tgt] = h[c].snap
    BY <2>1 DEF Expected
  <2>3. QED
    BY <2>2 DEF NewText
<1>4. QED
  BY <1>2, <1>3

LEMMA PutOnce ==
  ASSUME OnceInv, Sheltered, NEW c \in Client, PutIfMatch(c) \/ Write(c)
  PROVE  EditsNew' /\ OneCopy'
<1>0. BookInv /\ TypeInv /\ EditsNew /\ OneCopy
  BY DEF OnceInv, BookInv, IInv
<1>1. PICK t : t = h[c].tgt
  OBVIOUS
<1>2. /\ store[t] = Expected(c) /\ t \in Path /\ h[c].pc \in {"check", "write"}
      /\ store'[t] # Absent /\ store'[t].text = NewText(c)
      /\ \A p \in Path : p # t => store'[p] = store[p]
      /\ h'[c].snap = h[c].snap /\ h'[c].tgt = t
      /\ h'[c].pc = IF Archives(c) THEN "recheck" ELSE "index"
      /\ \A d \in Client : d # c => h'[d] = h[d]
      /\ \A d \in Client : Copying(d) => h[d].tgt # t
      /\ UNCHANGED <<calls, crashes>>
  <2>1. h[c].tgt = t
    BY <1>1
  <2>2. QED
    BY <1>0, <2>1, PutAdmits
<1>3. calls[c] \in Nat
  BY <1>0 DEF TypeInv, TypeOK
<1>4. LinesOf(store'[t]) = NewText(c).lines
  BY <1>2 DEF LinesOf
<1>5. \A d \in Client, n \in Nat : Unwritten(d, n)' => Unwritten(d, n)
  BY <1>2, StepWrites
<1>6. \A d \in Client : h'[d].snap = h[d].snap
  BY <1>2
<1>7. CASE ~Archives(c)
  <2>1. LinesOf(store'[t]) \subseteq LinesOf(store[t]) \cup {Edit(c)}
    BY <1>0, <1>1, <1>2, <1>4, <1>7, PutLines
  <2>2. h'[c].pc = "index"
    BY <1>2, <1>7
  <2>3. \A d \in Client, n \in Nat : Unwritten(d, n)' => <<d, n>> # Edit(c)
    BY <1>2, <1>3, <2>2 DEF Unwritten, Edit
  <2>4. EditsNew'
    BY <1>0, <1>2, <1>5, <1>6, <2>1, <2>3 DEF EditsNew, Early
  <2>5. \A p \in Path : InFlight(p)' <=> InFlight(p)
    BY <1>2, <2>2 DEF InFlight
  <2>6. Unwritten(c, calls[c])
    BY <1>2, <1>3 DEF Unwritten
  <2>7. \A p \in Path : Edit(c) \notin LinesOf(store[p])
    BY <1>0, <1>3, <2>6 DEF EditsNew, Early, Edit
  <2>8. ~InFlight(t)
    BY <1>2 DEF InFlight
  <2>9. \A p \in Path : p # t => LinesOf(store'[p]) = LinesOf(store[p])
    BY <1>2 DEF LinesOf
  <2>10. OneCopy'
    <3> SUFFICES ASSUME crashes' = 0, NEW p1 \in Path, NEW p2 \in Path,
                        ~InFlight(p1)', ~InFlight(p2)', p1 # p2
                 PROVE  LinesOf(store'[p1]) \cap LinesOf(store'[p2]) = {}
      BY DEF OneCopy, LinesOf
    <3>1. crashes = 0 /\ ~InFlight(p1) /\ ~InFlight(p2)
      BY <1>2, <2>5
    <3>2. LinesOf(store[p1]) \cap LinesOf(store[p2]) = {}
      BY <1>0, <3>1 DEF OneCopy
    <3>3. QED
      BY <2>1, <2>7, <2>9, <3>2
  <2>11. QED
    BY <2>4, <2>10
<1>8. CASE Archives(c)
  <2>1. LinesOf(store'[t]) = LinesOf(h[c].snap)
    BY <1>4, <1>8 DEF NewText, Archives, Adding, Filing
  <2>2. h'[c].pc = "recheck" /\ ~Copying(c)
    BY <1>2, <1>8
  <2>3. EditsNew'
    BY <1>0, <1>2, <1>5, <1>6, <2>1 DEF EditsNew, Early
  <2>4. \A p \in Path : ~InFlight(p)' => ~InFlight(p) /\ p # t
    BY <1>2, <2>2 DEF InFlight
  <2>5. OneCopy'
    <3> SUFFICES ASSUME crashes' = 0, NEW p1 \in Path, NEW p2 \in Path,
                        ~InFlight(p1)', ~InFlight(p2)', p1 # p2
                 PROVE  LinesOf(store'[p1]) \cap LinesOf(store'[p2]) = {}
      BY DEF OneCopy, LinesOf
    <3>1. ~InFlight(p1) /\ ~InFlight(p2) /\ store'[p1] = store[p1] /\ store'[p2] = store[p2]
      BY <1>2, <2>4
    <3>2. QED
      BY <1>0, <1>2, <3>1 DEF OneCopy
  <2>6. QED
    BY <2>3, <2>5
<1>9. QED
  BY <1>7, <1>8

(* close takes its copy back, or the copy takes its source's place. *)
LEMMA DropReads ==
  ASSUME TypeInv, NEW c \in Client, DeleteIfMatch(c) \/ Unlink(c) \/ Undo(c)
  PROVE  /\ h'[c].snap = h[c].snap \/ h'[c].snap = Absent
         /\ h[c].pc \notin {"idle", "index"}
<1>1. h[c] \in Handler /\ h \in [Client -> Handler]
  BY DEF TypeInv, TypeOK
<1>2. CASE Returns(c) \/ Retries(c, {})
  BY <1>2, RetriesReads DEF DeleteIfMatch, Unlink, Undo
<1>3. CASE Goes(c, [h[c] EXCEPT !.pc = "index"])
  BY <1>1, <1>3 DEF Goes, Handler, DeleteIfMatch, Unlink, Undo
<1>4. QED
  BY <1>2, <1>3 DEF DeleteIfMatch, Unlink, Undo

LEMMA DropOnce ==
  ASSUME OnceInv, Sheltered, NEW c \in Client, DeleteIfMatch(c) \/ Unlink(c) \/ Undo(c)
  PROVE  EditsNew' /\ OneCopy'
<1>0. BookInv /\ TypeInv /\ EditsNew /\ OneCopy
  BY DEF OnceInv, BookInv, IInv
<1>1. PICK t, s, p0 : /\ t = h[c].tgt /\ s = h[c].q.at
                      /\ \/ (DeleteIfMatch(c) \/ Unlink(c)) /\ p0 = s
                         \/ Undo(c) /\ p0 = t
  OBVIOUS
<1>2. /\ p0 \in Path /\ store'[p0] = Absent
      /\ \A p \in Path : p # p0 => store'[p] = store[p]
      /\ \A d \in Client : d # c => h'[d] = h[d]
      /\ \A d \in Client : d # c /\ Copying(d) => h[d].tgt # p0 /\ h[d].tgt # t
      /\ UNCHANGED <<calls, crashes>> /\ Copying(c) /\ Settled(h'[c])
  <2>1. \/ (DeleteIfMatch(c) \/ Unlink(c)) /\ p0 = h[c].q.at
        \/ Undo(c) /\ p0 = h[c].tgt
    BY <1>1
  <2>2. QED
    BY <1>0, <1>1, <2>1, DropAdmits
<1>3. /\ t \in Path /\ t # s /\ s \in Path
      /\ \A d \in Client : Copying(d) => h[d].tgt # s
  BY <1>0, <1>1, <1>2, CopyIsArchived DEF Path
<1>4. EditsNew'
  <2>1. h[c].pc \notin {"idle", "index"} /\ (h'[c].snap = h[c].snap \/ h'[c].snap = Absent)
    BY <1>0, DropReads
  <2>2. \A d \in Client, n \in Nat : Unwritten(d, n)' => Unwritten(d, n)
    BY <1>2, <2>1, StepWrites
  <2>3. \A d \in Client : h'[d].snap = h[d].snap \/ h'[d].snap = Absent
    BY <1>2, <2>1
  <2>4. \A p \in Path : store'[p] = store[p] \/ store'[p] = Absent
    BY <1>2
  <2>5. QED
    BY <1>0, <2>2, <2>3, <2>4, EditsStayNew
<1>5. \A p \in Path : p # t => (InFlight(p)' <=> InFlight(p))
  BY <1>1, <1>2 DEF InFlight, Settled
<1>6. \A p \in Path : LinesOf(store'[p]) = IF p = p0 THEN {} ELSE LinesOf(store[p])
  BY <1>2 DEF LinesOf
<1>7. p0 = s => LinesOf(store[t]) = LinesOf(store[s])
  <2> SUFFICES ASSUME p0 = s PROVE LinesOf(store[t]) = LinesOf(store[s])
    OBVIOUS
  <2>1. DeleteIfMatch(c) \/ Unlink(c)
    BY <1>1, <1>3
  <2>2. store[s] = h[c].snap
    BY <1>0, <1>1, <2>1 DEF DeleteIfMatch, Unlink, BookInv, IInv, Window
  <2>3. store[t].text = [lines |-> LinesOf(h[c].snap), claim |-> NoClaim] /\ store[t] # Absent
    BY <1>0, <1>1, <1>2 DEF BookInv, IInv, Verbatim, Copied
  <2>4. QED
    BY <2>2, <2>3 DEF LinesOf
<1>8. OneCopy'
  <2> SUFFICES ASSUME crashes' = 0, NEW p1 \in Path, NEW p2 \in Path,
                      ~InFlight(p1)', ~InFlight(p2)', p1 # p2
               PROVE  LinesOf(store'[p1]) \cap LinesOf(store'[p2]) = {}
    BY DEF OneCopy, LinesOf
  <2>1. \A p, q \in Path : ~InFlight(p) /\ ~InFlight(q) /\ p # q
                             => LinesOf(store[p]) \cap LinesOf(store[q]) = {}
    BY <1>0, <1>2 DEF OneCopy
  <2>2. CASE p0 = t
    BY <1>3, <1>5, <1>6, <2>1, <2>2
  <2>3. CASE p0 = s
    <3>1. ~InFlight(s)
      BY <1>3 DEF InFlight
    <3>2. QED
      BY <1>3, <1>5, <1>6, <1>7, <2>1, <2>3, <3>1
  <2>4. QED
    BY <1>1, <2>2, <2>3
<1>9. QED
  BY <1>4, <1>8

LEMMA OnceInvInit == Init => OnceInv
<1> SUFFICES ASSUME Init PROVE OnceInv
  OBVIOUS
<1>1. BookInv
  BY BookInvInit
<1>2. \A p \in Path : LinesOf(store[p]) \subseteq {p}
  BY DEF Init, LinesOf
<1>3. \A d \in Client : LinesOf(h[d].snap) = {}
  BY DEF Init, Resting, LinesOf
<1>4. EditsNew
  <2>1. \A p \in Path, c \in Client, n \in Nat : <<c, n>> # p
    BY DEF NoteStoreAssumption
  <2>2. ASSUME NEW p \in Path PROVE Early(LinesOf(store[p]))
    <3> SUFFICES ASSUME NEW c \in Client, NEW n \in Nat, <<c, n>> \in LinesOf(store[p])
                 PROVE  FALSE
      BY DEF Early
    <3>1. <<c, n>> \in {p}
      BY <1>2
    <3>2. QED
      BY <2>1, <3>1
  <2>3. ASSUME NEW d \in Client PROVE Early(LinesOf(h[d].snap))
    BY <1>3 DEF Early
  <2>4. QED
    BY <2>2, <2>3 DEF EditsNew
<1>5. OneCopy
  BY <1>2 DEF OneCopy
<1>6. QED
  BY <1>1, <1>4, <1>5 DEF OnceInv

LEMMA OnceInvNext == Sheltered /\ OnceInv /\ [Next]_vars => OnceInv'
<1> SUFFICES ASSUME Sheltered, OnceInv, [Next]_vars PROVE OnceInv'
  OBVIOUS
<1>1. BookInv'
  BY BookInvNext DEF OnceInv
<1>2. ASSUME NEW c \in Client, Begin(c) PROVE EditsNew' /\ OneCopy'
  BY <1>2, BeginOnce
<1>3. ASSUME NEW c \in Client, Continue(c) PROVE EditsNew' /\ OneCopy'
  BY <1>3, QuietOnce, EntersOnce, PutOnce, DropOnce, NoBlindStep
     DEF Continue, OnceInv, BookInv, IInv, Sheltered
<1>4. ASSUME NEW s \in Process, Crash(s) PROVE EditsNew' /\ OneCopy'
  <2>1. /\ store' = store /\ calls' = calls /\ crashes' = crashes + 1 /\ crashes \in Nat
        /\ \A d \in Client : h'[d] = h[d] \/ h'[d] = Resting
    BY <1>4 DEF Crash, OnceInv, BookInv, IInv, TypeInv, TypeOK
  <2>2. Resting.pc = "idle" /\ Resting.snap = Absent
    BY DEF Resting
  <2>3. \A d \in Client, n \in Nat : Unwritten(d, n)' => Unwritten(d, n)
    BY <2>1, <2>2 DEF Unwritten
  <2>4. EditsNew'
    BY <2>1, <2>2, <2>3, EditsStayNew DEF OnceInv
  <2>5. OneCopy'
    BY <2>1 DEF OneCopy
  <2>6. QED
    BY <2>4, <2>5
<1>5. ASSUME UNCHANGED vars PROVE EditsNew' /\ OneCopy'
  BY <1>5 DEF vars, OnceInv, EditsNew, Early, Unwritten, OneCopy, InFlight
<1>6. EditsNew' /\ OneCopy'
  BY <1>2, <1>3, <1>4, <1>5 DEF Next
<1>7. QED
  BY <1>1, <1>6 DEF OnceInv

(* Where every call is conditional, no edit is in two notes that stay      *)
(* while no server is killed: not by a close that is undone or tried       *)
(* again, and not by a filing call that lost its name.                     *)
THEOREM EditsOnce == Sheltered => (Spec => []OneCopy)
<1> SUFFICES ASSUME Sheltered PROVE Spec => []OneCopy
  OBVIOUS
<1>1. Init => OnceInv
  BY OnceInvInit
<1>2. OnceInv /\ [Next]_vars => OnceInv'
  BY OnceInvNext
<1>3. OnceInv => OneCopy
  BY DEF OnceInv
<1>4. QED
  BY <1>1, <1>2, <1>3, PTL DEF Spec

-----------------------------------------------------------------------------
(* What a single step may never do, with the moves, deletes and PUTs that  *)
(* take no version beside the other calls.  Where every write is guarded,  *)
(* a put finds what its handler read.                                      *)
GuardInv == /\ TypeInv /\ Admitted
            /\ backend.atomic => \A c \in Client : h[c].pc \notin {"write", "unlink"}
            /\ Conditional => BookInv

LEMMA AdmitsAlways == TypeInv /\ Admitted /\ [Next]_vars => Admitted'
<1> SUFFICES ASSUME TypeInv, Admitted, [Next]_vars PROVE Admitted'
  OBVIOUS
<1>0. h \in [Client -> Handler]
  BY DEF TypeInv, TypeOK
<1>1. ASSUME NEW c \in Client, Begin(c) PROVE Admitted'
  BY <1>0, <1>1, FreshAdmitted, AdmittedStep DEF Begin, Goes
<1>2. ASSUME NEW c \in Client, Continue(c) PROVE Admitted'
  <2>1. CASE Read(c) \/ Name(c) \/ Hold(c) \/ Conflict(c) \/ Index(c)
    BY <2>1, QuietGoes, AdmittedStep
  <2>2. CASE PutIfMatch(c) \/ Check(c) \/ Write(c) \/ SourceChanged(c) \/ Recheck(c)
    <3>1. h[c].pc \in {"check", "write", "recheck"}
      BY <2>2 DEF PutIfMatch, Check, Write, SourceChanged, Recheck
    <3>2. h'[c].q = h[c].q /\ h'[c].snap = h[c].snap /\ \A d \in Client : d # c => h'[d] = h[d]
      <4>1. CASE PutIfMatch(c) \/ Write(c)
        <5> DEFINE o == Stamped(NewText(c))
                   x == IF Archives(c) THEN "recheck" ELSE "index"
        <5>1. Goes(c, [h[c] EXCEPT !.out = o, !.pc = x])
          BY <4>1 DEF PutIfMatch, Write, Commits
        <5> HIDE DEF o, x
        <5>2. QED
          BY <1>0, <5>1 DEF Goes, Handler
      <4>2. CASE Check(c)
        BY <1>0, <4>2 DEF Check, Goes, Handler
      <4>3. CASE SourceChanged(c)
        BY <1>0, <4>3 DEF SourceChanged, Goes, Handler
      <4>4. CASE Recheck(c)
        BY <1>0, <4>4 DEF Recheck, Goes, Handler
      <4>5. QED
        BY <2>2, <4>1, <4>2, <4>3, <4>4
    <3>3. QED
      BY <3>1, <3>2, AdmittedStep DEF Admitted, Admit
  <2>3. CASE \/ DeleteIfMatch(c) \/ Unlink(c) \/ Undo(c) \/ Fetch(c) \/ Rename(c) \/ CopyAcross(c)
             \/ DropSource(c) \/ Reread(c) \/ Delete(c) \/ Put(c) \/ Mark(c)
    <3>1. CASE Returns(c) \/ Retries(c, {})
      BY <3>1, RetriesAdmitted, AdmittedStep
    <3>2. CASE ~(Returns(c) \/ Retries(c, {}))
      <4>1. PICK x : /\ x \in {"index", "move", "reread", "drop", "mark"}
                     /\ \/ Goes(c, [h[c] EXCEPT !.pc = x])
                        \/ \E o : \/ Goes(c, [h[c] EXCEPT !.out = o, !.pc = x])
                                  \/ Goes(c, [h[c] EXCEPT !.snap = o, !.pc = x])
        BY <2>3, <3>2 DEF DeleteIfMatch, Unlink, Undo, Fetch, Rename, CopyAcross, DropSource, Reread,
           Delete, Put, Mark
      <4>2. h'[c].pc = x /\ \A d \in Client : d # c => h'[d] = h[d]
        <5>1. CASE Goes(c, [h[c] EXCEPT !.pc = x])
          BY <1>0, <5>1 DEF Goes, Handler
        <5>2. ASSUME NEW o, Goes(c, [h[c] EXCEPT !.out = o, !.pc = x])
              PROVE  h'[c].pc = x /\ \A d \in Client : d # c => h'[d] = h[d]
          BY <1>0, <5>2 DEF Goes, Handler
        <5>3. ASSUME NEW o, Goes(c, [h[c] EXCEPT !.snap = o, !.pc = x])
              PROVE  h'[c].pc = x /\ \A d \in Client : d # c => h'[d] = h[d]
          BY <1>0, <5>3 DEF Goes, Handler
        <5>4. QED
          BY <4>1, <5>1, <5>2, <5>3
      <4>3. QED
        BY <4>1, <4>2, AdmittedStep DEF Admit
    <3>3. QED
      BY <3>1, <3>2
  <2>4. QED
    BY <1>2, <2>1, <2>2, <2>3 DEF Continue
<1>3. ASSUME NEW s \in Process, Crash(s) PROVE Admitted'
  BY <1>3 DEF Crash, Admitted, Admit, Resting
<1>4. ASSUME UNCHANGED vars PROVE Admitted'
  BY <1>4 DEF vars, Admitted, Admit
<1>5. QED
  BY <1>1, <1>2, <1>3, <1>4 DEF Next

(* Where the store compares and writes in one request, no handler is ever  *)
(* between a check and its write.                                          *)
LEMMA NoWindow ==
  ASSUME TypeInv, [Next]_vars,
         backend.atomic => \A c \in Client : h[c].pc \notin {"write", "unlink"}
  PROVE  backend'.atomic => \A c \in Client : h'[c].pc \notin {"write", "unlink"}
<1>0. h \in [Client -> Handler]
  BY DEF TypeInv, TypeOK
<1>1. backend' = backend
  BY DEF Next, vars, Begin, Continue, Crash, Read, Name, Hold, Conflict, PutIfMatch, Check, Write,
     SourceChanged, DeleteIfMatch, Recheck, Unlink, Undo, Fetch, Rename, CopyAcross, DropSource,
     Reread, Delete, Put, Mark, Index
<1> SUFFICES ASSUME backend.atomic, NEW c \in Client
             PROVE  h'[c].pc \notin {"write", "unlink"}
  BY <1>1
<1>2. h[c].pc \notin {"write", "unlink"}
  OBVIOUS
<1>3. CASE h'[c] = h[c]
  BY <1>2, <1>3
<1>4. CASE h'[c] # h[c]
  <2>1. Begin(c) \/ Continue(c) \/ h'[c] = Resting
    <3>1. ASSUME NEW d \in Client, Begin(d) \/ Continue(d), d # c PROVE h'[c] = h[c]
      <4>1. PICK r : Goes(d, r)
        BY <3>1 DEF Begin, Continue, Read, Name, Hold, Conflict, PutIfMatch, Check, Write, Commits,
           SourceChanged, DeleteIfMatch, Recheck, Unlink, Undo, Fetch, Rename, CopyAcross, DropSource,
           Reread, Delete, Put, Mark, Index, Retries, Returns
      <4>2. QED
        BY <1>0, <3>1, <4>1 DEF Goes
    <3>2. ASSUME NEW s \in Process, Crash(s) PROVE h'[c] = h[c] \/ h'[c] = Resting
      BY <3>2 DEF Crash
    <3>3. QED
      BY <1>4, <3>1, <3>2 DEF Next, vars
  <2>2. CASE h'[c] = Resting
    BY <2>2 DEF Resting
  <2>3. CASE Begin(c)
    BY <1>0, <2>3, FreshSettled DEF Begin, Goes, Settled
  <2>4. CASE Continue(c)
    <3>1. ~Check(c) /\ ~Recheck(c)
      BY DEF Check, Recheck
    <3>2. CASE Returns(c) \/ \E L : Retries(c, L)
      BY <3>2, RetriesSettled DEF Settled
    <3>3. CASE ~(Returns(c) \/ \E L : Retries(c, L))
      <4>1. PICK r : /\ Goes(c, r) /\ r.pc \notin {"write", "unlink"}
        <5>1. CASE Read(c)
          <6> DEFINE x == CASE Archives(c) -> "name"
                            [] h[c].q.kind = "move" -> IF backend.move = "reput" THEN "fetch" ELSE "move"
                            [] OTHER -> "check"
                     r == [h[c] EXCEPT !.snap = store[h[c].q.at], !.pc = x]
          <6>1. Goes(c, r)
            BY <3>3, <5>1 DEF Read
          <6>2. r.pc = x
            BY <1>0 DEF Handler
          <6>3. x \notin {"write", "unlink"}
            OBVIOUS
          <6> HIDE DEF x, r
          <6>4. QED
            BY <6>1, <6>2, <6>3
        <5>2. CASE ~Read(c)
          <6>1. PICK x : /\ x \notin {"write", "unlink"}
                         /\ \/ Goes(c, [h[c] EXCEPT !.pc = x])
                            \/ \E o : \/ Goes(c, [h[c] EXCEPT !.out = o, !.pc = x])
                                      \/ Goes(c, [h[c] EXCEPT !.snap = o, !.pc = x])
                                      \/ Goes(c, [h[c] EXCEPT !.tgt = o, !.pc = x])
                                      \/ Goes(c, [h[c] EXCEPT !.held = o, !.pc = x])
            BY <2>4, <3>1, <3>3, <5>2 DEF Continue, Name, Hold, Conflict, PutIfMatch, Write, Commits,
               SourceChanged, DeleteIfMatch, Unlink, Undo, Fetch, Rename, CopyAcross, DropSource,
               Reread, Delete, Put, Mark, Index
          <6>2. h[c] \in Handler
            BY <1>0
          <6>3. [h[c] EXCEPT !.pc = x].pc = x
            BY <6>2 DEF Handler
          <6>4. \A o : /\ [h[c] EXCEPT !.out = o, !.pc = x].pc = x
                       /\ [h[c] EXCEPT !.snap = o, !.pc = x].pc = x
                       /\ [h[c] EXCEPT !.tgt = o, !.pc = x].pc = x
                       /\ [h[c] EXCEPT !.held = o, !.pc = x].pc = x
            BY <6>2 DEF Handler
          <6>5. QED
            BY <6>1, <6>3, <6>4
        <5>3. QED
          BY <5>1, <5>2
      <4>2. QED
        BY <1>0, <4>1 DEF Goes
    <3>4. QED
      BY <3>2, <3>3
  <2>5. QED
    BY <2>1, <2>2, <2>3, <2>4
<1>5. QED
  BY <1>3, <1>4

LEMMA GuardInvInit == Init => GuardInv
<1> SUFFICES ASSUME Init PROVE GuardInv
  OBVIOUS
<1>1. \A c \in Client : h[c].pc = "idle"
  BY DEF Init, Resting
<1>2. QED
  BY <1>1, BookInvInit DEF GuardInv, BookInv, IInv

LEMMA GuardInvNext ==
  OneProcessEach /\ ArchiveApart /\ GuardInv /\ [Next]_vars => GuardInv'
<1> SUFFICES ASSUME OneProcessEach, ArchiveApart, GuardInv, [Next]_vars PROVE GuardInv'
  OBVIOUS
<1>1. TypeInv'
  BY NextTypes DEF GuardInv
<1>2. Admitted'
  BY AdmitsAlways DEF GuardInv
<1>3. backend'.atomic => \A c \in Client : h'[c].pc \notin {"write", "unlink"}
  BY NoWindow DEF GuardInv
<1>4. Conditional => BookInv'
  BY BookInvNext DEF GuardInv, Sheltered
<1>5. QED
  BY <1>1, <1>2, <1>3, <1>4 DEF GuardInv, Conditional

(* A put of a handler whose version still stands. *)
LEMMA GuardedPut ==
  ASSUME GuardInv, Guarded, NEW c \in Client, PutIfMatch(c) \/ Write(c)
  PROVE  /\ h[c].pc \in {"check", "write"} /\ store[h[c].tgt] = Expected(c)
         /\ h[c].q \in Calls /\ h[c].q.kind \notin {"move", "delete", "put"}
         /\ h[c].tgt \in Homes(h[c]) /\ h[c].tgt \in Path
         /\ h[c].q.kind \in Rewriting \cup {"close"} => ~Refuses(h[c].q, h[c].snap)
         /\ \A p \in Path : p # h[c].tgt => store'[p] = store[p]
         /\ ClaimOf(store'[h[c].tgt]) = NewText(c).claim
         /\ h'[c] # h[c]
<1>1. h[c].pc \in {"check", "write"} /\ Commits(c)
  BY DEF PutIfMatch, Write
<1>2. store[h[c].tgt] = Expected(c)
  <2>1. CASE PutIfMatch(c)
    BY <2>1 DEF PutIfMatch
  <2>2. CASE Write(c)
    <3>1. h[c].pc = "write"
      BY <2>2 DEF Write
    <3>2. Conditional
      BY <3>1 DEF GuardInv, Guarded, Conditional
    <3>3. QED
      BY <3>1, <3>2 DEF GuardInv, BookInv, IInv, Window
  <2>3. QED
    BY <2>1, <2>2
<1>3. /\ h[c].q \in Calls /\ h[c].q.kind \notin {"move", "delete", "put"}
      /\ h[c].tgt \in Homes(h[c]) /\ h[c].tgt \in Path
  BY <1>1, AtWork DEF GuardInv, Shape
<1>4. h[c].q.kind \in Rewriting \cup {"close"} => ~Refuses(h[c].q, h[c].snap)
  BY <1>1 DEF GuardInv, Admitted, Admit
<1>5. h \in [Client -> Handler] /\ store \in [Path -> Object \cup {Absent}]
  BY DEF GuardInv, TypeInv, TypeOK
<1>6. store' = [store EXCEPT ![h[c].tgt] = Stamped(NewText(c))]
  BY <1>1 DEF Commits, Stores
<1>7. Stamped(NewText(c)) # Absent
  <2>1. NewText(c) \in Text
    BY <1>1, NewTextType DEF GuardInv
  <2>2. Stamped(NewText(c)) \in Object
    BY <2>1, StampedType DEF Stamped, GuardInv, TypeInv
  <2>3. QED
    BY <2>2 DEF NoteStoreAssumption
<1>8. ClaimOf(store'[h[c].tgt]) = NewText(c).claim
  BY <1>3, <1>5, <1>6, <1>7 DEF ClaimOf, Stamped
<1>9. h'[c] # h[c]
  <2>1. h'[c].pc \in {"recheck", "index"}
    <3>1. PICK o, x : x \in {"recheck", "index"} /\ Goes(c, [h[c] EXCEPT !.out = o, !.pc = x])
      BY <1>1 DEF Commits
    <3>2. QED
      BY <1>5, <3>1 DEF Goes, Handler
  <2>2. QED
    BY <1>1, <2>1
<1>10. QED
  BY <1>1, <1>2, <1>3, <1>4, <1>5, <1>6, <1>8, <1>9

(* The steps that store or remove with no version: of the calls that may.  *)
LEMMA BlindStep ==
  ASSUME TypeInv, NEW c \in Client,
         \/ DeleteIfMatch(c) \/ Unlink(c) \/ Undo(c)
         \/ Rename(c) \/ CopyAcross(c) \/ DropSource(c) \/ Delete(c) \/ Put(c)
  PROVE  h[c].q.kind \in {"close", "move", "delete", "put"} /\ h'[c] # h[c]
<1>1. h[c].pc \in {"recheck", "unlink", "undo", "move", "drop", "delete", "put"}
  BY DEF DeleteIfMatch, Unlink, Undo, Rename, CopyAcross, DropSource, Delete, Put
<1>2. h[c].q.kind \in {"close", "move", "delete", "put"}
  BY <1>1, AtWork DEF Shape
<1>3. h \in [Client -> Handler] /\ h[c] \in Handler
  BY DEF TypeInv, TypeOK
<1>4. h'[c].pc # h[c].pc
  <2>1. CASE Returns(c)
    BY <1>1, <1>3, <2>1 DEF Returns, Goes, Resting
  <2>2. CASE ~Returns(c) /\ Retries(c, {})
    <3>1. PICK n : Goes(c, Fresh(h[c].q, Absent, n, h[c].lost \cup {}))
      BY <2>2 DEF Retries
    <3>2. h'[c].pc = First(h[c].q)
      BY <1>3, <3>1 DEF Goes, Fresh
    <3>3. CASE h[c].pc \in {"recheck", "unlink", "undo"}
      <4>1. h[c].q.kind = "close"
        BY <3>3, AtWork DEF Shape
      <4>2. First(h[c].q) = "read"
        BY <4>1 DEF First, Filing
      <4>3. QED
        BY <3>2, <3>3, <4>2
    <3>4. CASE h[c].pc \notin {"recheck", "unlink", "undo"}
      <4>1. \E x : x # h[c].pc /\ (Goes(c, [h[c] EXCEPT !.pc = x]))
        BY <2>2, <3>4 DEF DeleteIfMatch, Unlink, Undo, Rename, CopyAcross, DropSource, Delete, Put
      <4>2. QED
        BY <1>3, <4>1 DEF Goes, Handler
    <3>5. QED
      BY <3>3, <3>4
  <2>3. CASE ~Returns(c) /\ ~Retries(c, {})
    <3>1. PICK x : x # h[c].pc /\ Goes(c, [h[c] EXCEPT !.pc = x])
      BY <2>3 DEF DeleteIfMatch, Unlink, Undo, Rename, CopyAcross, DropSource, Delete, Put
    <3>2. QED
      BY <1>3, <3>1 DEF Goes, Handler
  <2>4. QED
    BY <2>1, <2>2, <2>3
<1>5. QED
  BY <1>2, <1>4

(* The steps that leave the store alone. *)
LEMMA OtherSteps ==
  ASSUME [Next]_vars, store' # store
  PROVE  \E c \in Client :
           \/ PutIfMatch(c) \/ Write(c) \/ DeleteIfMatch(c) \/ Unlink(c) \/ Undo(c)
           \/ Rename(c) \/ CopyAcross(c) \/ DropSource(c) \/ Delete(c) \/ Put(c)
BY DEF Next, vars, Begin, Continue, Crash, Read, Name, Hold, Conflict, Check,
   SourceChanged, Recheck, Fetch, Reread, Mark, Index

LEMMA PutClaims ==
  ASSUME GuardInv, Guarded, ClaimsHeld, NEW c \in Client, PutIfMatch(c) \/ Write(c),
         NEW p \in Path, ClaimOf(store'[p]) # ClaimOf(store[p])
  PROVE  ClaimStep(c, p)
<1> DEFINE q == h[c].q
<1>1. /\ h[c].pc \in {"check", "write"} /\ store[h[c].tgt] = Expected(c)
      /\ q \in Calls /\ q.kind \notin {"move", "delete", "put"} /\ h[c].tgt \in Homes(h[c])
      /\ q.kind \in Rewriting \cup {"close"} => ~Refuses(q, h[c].snap)
      /\ \A r \in Path : r # h[c].tgt => store'[r] = store[r]
      /\ ClaimOf(store'[h[c].tgt]) = NewText(c).claim
  BY GuardedPut
<1>2. p = h[c].tgt
  BY <1>1
<1>3. ClaimOf(store'[p]) = NewText(c).claim
  BY <1>1, <1>2
<1>4. CASE q.kind \in {"park", "close"}
  BY <1>4 DEF ClaimStep
<1>5. CASE q.kind \in Filing
  <2>1. p # q.at
    <3>1. q.at \in Title /\ p \in Path
      BY <1>1, <1>5, CallTypes
    <3>2. QED
      BY <3>1 DEF NoteStoreAssumption
  <2>2. store[p] = Absent
    BY <1>1, <1>2, <2>1 DEF Expected
  <2>3. NewText(c).claim = NoClaim
    <3>1. CASE q.kind = "open"
      BY <1>1, <1>2, <2>2, <3>1 DEF ClaimsHeld, ReadsClaim, NewText, ClaimOf
    <3>2. CASE q.kind = "backlog"
      BY <3>2 DEF NewText
    <3>3. QED
      BY <1>5, <3>1, <3>2 DEF Filing
  <2>4. QED
    BY <1>3, <2>2, <2>3 DEF ClaimOf
<1>6. CASE q.kind \notin Filing \cup {"park", "close"}
  <2>1. h[c].tgt = q.at
    BY <1>1, <1>6 DEF Homes
  <2>2. store[p] = h[c].snap
    BY <1>1, <1>2, <2>1 DEF Expected
  <2>3. CASE q.kind = "claim"
    <3>1. NewText(c).claim = q.who
      BY <2>3 DEF NewText
    <3>2. ~Refuses(q, h[c].snap)
      BY <1>1, <2>3 DEF Rewriting
    <3>3. QED
      BY <1>3, <2>2, <2>3, <3>1, <3>2 DEF ClaimStep, Refuses
  <2>4. CASE q.kind = "release"
    <3>1. NewText(c).claim = NoClaim
      BY <2>4 DEF NewText
    <3>2. ~Refuses(q, h[c].snap)
      BY <1>1, <2>4 DEF Rewriting
    <3>3. QED
      BY <1>3, <2>2, <2>4, <3>1, <3>2 DEF ClaimStep, Refuses
  <2>5. CASE q.kind \in {"append", "log", "write", "status"}
    BY <1>3, <2>2, <2>5 DEF NewText
  <2>6. CASE q.kind = "etag"
    BY <1>1, <1>2, <1>3, <2>6 DEF NewText, ClaimsHeld, ReadsClaim
  <2>7. q.kind \in Kind
    BY <1>1, CallTypes
  <2>8. QED
    BY <1>1, <1>6, <2>3, <2>4, <2>5, <2>6, <2>7 DEF Kind, Rewriting
<1>7. QED
  BY <1>4, <1>5, <1>6

(* Where the claims that write_file and open_task read apart from the      *)
(* version are still the notes' when they write - where none of these runs *)
(* on a note that is claimed, say - a claim changes only by the commands   *)
(* that say so, beside any moves, deletes and PUTs the store guards.       *)
THEOREM ClaimsKept == OneProcessEach /\ ArchiveApart => (Spec /\ []ClaimsHeld => ClaimsByCommand)
<1> SUFFICES ASSUME OneProcessEach, ArchiveApart PROVE Spec /\ []ClaimsHeld => ClaimsByCommand
  OBVIOUS
<1>1. Init => GuardInv
  BY GuardInvInit
<1>2. GuardInv /\ [Next]_vars => GuardInv'
  BY GuardInvNext
<1>3. GuardInv /\ ClaimsHeld /\ [Next]_vars =>
        [\A p \in Path : ClaimOf(store'[p]) # ClaimOf(store[p]) /\ Guarded =>
           \E c \in Client : h'[c] # h[c] /\ ClaimStep(c, p)]_vars
  <2> SUFFICES ASSUME GuardInv, ClaimsHeld, [Next]_vars, Guarded,
                      NEW p \in Path, ClaimOf(store'[p]) # ClaimOf(store[p])
               PROVE  \E c \in Client : h'[c] # h[c] /\ ClaimStep(c, p)
    OBVIOUS
  <2>1. PICK c \in Client :
           \/ PutIfMatch(c) \/ Write(c) \/ DeleteIfMatch(c) \/ Unlink(c) \/ Undo(c)
           \/ Rename(c) \/ CopyAcross(c) \/ DropSource(c) \/ Delete(c) \/ Put(c)
    BY OtherSteps
  <2>2. CASE PutIfMatch(c) \/ Write(c)
    BY <2>2, PutClaims, GuardedPut
  <2>3. CASE ~(PutIfMatch(c) \/ Write(c))
    BY <2>1, <2>3, BlindStep DEF ClaimStep, GuardInv
  <2>4. QED
    BY <2>2, <2>3
<1>4. QED
  BY <1>1, <1>2, <1>3, PTL DEF Spec, ClaimsByCommand

(* What a guarded put may make present: a note its handler read as absent, *)
(* or a free name.                                                         *)
LEMMA PutFounds ==
  ASSUME GuardInv, Guarded, ArchiveApart, NEW c \in Client, PutIfMatch(c) \/ Write(c),
         NEW p \in Path, store[p] = Absent, store'[p] # Absent
  PROVE  Founds(c, p) /\ h'[c] # h[c]
<1> DEFINE q == h[c].q
<1>1. p = h[c].tgt /\ h'[c] # h[c]
  BY GuardedPut
<1>2. /\ store[p] = Expected(c) /\ q \in Calls /\ p \in Homes(h[c])
      /\ q.kind \in Rewriting \cup {"close"} => ~Refuses(q, h[c].snap)
      /\ q.kind \notin {"move", "delete", "put"}
  BY <1>1, GuardedPut
<1>3. CASE p = q.at
  <2>1. h[c].snap = Absent
    BY <1>1, <1>2, <1>3 DEF Expected
  <2>2. q.kind \notin Filing
    BY <1>2, <1>3, CallTypes DEF NoteStoreAssumption
  <2>3. q.kind \notin (Rewriting \cup {"close"}) \ {"log", "write"}
    BY <1>2, <2>1 DEF Refuses
  <2>4. q.kind \in {"log", "write", "etag"}
    BY <1>2, <2>2, <2>3, CallTypes DEF Kind
  <2>5. QED
    BY <1>1, <1>3, <2>1, <2>4 DEF Founds
<1>4. CASE p # q.at
  <2>1. q.kind \in Filing \cup {"close"} /\ p \in Listed(q.at)
    BY <1>2, <1>4 DEF Homes
  <2>2. QED
    BY <1>1, <1>4, <2>1 DEF Founds
<1>5. QED
  BY <1>3, <1>4

(* A note that was deleted or archived is not brought back by a handler    *)
(* that had read it: where every write is guarded, an absent note appears  *)
(* only by the put of a handler that read its absence or took its name as  *)
(* free, at the target of a move, or by a PUT.                             *)
THEOREM GoneStaysGone == OneProcessEach /\ ArchiveApart => (Spec => NothingRevived)
<1> SUFFICES ASSUME OneProcessEach, ArchiveApart PROVE Spec => NothingRevived
  OBVIOUS
<1>1. Init => GuardInv
  BY GuardInvInit
<1>2. GuardInv /\ [Next]_vars => GuardInv'
  BY GuardInvNext
<1>3. GuardInv /\ [Next]_vars => [\A p \in Path : Guarded => ~ComesBack(p)]_vars
  <2> SUFFICES ASSUME GuardInv, [Next]_vars, Guarded,
                      NEW p \in Path, store[p] = Absent, store'[p] # Absent
               PROVE  \E c \in Client : h'[c] # h[c] /\ Founds(c, p)
    BY DEF ComesBack
  <2>1. PICK c \in Client :
           \/ PutIfMatch(c) \/ Write(c) \/ DeleteIfMatch(c) \/ Unlink(c) \/ Undo(c)
           \/ Rename(c) \/ CopyAcross(c) \/ DropSource(c) \/ Delete(c) \/ Put(c)
    BY OtherSteps
  <2>2. CASE PutIfMatch(c) \/ Write(c)
    BY <2>2, PutFounds
  <2>3. CASE DeleteIfMatch(c) \/ Unlink(c) \/ Undo(c) \/ Delete(c) \/ DropSource(c)
    <3>1. store'[p] = store[p] \/ store'[p] = Absent
      BY <2>3 DEF DeleteIfMatch, Unlink, Undo, Delete, DropSource, Removes, GuardInv, TypeInv, TypeOK
    <3>2. QED
      BY <3>1
  <2>4. CASE Rename(c) \/ CopyAcross(c) \/ Put(c)
    <3>1. h'[c] # h[c]
      BY <2>4, BlindStep DEF GuardInv
    <3>2. CASE Put(c)
      <4>1. h[c].q.kind = "put"
        BY <3>2, AtWork DEF Put, Shape, GuardInv
      <4>2. p = h[c].q.at
        BY <3>2 DEF Put, Stores, GuardInv, TypeInv, TypeOK
      <4>3. QED
        BY <3>1, <4>1, <4>2 DEF Founds
    <3>3. CASE Rename(c) \/ CopyAcross(c)
      <4>1. h[c].q.kind = "move" /\ h[c].tgt = h[c].q.to
        BY <3>3, AtWork DEF Rename, CopyAcross, Shape, GuardInv
      <4>2. p = h[c].tgt
        BY <3>3 DEF Rename, CopyAcross, Stores, GuardInv, TypeInv, TypeOK
      <4>3. QED
        BY <3>1, <4>1, <4>2 DEF Founds
    <3>4. QED
      BY <2>4, <3>2, <3>3
  <2>5. QED
    BY <2>1, <2>2, <2>3, <2>4
<1>4. QED
  BY <1>1, <1>2, <1>3, PTL DEF Spec, NothingRevived

=============================================================================
