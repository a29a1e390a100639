------------------------------ MODULE NoteStore ------------------------------
(***************************************************************************)
(* The note handlers of mindin (notes.py, tasks.py, the PUT of dav.py)     *)
(* over a storage backend (backends/local.py, s3.py, sealed.py), run by    *)
(* several clients at once.                                                *)
(*                                                                         *)
(* A note is a set of lines, each the edit of one call, and the machine    *)
(* whose claim it carries.  An object is a text and a stamp: a backend     *)
(* whose versions are digests stamps everything 0, so equal texts have     *)
(* equal versions; one whose versions are fresh (sealed: a random nonce)   *)
(* stamps every write with a number of its own.  Comparing two versions is *)
(* comparing two objects.                                                  *)
(*                                                                         *)
(* A handler is a sequence of storage requests.  Each request is a step,   *)
(* and the steps of the clients interleave.                                *)
(***************************************************************************)
EXTENDS Naturals, Sequences, FiniteSets

CONSTANTS
  Client,        \* a thread of a server; it runs one handler at a time
  Process,       \* server processes; each has its own CHECKED_WRITES lock
  ProcOf,        \* the process each client runs in
  Note,          \* paths that callers name
  Title,         \* titles that backlog_add and open_task turn into paths
  Names,         \* for a note or title, the paths it is archived or filed under, in order
  Machine,       \* machines that claim notes
  Backends,      \* the storage backends a behaviour may run on
  Calls,         \* the calls clients make
  Attempts,      \* REWRITE_RETRIES + 1
  ClaimAttempts, \* CLAIM_ATTEMPTS
  MaxCalls,      \* bound: calls each client makes
  MaxCrashes,    \* bound: processes killed
  Absent, NoClaim, Anyone, Free

Listed(k) == {Names[k][i] : i \in DOMAIN Names[k]}
Path == Note \cup UNION {Listed(k) : k \in Note \cup Title}

Line == Path \cup (Client \X Nat)
Claim == Machine \cup {NoClaim}
Text == [lines : SUBSET Line, claim : Claim]
Object == [text : Text, stamp : Nat]
Row == [text : Text, version : Object]

(* Handlers that read a note and write it back over the version they read, *)
(* and handlers that file a new note under a free name.                    *)
Rewriting == {"append", "log", "write", "status", "park", "claim", "release"}
Filing == {"backlog", "open"}
Kind == Rewriting \cup Filing \cup {"etag", "close", "move", "delete", "put"}

Call == [kind : Kind, at : Path \cup Title, to : Path \cup Title,
         who : Machine \cup {Anyone}, force : BOOLEAN]

Backend == [atomic : BOOLEAN,   \* the store compares and writes in one request
            digests : BOOLEAN,  \* a version is a digest of the text
            raises : BOOLEAN,   \* deleting a missing object raises NotFound
            move : {"rename", "copy", "reput"}]

PC == {"idle", "read", "name", "hold", "check", "write", "recheck", "unlink", "undo",
       "fetch", "move", "drop", "reread", "delete", "put", "mark", "index"}

Handler == [pc : PC, q : Call \cup {Absent}, snap : Object \cup {Absent}, held : Claim,
            tgt : Path \cup {Absent}, out : Object \cup {Absent}, tries : Nat,
            lost : SUBSET Path]

ASSUME NoteStoreAssumption ==
  /\ ProcOf \in [Client -> Process]
  /\ DOMAIN Names = Note \cup Title
  /\ \A k \in Note \cup Title : Names[k] \in Seq(Path)
  /\ Title \cap Path = {}
  /\ Path \cap (Client \X Nat) = {}
  /\ Backends \subseteq Backend
  /\ Calls \subseteq Call
  /\ \A q \in Calls : /\ q.at \in Title <=> q.kind \in Filing
                      /\ q.kind = "close" => q.at \in Note
                      /\ q.kind = "move" => q.at # q.to /\ q.to \in Path
                      /\ q.kind = "claim" => q.who \in Machine
  /\ Attempts \in Nat \ {0} /\ ClaimAttempts \in Nat \ {0}
  /\ MaxCalls \in Nat /\ MaxCrashes \in Nat
  /\ NoClaim \notin Machine /\ Anyone \notin Machine
  /\ Absent \notin Text \cup Object \cup Row \cup Path \cup Call
  /\ Free \notin Client

VARIABLES
  backend,  \* the backend this behaviour runs on
  store,    \* what is stored under each path
  row,      \* the search index's row of each path
  stale,    \* Vault._stale of each process
  lock,     \* who holds CHECKED_WRITES in each process
  writes,   \* the last stamp given out
  h,        \* the handler each client runs: where it is and what it holds
  calls,    \* calls each client began
  acked,    \* lines of calls that succeeded, less those a later call meant to discard
  crashes   \* processes killed so far

vars == <<backend, store, row, stale, lock, writes, h, calls, acked, crashes>>

TypeOK ==
  /\ backend \in Backends
  /\ store \in [Path -> Object \cup {Absent}]
  /\ row \in [Path -> Row \cup {Absent}]
  /\ stale \in [Process -> BOOLEAN]
  /\ lock \in [Process -> Client \cup {Free}]
  /\ writes \in Nat
  /\ h \in [Client -> Handler]
  /\ \A c \in Client : h[c].pc # "idle" => h[c].q \in Calls
  /\ calls \in [Client -> Nat]
  /\ acked \in SUBSET Line
  /\ crashes \in Nat

LinesOf(o) == IF o = Absent THEN {} ELSE o.text.lines
ClaimOf(o) == IF o = Absent THEN NoClaim ELSE o.text.claim

Resting == [pc |-> "idle", q |-> Absent, snap |-> Absent, held |-> NoClaim, tgt |-> Absent,
            out |-> Absent, tries |-> 0, lost |-> {}]

(* Every note exists, holds one line and carries no claim; nothing is filed. *)
Init ==
  /\ backend \in Backends
  /\ store = [p \in Path |->
       IF p \in Note THEN [text |-> [lines |-> {p}, claim |-> NoClaim], stamp |-> 0]
       ELSE Absent]
  /\ row = [p \in Path |-> IF store[p] = Absent THEN Absent
                           ELSE [text |-> store[p].text, version |-> store[p]]]
  /\ stale = [s \in Process |-> FALSE]
  /\ lock = [s \in Process |-> Free]
  /\ writes = 0
  /\ h = [c \in Client |-> Resting]
  /\ calls = [c \in Client |-> 0]
  /\ acked = Note
  /\ crashes = 0

-----------------------------------------------------------------------------
(* What a call does to the text it read. *)

(* The edit of c's present call. *)
Edit(c) == <<c, calls[c]>>

Adding == {"append", "log", "write", "etag", "put"} \cup Filing
Replacing == {"write", "etag"}

(* The text c stores, from the object it read (and, for write_file with an *)
(* etag, the claim it read separately).                                    *)
NewText(c) ==
  LET q == h[c].q
      old == LinesOf(h[c].snap)
  IN [lines |-> CASE q.kind \in {"append", "log"} -> old \cup {Edit(c)}
                  [] q.kind \in Adding \ {"append", "log"} -> {Edit(c)}
                  [] OTHER -> old,
      claim |-> CASE q.kind = "claim" -> q.who
                  [] q.kind \in {"append", "log", "write", "status", "move"} -> ClaimOf(h[c].snap)
                  [] q.kind \in {"etag", "open"} -> h[c].held
                  [] OTHER -> NoClaim]

\* Mutant: release_note does not look at whose claim it removes.
RefusesNoRelease(q, o) ==
  \/ o = Absent /\ q.kind \notin {"log", "write"}
  \/ q.kind = "claim" /\ ClaimOf(o) \notin {NoClaim, q.who} /\ ~q.force

(* A call that ends on the object it read, without writing. *)
Refuses(q, o) ==
  \/ o = Absent /\ q.kind \notin {"log", "write"}
  \/ q.kind = "claim" /\ ClaimOf(o) \notin {NoClaim, q.who} /\ ~q.force
  \/ q.kind = "release" /\ ClaimOf(o) = NoClaim
  \/ q.kind = "release" /\ q.who # Anyone /\ ClaimOf(o) # q.who

Archives(c) == h[c].q.kind = "close" /\ Names[h[c].q.at] # <<>>

First(q) == CASE q.kind \in Filing -> "name"
              [] q.kind = "etag" -> "hold"
              [] q.kind \in {"delete", "put"} -> q.kind
              [] OTHER -> "read"

\* Mutant: the title of a filing call is taken for its path.
TargetTitle(q) == IF q.kind = "move" THEN q.to ELSE q.at

Target(q) == CASE q.kind \in Filing -> Absent
               [] q.kind = "move" -> q.to
               [] OTHER -> q.at

(* A handler at its first step: the call, the object its caller read, the  *)
(* attempts made and the names lost before.                                *)
Fresh(q, o, n, lost) ==
  [pc |-> First(q), q |-> q, snap |-> o, held |-> NoClaim, tgt |-> Target(q),
   out |-> Absent, tries |-> n, lost |-> lost]

Limit(q) == CASE q.kind \in {"claim", "release"} -> ClaimAttempts
              [] q.kind \in {"etag", "open"} -> 1
              [] OTHER -> Attempts

Goes(c, r) == h' = [h EXCEPT ![c] = r]
Returns(c) == Goes(c, Resting)

(* The loop of rewrite, close, backlog_add and claim_note: start over, or  *)
(* give up with VersionConflict.                                           *)
Retries(c, taken) ==
  IF h[c].tries + 1 < Limit(h[c].q)
  THEN Goes(c, Fresh(h[c].q, Absent, h[c].tries + 1, h[c].lost \cup taken))
  ELSE Returns(c)

(* Names a new note may take, and the one _free_key and free_key return. *)
FreeAt(k, taken) == {i \in DOMAIN Names[k] : Names[k][i] \notin taken}
FirstFree(k, taken) ==
  Names[k][CHOOSE i \in FreeAt(k, taken) : \A j \in FreeAt(k, taken) : i <= j]

Stamped(t) == [text |-> t, stamp |-> IF backend.digests THEN 0 ELSE writes + 1]
Stores(p, t) ==
  /\ store' = [store EXCEPT ![p] = Stamped(t)]
  /\ writes' = IF backend.digests THEN writes ELSE writes + 1
Removes(p) ==
  /\ store' = [store EXCEPT ![p] = Absent]
  /\ UNCHANGED writes

(* delete of a missing object: LocalBackend raises NotFound, S3 does not mind. *)
Raises(p) == backend.raises /\ store[p] = Absent

-----------------------------------------------------------------------------
(* A tool call arrives.  write_file with an etag comes from an agent that  *)
(* read the note earlier ("*" when there was none).                        *)
Begin(c) ==
  /\ h[c].pc = "idle" /\ calls[c] < MaxCalls
  /\ \E q \in Calls :
       Goes(c, Fresh(q, IF q.kind = "etag" THEN store[q.at] ELSE Absent, 0, {}))
  /\ calls' = [calls EXCEPT ![c] = @ + 1]
  /\ UNCHANGED <<backend, store, row, stale, lock, writes, acked, crashes>>

(* backend.get of the note, and the checks on what it holds. *)
Read(c) ==
  /\ h[c].pc = "read"
  /\ LET q == h[c].q
         o == store[q.at]
     IN \/ Refuses(q, o) /\ Returns(c)
        \/ ~Refuses(q, o) /\ Goes(c, [h[c] EXCEPT !.snap = o,
             !.pc = CASE Archives(c) -> "name"
                      [] q.kind = "move" -> IF backend.move = "reput" THEN "fetch" ELSE "move"
                      [] OTHER -> "check"])
  /\ UNCHANGED <<backend, store, row, stale, lock, writes, calls, acked, crashes>>

(* _free_key, free_key: the first name that the listing does not show and  *)
(* that was not lost to another writer.                                    *)
Name(c) ==
  /\ h[c].pc = "name"
  /\ LET q == h[c].q
         taken == {p \in Path : store[p] # Absent} \cup h[c].lost
     IN /\ FreeAt(q.at, taken) # {}
        /\ Goes(c, [h[c] EXCEPT !.tgt = FirstFree(q.at, taken),
                                !.pc = IF q.kind = "open" THEN "hold" ELSE "check"])
  /\ UNCHANGED <<backend, store, row, stale, lock, writes, calls, acked, crashes>>

(* _stored_claim: write_file with an etag reads the claim on its own. *)
Hold(c) ==
  /\ h[c].pc = "hold"
  /\ Goes(c, [h[c] EXCEPT !.held = ClaimOf(store[h[c].tgt]), !.pc = "check"])
  /\ UNCHANGED <<backend, store, row, stale, lock, writes, calls, acked, crashes>>

\* Mutant: the put is not conditional on the version read.
ExpectAnything(c) == store[h[c].tgt]

(* The version the put is conditional on: what was read when the note is   *)
(* written in place, MUST_NOT_EXIST under a new name.                      *)
Expected(c) == IF h[c].tgt = h[c].q.at THEN h[c].snap ELSE Absent

(* The put goes through, and the call's edit is as good as answered. *)
Commits(c) ==
  LET q == h[c].q
  IN /\ Stores(h[c].tgt, NewText(c))
     /\ acked' = (IF q.kind \in Replacing THEN acked \ LinesOf(h[c].snap) ELSE acked)
                 \cup (IF q.kind \in Adding THEN {Edit(c)} ELSE {})
     /\ Goes(c, [h[c] EXCEPT !.out = Stamped(NewText(c)),
                             !.pc = IF Archives(c) THEN "recheck" ELSE "index"])

(* Enters CHECKED_WRITES of c's process. *)
Locks(c) == lock[ProcOf[c]] = Free /\ lock' = [lock EXCEPT ![ProcOf[c]] = c]
\* Mutant: the write leaves CHECKED_WRITES locked.
KeepsLock(c) == UNCHANGED lock
Unlocks(c) == lock' = [lock EXCEPT ![ProcOf[c]] = Free]
CanCompare(c) == backend.atomic \/ lock[ProcOf[c]] = Free

(* put_checked compares the stored version: a conflict, the write itself   *)
(* where the store does both, or the lock held until the write.            *)
Conflict(c) ==
  /\ h[c].pc = "check" /\ CanCompare(c)
  /\ store[h[c].tgt] # Expected(c)
  /\ Retries(c, IF h[c].tgt = h[c].q.at THEN {} ELSE {h[c].tgt})
  /\ UNCHANGED <<backend, store, row, stale, lock, writes, calls, acked, crashes>>

PutIfMatch(c) ==
  /\ h[c].pc = "check" /\ backend.atomic
  /\ store[h[c].tgt] = Expected(c)
  /\ Commits(c)
  /\ UNCHANGED <<backend, row, stale, lock, calls, crashes>>

Check(c) ==
  /\ h[c].pc = "check" /\ ~backend.atomic
  /\ store[h[c].tgt] = Expected(c)
  /\ Locks(c)
  /\ Goes(c, [h[c] EXCEPT !.pc = "write"])
  /\ UNCHANGED <<backend, store, row, stale, writes, calls, acked, crashes>>

Write(c) ==
  /\ h[c].pc = "write"
  /\ Commits(c)
  /\ Unlocks(c)
  /\ UNCHANGED <<backend, row, stale, calls, crashes>>

(* close, once the archived copy is stored: delete_checked of the source   *)
(* at the version read.                                                    *)
SourceChanged(c) ==
  /\ h[c].pc = "recheck" /\ CanCompare(c)
  /\ store[h[c].q.at] # h[c].snap
  /\ Goes(c, [h[c] EXCEPT !.pc = "undo"])
  /\ UNCHANGED <<backend, store, row, stale, lock, writes, calls, acked, crashes>>

DeleteIfMatch(c) ==
  /\ h[c].pc = "recheck" /\ backend.atomic
  /\ store[h[c].q.at] = h[c].snap
  /\ Removes(h[c].q.at)
  /\ Goes(c, [h[c] EXCEPT !.pc = "index"])
  /\ UNCHANGED <<backend, row, stale, lock, calls, acked, crashes>>

Recheck(c) ==
  /\ h[c].pc = "recheck" /\ ~backend.atomic
  /\ store[h[c].q.at] = h[c].snap
  /\ Locks(c)
  /\ Goes(c, [h[c] EXCEPT !.pc = "unlink"])
  /\ UNCHANGED <<backend, store, row, stale, writes, calls, acked, crashes>>

Unlink(c) ==
  /\ h[c].pc = "unlink"
  /\ Unlocks(c)
  /\ Removes(h[c].q.at)
  /\ IF Raises(h[c].q.at) THEN Returns(c) ELSE Goes(c, [h[c] EXCEPT !.pc = "index"])
  /\ UNCHANGED <<backend, row, stale, calls, acked, crashes>>

\* Mutant: close tries again without deleting the copy it stored.
UndoNothing(c) ==
  /\ h[c].pc = "undo"
  /\ Retries(c, {})
  /\ UNCHANGED <<backend, store, row, stale, lock, writes, calls, acked, crashes>>

(* The source changed meanwhile: the copy is deleted, whatever it holds by *)
(* now, and the note is read again.                                        *)
Undo(c) ==
  /\ h[c].pc = "undo"
  /\ Removes(h[c].tgt)
  /\ IF Raises(h[c].tgt) THEN Returns(c) ELSE Retries(c, {})
  /\ UNCHANGED <<backend, row, stale, lock, calls, acked, crashes>>

-----------------------------------------------------------------------------
(* Requests that no version guards. *)

(* SealedBackend.move reads the source once more. *)
Fetch(c) ==
  /\ h[c].pc = "fetch"
  /\ IF store[h[c].q.at] = Absent THEN Returns(c)
     ELSE Goes(c, [h[c] EXCEPT !.snap = store[h[c].q.at], !.pc = "move"])
  /\ UNCHANGED <<backend, store, row, stale, lock, writes, calls, acked, crashes>>

(* The target is overwritten, so its own lines are meant to go. *)
Overwrites(p) == acked' = acked \ LinesOf(store[p])

Rename(c) ==
  /\ h[c].pc = "move" /\ backend.move = "rename"
  /\ LET o == store[h[c].q.at]
     IN IF o = Absent THEN Returns(c) /\ UNCHANGED <<store, acked>>
        ELSE /\ store' = [store EXCEPT ![h[c].tgt] = o, ![h[c].q.at] = Absent]
             /\ Overwrites(h[c].tgt)
             /\ Goes(c, [h[c] EXCEPT !.pc = "reread"])
  /\ UNCHANGED <<backend, row, stale, lock, writes, calls, crashes>>

(* S3's CopyObject copies what is there now, SealedBackend puts what it read. *)
CopyAcross(c) ==
  /\ h[c].pc = "move" /\ backend.move # "rename"
  /\ LET o == IF backend.move = "copy" THEN store[h[c].q.at] ELSE h[c].snap
     IN IF o = Absent THEN Returns(c) /\ UNCHANGED <<store, writes, acked>>
        ELSE /\ Stores(h[c].tgt, o.text)
             /\ Overwrites(h[c].tgt)
             /\ Goes(c, [h[c] EXCEPT !.pc = "drop"])
  /\ UNCHANGED <<backend, row, stale, lock, calls, crashes>>

DropSource(c) ==
  /\ h[c].pc = "drop"
  /\ Removes(h[c].q.at)
  /\ IF Raises(h[c].q.at) THEN Returns(c) ELSE Goes(c, [h[c] EXCEPT !.pc = "reread"])
  /\ UNCHANGED <<backend, row, stale, lock, calls, acked, crashes>>

(* notes.move reads what now stands at the target, to index it. *)
Reread(c) ==
  /\ h[c].pc = "reread"
  /\ IF store[h[c].tgt] = Absent THEN Returns(c)
     ELSE Goes(c, [h[c] EXCEPT !.out = store[h[c].tgt], !.pc = "index"])
  /\ UNCHANGED <<backend, store, row, stale, lock, writes, calls, acked, crashes>>

Delete(c) ==
  /\ h[c].pc = "delete"
  /\ Removes(h[c].q.at)
  /\ Overwrites(h[c].q.at)
  /\ IF Raises(h[c].q.at) THEN Returns(c) ELSE Goes(c, [h[c] EXCEPT !.pc = "index"])
  /\ UNCHANGED <<backend, row, stale, lock, calls, crashes>>

(* A WebDAV PUT without If-Match: the file becomes what the client sent,   *)
(* and the vault is marked stale instead of indexed.                       *)
Put(c) ==
  /\ h[c].pc = "put"
  /\ Stores(h[c].q.at, NewText(c))
  /\ acked' = (acked \ LinesOf(store[h[c].q.at])) \cup {Edit(c)}
  /\ Goes(c, [h[c] EXCEPT !.pc = "mark"])
  /\ UNCHANGED <<backend, row, stale, lock, calls, crashes>>

Mark(c) ==
  /\ h[c].pc = "mark"
  /\ stale' = [stale EXCEPT ![ProcOf[c]] = TRUE]
  /\ Returns(c)
  /\ UNCHANGED <<backend, store, row, lock, writes, calls, acked, crashes>>

-----------------------------------------------------------------------------
(* _reindex and index.remove, after the storage requests and apart from them. *)
Index(c) ==
  /\ h[c].pc = "index"
  /\ row' = [p \in Path |->
       IF p = h[c].tgt /\ h[c].out # Absent
       THEN [text |-> h[c].out.text, version |-> h[c].out]
       ELSE IF p \in {h[c].tgt, h[c].q.at} THEN Absent ELSE row[p]]
  /\ Returns(c)
  /\ UNCHANGED <<backend, store, stale, lock, writes, calls, acked, crashes>>

(* A process is killed: its handlers stop where they are, and its lock and *)
(* its flag go with it.                                                    *)
Crash(s) ==
  /\ crashes < MaxCrashes
  /\ h' = [c \in Client |-> IF ProcOf[c] = s THEN Resting ELSE h[c]]
  /\ lock' = [lock EXCEPT ![s] = Free]
  /\ stale' = [stale EXCEPT ![s] = FALSE]
  /\ crashes' = crashes + 1
  /\ UNCHANGED <<backend, store, row, writes, calls, acked>>

Continue(c) ==
  \/ Read(c) \/ Name(c) \/ Hold(c)
  \/ Conflict(c) \/ PutIfMatch(c) \/ Check(c) \/ Write(c)
  \/ SourceChanged(c) \/ DeleteIfMatch(c) \/ Recheck(c) \/ Unlink(c) \/ Undo(c)
  \/ Fetch(c) \/ Rename(c) \/ CopyAcross(c) \/ DropSource(c) \/ Reread(c)
  \/ Delete(c) \/ Put(c) \/ Mark(c) \/ Index(c)

Next ==
  \/ \E c \in Client : Begin(c) \/ Continue(c)
  \/ \E s \in Process : Crash(s)

Spec == Init /\ [][Next]_vars

(* A thread that runs a handler keeps running it. *)
FairSpec == Spec /\ \A c \in Client : WF_vars(Continue(c))

-----------------------------------------------------------------------------
(* A copy that close stored and has yet to keep or delete. *)
InFlight(p) == \E c \in Client : h[c].pc \in {"recheck", "unlink", "undo"} /\ h[c].tgt = p
Holding(l) == {p \in Path : l \in LinesOf(store[p]) /\ ~InFlight(p)}

(* No edit is lost: the line of every call that was answered with success  *)
(* is in some note, unless a later call discarded what it had read or was  *)
(* told to delete: rewrite, the conditional puts and close in notes.py.    *)
EditsLand == \A l \in acked : \E p \in Path : l \in LinesOf(store[p])

(* And it is in a note that stays, not only in a copy that a close may     *)
(* still take back.                                                        *)
AckedKept == \A l \in acked : Holding(l) # {}

(* No edit is doubled: unless a server was killed, an edit is in at most   *)
(* one note that stays, however close, backlog_add and their retries ran.  *)
OneCopy == crashes = 0 =>
  \A p1, p2 \in Path : ~InFlight(p1) /\ ~InFlight(p2) /\ p1 # p2
                         => LinesOf(store[p1]) \cap LinesOf(store[p2]) = {}

(* The handlers implement the book of NoteBook, in which a call is one     *)
(* step: a call takes effect with its conditional write or, for a close    *)
(* that archives, with the delete of its source; the copy it stored before *)
(* is not in the book yet.  notes.py promises as much where no move,       *)
(* delete or PUT, which take no version, runs.                             *)
Awaited(c) == IF h[c].pc \in {"idle", "index"} THEN Absent ELSE h[c].q

Book == INSTANCE NoteBook WITH
  book <- [p \in Path |-> IF store[p] = Absent \/ InFlight(p) THEN Absent ELSE store[p].text],
  pending <- [c \in Client |-> Awaited(c)],
  seen <- [c \in Client |->
    IF Awaited(c) # Absent /\ h[c].q.kind = "etag" /\ h[c].snap # Absent
    THEN h[c].snap.text ELSE Absent],
  made <- calls

InOneStep == Book!BookSpec

(* Where every write is guarded: the delete, move and PUT of a local folder *)
(* take no lock, and can land between the check and the write of another    *)
(* handler.                                                                 *)
Guarded == backend.atomic \/ \A q \in Calls : q.kind \notin {"move", "delete", "put"}

ClaimStep(c, p) ==
  LET q == h[c].q
      old == ClaimOf(store[p])
      new == ClaimOf(store'[p])
  IN \/ q.kind \in {"park", "close", "move", "delete", "put"}
     \/ q.kind \in {"etag", "open"} /\ store[p] = Absent
     \/ q.kind = "claim" /\ new = q.who /\ (q.force \/ old \in {NoClaim, q.who})
     \/ q.kind = "release" /\ new = NoClaim /\ q.who \in {Anyone, old}

(* A claim changes only by the commands that say so: a step of any other   *)
(* handler leaves every stored claim alone, a claim without force never    *)
(* replaces another machine's, and a release by name removes only its own  *)
(* (claim_note, release_note, _with_claim).  Where every write is guarded; *)
(* and a new note is excepted, whose claim write_file read under a name    *)
(* that may have been taken, claimed and freed again before it wrote.      *)
ClaimsByCommand ==
  [][\A p \in Path : ClaimOf(store'[p]) # ClaimOf(store[p]) /\ Guarded =>
       \E c \in Client : h'[c] # h[c] /\ ClaimStep(c, p)]_vars

(* The steps of c that may make the absent path p a note: of a call that   *)
(* read that there is none, of a filing or an archiving under a free name, *)
(* of a move at its target, of a PUT.                                      *)
Founds(c, p) ==
  LET q == h[c].q
  IN \/ q.kind \in {"log", "write", "etag"} /\ p = q.at /\ h[c].snap = Absent
     \/ q.kind \in Filing \cup {"close"} /\ p # q.at /\ p \in Listed(q.at)
     \/ q.kind = "move" /\ p = q.to
     \/ q.kind = "put" /\ p = q.at

ComesBack(p) ==
  /\ store[p] = Absent /\ store'[p] # Absent
  /\ ~\E c \in Client : h'[c] # h[c] /\ Founds(c, p)

(* A note deleted or archived under a handler that had read it is not      *)
(* brought back by that handler, where every write is guarded: the         *)
(* conditional puts of rewrite, write_file and close.                      *)
NothingRevived == [][\A p \in Path : Guarded => ~ComesBack(p)]_vars

(* The same of every backend and every mix of calls, as the docstring of   *)
(* rewrite has it: only over the version it read.                          *)
NothingComesBack == [][\A p \in Path : ~ComesBack(p)]_vars

(* Every call ends: no conflict makes a handler spin, and no handler waits *)
(* for CHECKED_WRITES for ever.                                            *)
CallsEnd == \A c \in Client : h[c].pc # "idle" ~> h[c].pc = "idle"

=============================================================================
