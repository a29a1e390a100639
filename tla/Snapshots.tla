----------------------------- MODULE Snapshots ------------------------------
(***************************************************************************)
(* The sealed copy of a vault's index that a server keeps in storage: when *)
(* one is queued, timed or skipped (snapshot_later, _snapshot, _restore and*)
(* close in vault.py), how it is stored against a deletion of the vault    *)
(* (IndexSnapshots in hosted_snapshots.py), and what is found after the    *)
(* server was killed.                                                      *)
(*                                                                         *)
(* One vault on one server.  The content of an index is the number of the  *)
(* last change that reached it, 0 is an empty index or no copy, and equal  *)
(* fingerprints are equal contents.  Of time the model has whether the     *)
(* interval since the last copy is over.                                   *)
(***************************************************************************)
EXTENDS Naturals

CONSTANTS
  MaxChanges,   \* bound: changes of the index
  MaxFailures,  \* bound: copies that storage refuses
  MaxKills      \* bound: times the server is killed

ASSUME SnapshotsAssumption == MaxChanges \in Nat /\ MaxFailures \in Nat /\ MaxKills \in Nat

VARIABLES
  changes,      \* changes so far
  content,      \* what the local index has
  file,         \* whether the index file is there
  opened,       \* whether the vault is in the table of open vaults
  indexed,      \* whether its index was opened since
  unsettled,    \* whether the last change has not been reported yet
  leaver,       \* who took the vault from the table and has yet to queue its copy
  queued,       \* _queued: a copy waits for the worker
  asked,        \* why it was queued: the vault is "used" or it "left"
  timer,        \* the vault's entry in _timers
  stray,        \* whether a timer that fired before it was cancelled is about to call
  recent,       \* whether the interval since _saved_at is still running
  savedPrint,   \* _saved_print
  job,          \* the copy the worker is at
  stored,       \* the copy in storage
  hasKey,       \* whether the vault's data key exists
  deletion,     \* where the deletion of the vault is
  server,       \* whether the server runs, is closing or is down
  failures, kills,
  late          \* whether a vault left only after the worker was shut down

indexVars == <<changes, content, file, opened, indexed, unsettled, leaver>>
queueVars == <<queued, asked, timer, stray>>
savedVars == <<recent, savedPrint, job>>
faultVars == <<failures, kills, late>>
snapshotVars == <<indexVars, queueVars, savedVars, stored, hasKey, deletion, server, faultVars>>

Idle == [pc |-> "idle", print |-> 0, copy |-> 0, why |-> "used"]

SnapshotsInit ==
  /\ changes = 0 /\ content = 0 /\ file = FALSE /\ opened = FALSE
  /\ indexed = FALSE /\ unsettled = FALSE
  /\ leaver = "none"
  /\ queued = FALSE /\ asked = "used" /\ timer = "none" /\ stray = FALSE
  /\ recent = FALSE /\ savedPrint = 0 /\ job = Idle
  /\ stored = 0 /\ hasKey = TRUE /\ deletion = "none" /\ server = "up"
  /\ failures = 0 /\ kills = 0 /\ late = FALSE

-----------------------------------------------------------------------------
(* _restore: a server without the index starts from the stored copy.  The  *)
(* copy it starts from counts as just saved.                               *)
OpenVault ==
  /\ ~opened /\ leaver = "none" /\ server = "up" /\ deletion = "none"
  /\ opened' = TRUE /\ indexed' = FALSE
  /\ IF ~file /\ stored # 0
       THEN file' = TRUE /\ content' = stored /\ savedPrint' = stored /\ recent' = TRUE
       ELSE UNCHANGED <<file, content, savedPrint, recent>>
  /\ UNCHANGED <<changes, unsettled, leaver, queueVars, job, stored, hasKey, deletion, server, faultVars>>

(* A search opens the index, which makes its file, and may find changes. *)
Search ==
  /\ opened /\ ~indexed
  /\ indexed' = TRUE /\ file' = TRUE
  /\ UNCHANGED <<changes, content, opened, unsettled, leaver, queueVars, savedVars, stored, hasKey, deletion,
                 server, faultVars>>

Change ==
  /\ opened /\ indexed /\ changes < MaxChanges
  /\ changes' = changes + 1 /\ content' = changes + 1 /\ unsettled' = TRUE
  /\ UNCHANGED <<file, opened, indexed, leaver, queueVars, savedVars, stored, hasKey, deletion, server, faultVars>>

-----------------------------------------------------------------------------
(* snapshot_later, all of it under its lock.                               *)

(* The timer goes, but one that has fired already calls all the same. *)
Cancelled == timer' = "none" /\ stray' = (stray \/ timer = "fired")

(* The worker refuses a copy after its shutdown. *)
Enqueue(why) ==
  /\ Cancelled
  /\ IF server = "down" THEN UNCHANGED <<queued, asked>> ELSE queued' = TRUE /\ asked' = why

\* Mutant: a copy that comes too soon after the last is not put off but dropped.
TimedNever == UNCHANGED timer

Timed == timer' = IF timer = "none" /\ server = "up" THEN "armed" ELSE timer

SnapshotLater(now, why) ==
  CASE queued -> UNCHANGED queueVars
    [] ~queued /\ ~now /\ recent -> Timed /\ UNCHANGED <<queued, asked, stray>>
    [] OTHER -> Enqueue(why)

(* The index reports that it has settled, unless it was closed meanwhile. *)
Settle ==
  /\ unsettled /\ opened
  /\ unsettled' = FALSE
  /\ SnapshotLater(FALSE, "used")
  /\ UNCHANGED <<changes, content, file, opened, indexed, leaver, savedVars, stored, hasKey, deletion, server,
                 faultVars>>

(* The interval is over: a timer set for that moment is due. *)
IntervalOver ==
  /\ recent /\ recent' = FALSE
  /\ timer' = IF timer = "armed" THEN "fired" ELSE timer
  /\ UNCHANGED <<indexVars, queued, asked, stray, savedPrint, job, stored, hasKey, deletion, server, faultVars>>

(* The timer's own call, or that of a stray one, which finds what it finds. *)
TimerCalls ==
  /\ timer = "fired"
  /\ IF queued THEN UNCHANGED queueVars
     ELSE /\ timer' = "none" /\ UNCHANGED stray
          /\ IF server = "down" THEN UNCHANGED <<queued, asked>> ELSE queued' = TRUE /\ asked' = "used"
  /\ UNCHANGED <<indexVars, savedVars, stored, hasKey, deletion, server, faultVars>>

StrayCalls ==
  /\ stray
  /\ IF queued THEN stray' = FALSE /\ UNCHANGED <<queued, asked, timer>>
     ELSE /\ timer' = "none" /\ stray' = (timer = "fired")
          /\ IF server = "down" THEN UNCHANGED <<queued, asked>> ELSE queued' = TRUE /\ asked' = "used"
  /\ UNCHANGED <<indexVars, savedVars, stored, hasKey, deletion, server, faultVars>>

-----------------------------------------------------------------------------
(* A vault leaves the table when it is idle or the server closes, is closed *)
(* and then copied at once.                                                *)

EvictIdle ==
  /\ opened /\ leaver = "none" /\ server = "up"
  /\ opened' = FALSE /\ unsettled' = FALSE
  /\ leaver' = IF indexed THEN "evict" ELSE "none"
  /\ UNCHANGED <<changes, content, file, indexed, queueVars, savedVars, stored, hasKey, deletion, server, faultVars>>

Leave(who) ==
  /\ leaver = who /\ leaver' = "none"
  /\ SnapshotLater(TRUE, "left")
  /\ late' = (late \/ server = "down")
  /\ UNCHANGED <<changes, content, file, opened, indexed, unsettled, savedVars, stored, hasKey, deletion, server,
                 failures, kills>>

(* close: the open vault leaves first, then the timers go, then the worker *)
(* ends what is queued.                                                    *)
CloseServer ==
  /\ server = "up" /\ server' = "closing"
  /\ opened' = FALSE /\ unsettled' = FALSE
  /\ leaver' = IF opened /\ indexed THEN "close" ELSE leaver
  /\ UNCHANGED <<changes, content, file, indexed, queueVars, savedVars, stored, hasKey, deletion, faultVars>>

ShutDown ==
  /\ server = "closing" /\ leaver # "close"
  /\ server' = "down" /\ Cancelled
  /\ UNCHANGED <<indexVars, queued, asked, savedVars, stored, hasKey, deletion, faultVars>>

-----------------------------------------------------------------------------
(* The worker: _snapshot and save.                                         *)

StartJob ==
  /\ queued /\ job.pc = "idle"
  /\ queued' = FALSE
  /\ job' = [Idle EXCEPT !.pc = "print", !.why = asked]
  /\ UNCHANGED <<indexVars, asked, timer, stray, recent, savedPrint, stored, hasKey, deletion, server, faultVars>>

(* Nothing is copied without a file, or when nothing changed since the last copy. *)
Fingerprint ==
  /\ job.pc = "print"
  /\ job' = IF file /\ content # savedPrint THEN [job EXCEPT !.pc = "key", !.print = content] ELSE Idle
  /\ UNCHANGED <<indexVars, queueVars, recent, savedPrint, stored, hasKey, deletion, server, faultVars>>

FindKey ==
  /\ job.pc = "key"
  /\ job' = IF hasKey /\ file THEN [job EXCEPT !.pc = "copy"] ELSE Idle
  /\ UNCHANGED <<indexVars, queueVars, recent, savedPrint, stored, hasKey, deletion, server, faultVars>>

(* The copy is of a moment, and the index may change after the fingerprint. *)
CopyIndex ==
  /\ job.pc = "copy"
  /\ job' = [job EXCEPT !.pc = "put", !.copy = content]
  /\ UNCHANGED <<indexVars, queueVars, recent, savedPrint, stored, hasKey, deletion, server, faultVars>>

PutCopy ==
  /\ job.pc = "put"
  /\ \/ stored' = job.copy /\ job' = [job EXCEPT !.pc = "check"] /\ UNCHANGED failures
     \/ failures < MaxFailures /\ failures' = failures + 1 /\ job' = Idle /\ UNCHANGED stored
  /\ UNCHANGED <<indexVars, queueVars, recent, savedPrint, hasKey, deletion, server, kills, late>>

\* Mutant: what the index has by now counts as stored.
SavedAsItIsNow == savedPrint' = content /\ recent' = TRUE /\ job' = Idle

Saved == savedPrint' = job.print /\ recent' = TRUE /\ job' = Idle

(* A vault deleted meanwhile: what was just stored goes again. *)
CheckKey ==
  /\ job.pc = "check"
  /\ IF hasKey THEN Saved /\ UNCHANGED stored
     ELSE stored' = 0 /\ job' = Idle /\ UNCHANGED <<savedPrint, recent>>
  /\ UNCHANGED <<indexVars, queueVars, hasKey, deletion, server, faultVars>>

-----------------------------------------------------------------------------
(* The vault is deleted: discarded, its key destroyed, the copy removed,   *)
(* the local index removed.                                                *)

DeleteVault ==
  /\ deletion = "none"
  /\ deletion' = "discarded" /\ opened' = FALSE /\ unsettled' = FALSE
  /\ UNCHANGED <<changes, content, file, indexed, leaver, queueVars, savedVars, stored, hasKey, server, faultVars>>

DestroyKey ==
  /\ deletion = "discarded"
  /\ deletion' = "shredded" /\ hasKey' = FALSE
  /\ UNCHANGED <<indexVars, queueVars, savedVars, stored, server, faultVars>>

EmptySnapshots ==
  /\ deletion = "shredded"
  /\ deletion' = "emptied" /\ stored' = 0
  /\ UNCHANGED <<indexVars, queueVars, savedVars, hasKey, server, faultVars>>

RemoveLocal ==
  /\ deletion = "emptied"
  /\ deletion' = "done" /\ file' = FALSE
  /\ UNCHANGED <<changes, content, opened, indexed, unsettled, leaver, queueVars, savedVars, stored, hasKey, server,
                 faultVars>>

(* The server is killed and another starts, with its folder or without it. *)
Killed ==
  /\ kills < MaxKills /\ kills' = kills + 1
  /\ opened' = FALSE /\ unsettled' = FALSE /\ leaver' = "none"
  /\ queued' = FALSE /\ timer' = "none" /\ stray' = FALSE
  /\ recent' = FALSE /\ savedPrint' = 0 /\ job' = Idle /\ server' = "up"
  /\ \/ UNCHANGED <<file, content>>
     \/ file' = FALSE /\ content' = 0
  /\ UNCHANGED <<changes, indexed, asked, stored, hasKey, deletion, failures, late>>

-----------------------------------------------------------------------------
Worker == StartJob \/ Fingerprint \/ FindKey \/ CopyIndex \/ PutCopy \/ CheckKey

SnapshotsNext ==
  \/ OpenVault \/ Search \/ Change \/ Settle \/ IntervalOver \/ TimerCalls \/ StrayCalls
  \/ EvictIdle \/ Leave("evict") \/ Leave("close") \/ CloseServer \/ ShutDown
  \/ StartJob \/ Fingerprint \/ FindKey \/ CopyIndex \/ PutCopy \/ CheckKey
  \/ DeleteVault \/ DestroyKey \/ EmptySnapshots \/ RemoveLocal
  \/ Killed

(* The worker, the clock and the timers run on, and what settled is told.  *)
SnapshotsFairness ==
  WF_snapshotVars(Worker) /\ WF_snapshotVars(Settle) /\ WF_snapshotVars(IntervalOver)
  /\ WF_snapshotVars(TimerCalls) /\ WF_snapshotVars(Leave("evict") \/ Leave("close"))

SnapshotsSpec == SnapshotsInit /\ [][SnapshotsNext]_snapshotVars /\ SnapshotsFairness

-----------------------------------------------------------------------------
SnapshotsTypeOK ==
  /\ changes \in Nat /\ content \in Nat /\ file \in BOOLEAN /\ opened \in BOOLEAN
  /\ indexed \in BOOLEAN /\ unsettled \in BOOLEAN
  /\ leaver \in {"none", "evict", "close"}
  /\ queued \in BOOLEAN /\ asked \in {"used", "left"} /\ timer \in {"none", "armed", "fired"}
  /\ stray \in BOOLEAN /\ recent \in BOOLEAN /\ savedPrint \in Nat
  /\ job \in [pc : {"idle", "print", "key", "copy", "put", "check"}, print : Nat, copy : Nat,
              why : {"used", "left"}]
  /\ stored \in Nat /\ hasKey \in BOOLEAN
  /\ deletion \in {"none", "discarded", "shredded", "emptied", "done"}
  /\ server \in {"up", "closing", "down"}
  /\ failures \in Nat /\ kills \in Nat /\ late \in BOOLEAN

(* A server that stopped in order leaves a copy of the index as it was at the end: what was skipped
   as unchanged, dropped because a copy was queued, or queued behind a running copy lost nothing. *)
SavedLast ==
  server = "down" /\ ~queued /\ job.pc = "idle" /\ leaver = "none" /\ deletion = "none"
    /\ failures = 0 /\ kills = 0 /\ ~late => stored = content

(* No copy of a deleted vault's index stays in storage, however the copy and the deletion interleave. *)
NoneLeftBehind == deletion = "done" /\ job.pc = "idle" /\ kills = 0 => stored = 0

(* An orderly stop leaves the last copy in storage, and a deletion none. *)
SnapshotsInv == SnapshotsTypeOK /\ SavedLast /\ NoneLeftBehind

(* What a vault in use has indexed is stored in the end, though the copies of an interval are one:
   no settling is forgotten between a running copy, a queued one and a timer. *)
SavedSoon ==
  \A c \in 1..MaxChanges :
    content = c /\ ~unsettled /\ opened ~> stored >= c \/ deletion # "none" \/ failures > 0 \/ kills > 0 \/ late
=============================================================================
