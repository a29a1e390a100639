--------------------------- MODULE StorageProofs ----------------------------
(* The theorems about what a server stores of a vault: its index's copies (Snapshots), what it knows of the *)
(* storage (ServerCaches) and the layouts that are put there (Layouts).                                     *)
EXTENDS Snapshots, ServerCaches, Layouts, SequenceTheorems, TLAPS

-----------------------------------------------------------------------------
(* The theorem about Snapshots: for any number of changes, failures and kills, an orderly stop leaves the last *)
(* copy in storage, and a deletion none.                                                                       *)

(* While nothing has failed, no server was killed and the vault is not deleted. *)
Undisturbed == deletion = "none" /\ failures = 0 /\ kills = 0 /\ ~late

(* The copies lag behind the index, and who takes one for the index's content is not mistaken. *)
Behind ==
  Undisturbed =>
    /\ savedPrint <= stored /\ stored <= content /\ (~file => content = 0)
    /\ job.pc \in {"key", "copy", "put", "check"} => file
    /\ job.pc \in {"key", "copy", "put", "check"} => job.print <= content
    /\ job.pc \in {"put", "check"} => job.print <= job.copy
    /\ job.pc = "put" => stored <= job.copy /\ job.copy <= content
    /\ job.pc = "check" => job.copy = stored

(* A content that is not stored is still to be copied: it is in use, about to leave, queued or at the worker. *)
StillToCopy ==
  Undisturbed =>
    \/ stored = content
    \/ opened /\ indexed /\ server = "up"
    \/ leaver # "none" \/ queued
    \/ job.pc \in {"print", "key", "copy"}
    \/ job.pc = "put" /\ job.copy = content

(* The key goes before the copies do, and what is put after them the worker looks at once more. *)
Deleting ==
  /\ hasKey <=> deletion \in {"none", "discarded"}
  /\ deletion \in {"emptied", "done"} /\ kills = 0 /\ stored # 0 => job.pc = "check"

Bounds ==
  /\ content <= changes /\ stored <= changes /\ job.copy <= changes
  /\ opened => deletion = "none" /\ server = "up" /\ (indexed => file)

SnapshotsIInv == SnapshotsTypeOK /\ Bounds /\ Behind /\ StillToCopy /\ Deleting
-----------------------------------------------------------------------------
Jobs == [pc : {"idle", "print", "key", "copy", "put", "check"}, print : Nat, copy : Nat, why : {"used", "left"}]

LEMMA IdleIsAJob == Idle \in Jobs /\ Idle.pc = "idle" /\ Idle.copy = 0
BY DEF Idle, Jobs

LEMMA SnapshotsInitHolds == SnapshotsInit => SnapshotsIInv
<1> SUFFICES ASSUME SnapshotsInit PROVE SnapshotsIInv
  OBVIOUS
<1>1. SnapshotsTypeOK
  BY IdleIsAJob DEF SnapshotsInit, SnapshotsTypeOK, Jobs
<1>2. Bounds /\ Behind /\ StillToCopy /\ Deleting
  BY IdleIsAJob DEF SnapshotsInit, Bounds, Behind, StillToCopy, Deleting, Undisturbed
<1>3. QED
  BY <1>1, <1>2 DEF SnapshotsIInv

(* Queueing disturbs nothing of the index, and leaves a copy queued where it is not put off. *)
LEMMA LaterQueues ==
  ASSUME SnapshotsTypeOK, NEW now \in BOOLEAN, NEW why \in {"used", "left"}, SnapshotLater(now, why)
  PROVE  /\ queued' \in BOOLEAN /\ asked' \in {"used", "left"} /\ timer' \in {"none", "armed", "fired"}
         /\ stray' \in BOOLEAN /\ (queued => queued') /\ (now /\ server # "down" => queued')
<1>1. CASE queued
  BY <1>1 DEF SnapshotsTypeOK, SnapshotLater, queueVars
<1>2. CASE ~queued /\ ~now /\ recent
  BY <1>2 DEF SnapshotsTypeOK, SnapshotLater, Timed
<1>3. CASE ~queued /\ (now \/ ~recent)
  <2>1. Enqueue(why)
    BY <1>3 DEF SnapshotLater
  <2>2. QED
    BY <1>3, <2>1 DEF SnapshotsTypeOK, Enqueue, Cancelled
<1>4. QED
  BY <1>1, <1>2, <1>3

LEMMA OpenVaultKeeps == SnapshotsIInv /\ OpenVault => SnapshotsIInv'
<1> SUFFICES ASSUME SnapshotsIInv, OpenVault PROVE SnapshotsIInv'
  OBVIOUS
<1>1. SnapshotsTypeOK'
  <2>1. /\ opened' \in BOOLEAN /\ indexed' \in BOOLEAN /\ file' \in BOOLEAN /\ content' \in Nat
        /\ savedPrint' \in Nat /\ recent' \in BOOLEAN
    BY DEF OpenVault, indexVars, queueVars, savedVars, faultVars, SnapshotsIInv, SnapshotsTypeOK
  <2>2. QED
    BY <2>1 DEF OpenVault, indexVars, queueVars, savedVars, faultVars, SnapshotsIInv, SnapshotsTypeOK
<1>2. Bounds'
  BY DEF OpenVault, indexVars, queueVars, savedVars, faultVars, SnapshotsIInv, SnapshotsTypeOK, Bounds
<1>3. Behind'
  BY DEF OpenVault, indexVars, queueVars, savedVars, faultVars, SnapshotsIInv, SnapshotsTypeOK, Bounds, Behind,
     Undisturbed,
     Deleting
<1>4. StillToCopy'
  BY DEF OpenVault, indexVars, queueVars, savedVars, faultVars, SnapshotsIInv, SnapshotsTypeOK, Bounds, Behind,
     StillToCopy,
     Undisturbed, Deleting
<1>5. Deleting'
  BY DEF OpenVault, indexVars, queueVars, savedVars, faultVars, SnapshotsIInv, SnapshotsTypeOK, Bounds, Deleting
<1>6. QED
  BY <1>1, <1>2, <1>3, <1>4, <1>5 DEF SnapshotsIInv

LEMMA SearchKeeps == SnapshotsIInv /\ Search => SnapshotsIInv'
<1> SUFFICES ASSUME SnapshotsIInv, Search PROVE SnapshotsIInv'
  OBVIOUS
<1>1. SnapshotsTypeOK'
  <2>1. indexed' \in BOOLEAN /\ file' \in BOOLEAN
    BY DEF Search, indexVars, queueVars, savedVars, faultVars, SnapshotsIInv, SnapshotsTypeOK
  <2>2. QED
    BY <2>1 DEF Search, indexVars, queueVars, savedVars, faultVars, SnapshotsIInv, SnapshotsTypeOK
<1>2. Bounds'
  BY DEF Search, indexVars, queueVars, savedVars, faultVars, SnapshotsIInv, SnapshotsTypeOK, Bounds
<1>3. Behind'
  BY DEF Search, indexVars, queueVars, savedVars, faultVars, SnapshotsIInv, SnapshotsTypeOK, Bounds, Behind,
     Undisturbed,
     Deleting
<1>4. StillToCopy'
  BY DEF Search, indexVars, queueVars, savedVars, faultVars, SnapshotsIInv, SnapshotsTypeOK, Bounds, Behind,
     StillToCopy,
     Undisturbed, Deleting
<1>5. Deleting'
  BY DEF Search, indexVars, queueVars, savedVars, faultVars, SnapshotsIInv, SnapshotsTypeOK, Bounds, Deleting
<1>6. QED
  BY <1>1, <1>2, <1>3, <1>4, <1>5 DEF SnapshotsIInv

LEMMA ChangeKeeps == SnapshotsIInv /\ Change => SnapshotsIInv'
<1> SUFFICES ASSUME SnapshotsIInv, Change PROVE SnapshotsIInv'
  OBVIOUS
<1>1. SnapshotsTypeOK'
  <2>1. changes' \in Nat /\ content' \in Nat /\ unsettled' \in BOOLEAN
    BY DEF Change, indexVars, queueVars, savedVars, faultVars, SnapshotsIInv, SnapshotsTypeOK
  <2>2. QED
    BY <2>1 DEF Change, indexVars, queueVars, savedVars, faultVars, SnapshotsIInv, SnapshotsTypeOK
<1>2. Bounds'
  BY DEF Change, indexVars, queueVars, savedVars, faultVars, SnapshotsIInv, SnapshotsTypeOK, Bounds
<1>3. Behind'
  BY DEF Change, indexVars, queueVars, savedVars, faultVars, SnapshotsIInv, SnapshotsTypeOK, Bounds, Behind,
     Undisturbed,
     Deleting
<1>4. StillToCopy'
  BY DEF Change, indexVars, queueVars, savedVars, faultVars, SnapshotsIInv, SnapshotsTypeOK, Bounds, Behind,
     StillToCopy,
     Undisturbed, Deleting
<1>5. Deleting'
  BY DEF Change, indexVars, queueVars, savedVars, faultVars, SnapshotsIInv, SnapshotsTypeOK, Bounds, Deleting
<1>6. QED
  BY <1>1, <1>2, <1>3, <1>4, <1>5 DEF SnapshotsIInv

LEMMA SettleKeeps == SnapshotsIInv /\ Settle => SnapshotsIInv'
<1> SUFFICES ASSUME SnapshotsIInv, Settle PROVE SnapshotsIInv'
  OBVIOUS
<1>1. SnapshotsTypeOK'
  <2>1. /\ unsettled' \in BOOLEAN /\ queued' \in BOOLEAN /\ asked' \in {"used", "left"}
        /\ timer' \in {"none", "armed", "fired"} /\ stray' \in BOOLEAN
    BY LaterQueues DEF Settle, indexVars, queueVars, savedVars, faultVars, SnapshotsIInv, SnapshotsTypeOK
  <2>2. QED
    BY <2>1 DEF Settle, indexVars, queueVars, savedVars, faultVars, SnapshotsIInv, SnapshotsTypeOK
<1>2. Bounds'
  BY DEF Settle, indexVars, queueVars, savedVars, faultVars, SnapshotsIInv, SnapshotsTypeOK, Bounds
<1>3. Behind'
  BY DEF Settle, indexVars, queueVars, savedVars, faultVars, SnapshotsIInv, SnapshotsTypeOK, Bounds, Behind,
     Undisturbed,
     Deleting
<1>4. StillToCopy'
  BY LaterQueues DEF Settle, indexVars, queueVars, savedVars, faultVars, SnapshotsIInv, SnapshotsTypeOK, Bounds,
     Behind,
     StillToCopy, Undisturbed, Deleting
<1>5. Deleting'
  BY DEF Settle, indexVars, queueVars, savedVars, faultVars, SnapshotsIInv, SnapshotsTypeOK, Bounds, Deleting
<1>6. QED
  BY <1>1, <1>2, <1>3, <1>4, <1>5 DEF SnapshotsIInv

LEMMA IntervalOverKeeps == SnapshotsIInv /\ IntervalOver => SnapshotsIInv'
<1> SUFFICES ASSUME SnapshotsIInv, IntervalOver PROVE SnapshotsIInv'
  OBVIOUS
<1>1. SnapshotsTypeOK'
  <2>1. recent' \in BOOLEAN /\ timer' \in {"none", "armed", "fired"}
    BY DEF IntervalOver, indexVars, queueVars, savedVars, faultVars, SnapshotsIInv, SnapshotsTypeOK
  <2>2. QED
    BY <2>1 DEF IntervalOver, indexVars, queueVars, savedVars, faultVars, SnapshotsIInv, SnapshotsTypeOK
<1>2. Bounds'
  BY DEF IntervalOver, indexVars, queueVars, savedVars, faultVars, SnapshotsIInv, SnapshotsTypeOK, Bounds
<1>3. Behind'
  BY DEF IntervalOver, indexVars, queueVars, savedVars, faultVars, SnapshotsIInv, SnapshotsTypeOK, Bounds, Behind,
     Undisturbed, Deleting
<1>4. StillToCopy'
  BY DEF IntervalOver, indexVars, queueVars, savedVars, faultVars, SnapshotsIInv, SnapshotsTypeOK, Bounds, Behind,
     StillToCopy, Undisturbed, Deleting
<1>5. Deleting'
  BY DEF IntervalOver, indexVars, queueVars, savedVars, faultVars, SnapshotsIInv, SnapshotsTypeOK, Bounds, Deleting
<1>6. QED
  BY <1>1, <1>2, <1>3, <1>4, <1>5 DEF SnapshotsIInv

LEMMA TimerCallsKeeps == SnapshotsIInv /\ TimerCalls => SnapshotsIInv'
<1> SUFFICES ASSUME SnapshotsIInv, TimerCalls PROVE SnapshotsIInv'
  OBVIOUS
<1>1. SnapshotsTypeOK'
  <2>1. /\ timer' \in {"none", "armed", "fired"} /\ stray' \in BOOLEAN /\ queued' \in BOOLEAN
        /\ asked' \in {"used", "left"}
    BY DEF TimerCalls, indexVars, queueVars, savedVars, faultVars, SnapshotsIInv, SnapshotsTypeOK
  <2>2. QED
    BY <2>1 DEF TimerCalls, indexVars, queueVars, savedVars, faultVars, SnapshotsIInv, SnapshotsTypeOK
<1>2. Bounds'
  BY DEF TimerCalls, indexVars, queueVars, savedVars, faultVars, SnapshotsIInv, SnapshotsTypeOK, Bounds
<1>3. Behind'
  BY DEF TimerCalls, indexVars, queueVars, savedVars, faultVars, SnapshotsIInv, SnapshotsTypeOK, Bounds, Behind,
     Undisturbed, Deleting
<1>4. StillToCopy'
  BY DEF TimerCalls, indexVars, queueVars, savedVars, faultVars, SnapshotsIInv, SnapshotsTypeOK, Bounds, Behind,
     StillToCopy, Undisturbed, Deleting
<1>5. Deleting'
  BY DEF TimerCalls, indexVars, queueVars, savedVars, faultVars, SnapshotsIInv, SnapshotsTypeOK, Bounds, Deleting
<1>6. QED
  BY <1>1, <1>2, <1>3, <1>4, <1>5 DEF SnapshotsIInv

LEMMA StrayCallsKeeps == SnapshotsIInv /\ StrayCalls => SnapshotsIInv'
<1> SUFFICES ASSUME SnapshotsIInv, StrayCalls PROVE SnapshotsIInv'
  OBVIOUS
<1>1. SnapshotsTypeOK'
  <2>1. /\ timer' \in {"none", "armed", "fired"} /\ stray' \in BOOLEAN /\ queued' \in BOOLEAN
        /\ asked' \in {"used", "left"}
    BY DEF StrayCalls, indexVars, queueVars, savedVars, faultVars, SnapshotsIInv, SnapshotsTypeOK
  <2>2. QED
    BY <2>1 DEF StrayCalls, indexVars, queueVars, savedVars, faultVars, SnapshotsIInv, SnapshotsTypeOK
<1>2. Bounds'
  BY DEF StrayCalls, indexVars, queueVars, savedVars, faultVars, SnapshotsIInv, SnapshotsTypeOK, Bounds
<1>3. Behind'
  BY DEF StrayCalls, indexVars, queueVars, savedVars, faultVars, SnapshotsIInv, SnapshotsTypeOK, Bounds, Behind,
     Undisturbed, Deleting
<1>4. StillToCopy'
  BY DEF StrayCalls, indexVars, queueVars, savedVars, faultVars, SnapshotsIInv, SnapshotsTypeOK, Bounds, Behind,
     StillToCopy, Undisturbed, Deleting
<1>5. Deleting'
  BY DEF StrayCalls, indexVars, queueVars, savedVars, faultVars, SnapshotsIInv, SnapshotsTypeOK, Bounds, Deleting
<1>6. QED
  BY <1>1, <1>2, <1>3, <1>4, <1>5 DEF SnapshotsIInv

LEMMA EvictIdleKeeps == SnapshotsIInv /\ EvictIdle => SnapshotsIInv'
<1> SUFFICES ASSUME SnapshotsIInv, EvictIdle PROVE SnapshotsIInv'
  OBVIOUS
<1>1. SnapshotsTypeOK'
  <2>1. opened' \in BOOLEAN /\ unsettled' \in BOOLEAN /\ leaver' \in {"none", "evict", "close"}
    BY DEF EvictIdle, indexVars, queueVars, savedVars, faultVars, SnapshotsIInv, SnapshotsTypeOK
  <2>2. QED
    BY <2>1 DEF EvictIdle, indexVars, queueVars, savedVars, faultVars, SnapshotsIInv, SnapshotsTypeOK
<1>2. Bounds'
  BY DEF EvictIdle, indexVars, queueVars, savedVars, faultVars, SnapshotsIInv, SnapshotsTypeOK, Bounds
<1>3. Behind'
  BY DEF EvictIdle, indexVars, queueVars, savedVars, faultVars, SnapshotsIInv, SnapshotsTypeOK, Bounds, Behind,
     Undisturbed,
     Deleting
<1>4. StillToCopy'
  BY DEF EvictIdle, indexVars, queueVars, savedVars, faultVars, SnapshotsIInv, SnapshotsTypeOK, Bounds, Behind,
     StillToCopy,
     Undisturbed, Deleting
<1>5. Deleting'
  BY DEF EvictIdle, indexVars, queueVars, savedVars, faultVars, SnapshotsIInv, SnapshotsTypeOK, Bounds, Deleting
<1>6. QED
  BY <1>1, <1>2, <1>3, <1>4, <1>5 DEF SnapshotsIInv

LEMMA CloseServerKeeps == SnapshotsIInv /\ CloseServer => SnapshotsIInv'
<1> SUFFICES ASSUME SnapshotsIInv, CloseServer PROVE SnapshotsIInv'
  OBVIOUS
<1>1. SnapshotsTypeOK'
  <2>1. /\ server' \in {"up", "closing", "down"} /\ opened' \in BOOLEAN /\ unsettled' \in BOOLEAN
        /\ leaver' \in {"none", "evict", "close"}
    BY DEF CloseServer, indexVars, queueVars, savedVars, faultVars, SnapshotsIInv, SnapshotsTypeOK
  <2>2. QED
    BY <2>1 DEF CloseServer, indexVars, queueVars, savedVars, faultVars, SnapshotsIInv, SnapshotsTypeOK
<1>2. Bounds'
  BY DEF CloseServer, indexVars, queueVars, savedVars, faultVars, SnapshotsIInv, SnapshotsTypeOK, Bounds
<1>3. Behind'
  BY DEF CloseServer, indexVars, queueVars, savedVars, faultVars, SnapshotsIInv, SnapshotsTypeOK, Bounds, Behind,
     Undisturbed, Deleting
<1>4. StillToCopy'
  BY DEF CloseServer, indexVars, queueVars, savedVars, faultVars, SnapshotsIInv, SnapshotsTypeOK, Bounds, Behind,
     StillToCopy, Undisturbed, Deleting
<1>5. Deleting'
  BY DEF CloseServer, indexVars, queueVars, savedVars, faultVars, SnapshotsIInv, SnapshotsTypeOK, Bounds, Deleting
<1>6. QED
  BY <1>1, <1>2, <1>3, <1>4, <1>5 DEF SnapshotsIInv

LEMMA ShutDownKeeps == SnapshotsIInv /\ ShutDown => SnapshotsIInv'
<1> SUFFICES ASSUME SnapshotsIInv, ShutDown PROVE SnapshotsIInv'
  OBVIOUS
<1>1. SnapshotsTypeOK'
  <2>1. /\ server' \in {"up", "closing", "down"} /\ timer' \in {"none", "armed", "fired"}
        /\ stray' \in BOOLEAN
    BY DEF ShutDown, Cancelled, indexVars, queueVars, savedVars, faultVars, SnapshotsIInv, SnapshotsTypeOK
  <2>2. QED
    BY <2>1 DEF ShutDown, Cancelled, indexVars, queueVars, savedVars, faultVars, SnapshotsIInv, SnapshotsTypeOK
<1>2. Bounds'
  BY DEF ShutDown, Cancelled, indexVars, queueVars, savedVars, faultVars, SnapshotsIInv, SnapshotsTypeOK, Bounds
<1>3. Behind'
  BY DEF ShutDown, Cancelled, indexVars, queueVars, savedVars, faultVars, SnapshotsIInv, SnapshotsTypeOK, Bounds,
     Behind,
     Undisturbed, Deleting
<1>4. StillToCopy'
  BY DEF ShutDown, Cancelled, indexVars, queueVars, savedVars, faultVars, SnapshotsIInv, SnapshotsTypeOK, Bounds,
     Behind,
     StillToCopy, Undisturbed, Deleting
<1>5. Deleting'
  BY DEF ShutDown, Cancelled, indexVars, queueVars, savedVars, faultVars, SnapshotsIInv, SnapshotsTypeOK, Bounds,
     Deleting
<1>6. QED
  BY <1>1, <1>2, <1>3, <1>4, <1>5 DEF SnapshotsIInv

LEMMA StartJobKeeps == SnapshotsIInv /\ StartJob => SnapshotsIInv'
<1> SUFFICES ASSUME SnapshotsIInv, StartJob PROVE SnapshotsIInv'
  OBVIOUS
<1>1. SnapshotsTypeOK'
  <2>1. queued' \in BOOLEAN /\ job' \in Jobs
    BY IdleIsAJob DEF StartJob, Idle, indexVars, queueVars, savedVars, faultVars, SnapshotsIInv, SnapshotsTypeOK,
       Jobs
  <2>2. QED
    BY <2>1 DEF StartJob, Idle, indexVars, queueVars, savedVars, faultVars, SnapshotsIInv, SnapshotsTypeOK, Jobs
<1>2. Bounds'
  BY DEF StartJob, Idle, indexVars, queueVars, savedVars, faultVars, SnapshotsIInv, SnapshotsTypeOK, Bounds
<1>3. Behind'
  BY DEF StartJob, Idle, indexVars, queueVars, savedVars, faultVars, SnapshotsIInv, SnapshotsTypeOK, Bounds, Behind,
     Undisturbed, Deleting
<1>4. StillToCopy'
  BY IdleIsAJob DEF StartJob, Idle, indexVars, queueVars, savedVars, faultVars, SnapshotsIInv, SnapshotsTypeOK,
     Bounds,
     Behind, StillToCopy, Undisturbed, Deleting
<1>5. Deleting'
  BY DEF StartJob, Idle, indexVars, queueVars, savedVars, faultVars, SnapshotsIInv, SnapshotsTypeOK, Bounds,
     Deleting
<1>6. QED
  BY <1>1, <1>2, <1>3, <1>4, <1>5 DEF SnapshotsIInv

LEMMA FingerprintKeeps == SnapshotsIInv /\ Fingerprint => SnapshotsIInv'
<1> SUFFICES ASSUME SnapshotsIInv, Fingerprint PROVE SnapshotsIInv'
  OBVIOUS
<1>1. SnapshotsTypeOK'
  <2>1. job' \in Jobs
    BY IdleIsAJob DEF Fingerprint, Idle, indexVars, queueVars, savedVars, faultVars, SnapshotsIInv,
       SnapshotsTypeOK, Jobs
  <2>2. QED
    BY <2>1 DEF Fingerprint, Idle, indexVars, queueVars, savedVars, faultVars, SnapshotsIInv, SnapshotsTypeOK, Jobs
<1>2. Bounds'
  BY DEF Fingerprint, Idle, indexVars, queueVars, savedVars, faultVars, SnapshotsIInv, SnapshotsTypeOK, Bounds
<1>3. Behind'
  BY DEF Fingerprint, Idle, indexVars, queueVars, savedVars, faultVars, SnapshotsIInv, SnapshotsTypeOK, Bounds,
     Behind,
     Undisturbed, Deleting
<1>4. StillToCopy'
  BY IdleIsAJob DEF Fingerprint, Idle, indexVars, queueVars, savedVars, faultVars, SnapshotsIInv, SnapshotsTypeOK,
     Bounds,
     Behind, StillToCopy, Undisturbed, Deleting
<1>5. Deleting'
  BY DEF Fingerprint, Idle, indexVars, queueVars, savedVars, faultVars, SnapshotsIInv, SnapshotsTypeOK, Bounds,
     Deleting
<1>6. QED
  BY <1>1, <1>2, <1>3, <1>4, <1>5 DEF SnapshotsIInv

LEMMA FindKeyKeeps == SnapshotsIInv /\ FindKey => SnapshotsIInv'
<1> SUFFICES ASSUME SnapshotsIInv, FindKey PROVE SnapshotsIInv'
  OBVIOUS
<1>1. SnapshotsTypeOK'
  <2>1. job' \in Jobs
    BY IdleIsAJob DEF FindKey, Idle, indexVars, queueVars, savedVars, faultVars, SnapshotsIInv, SnapshotsTypeOK,
       Jobs
  <2>2. QED
    BY <2>1 DEF FindKey, Idle, indexVars, queueVars, savedVars, faultVars, SnapshotsIInv, SnapshotsTypeOK, Jobs
<1>2. Bounds'
  BY DEF FindKey, Idle, indexVars, queueVars, savedVars, faultVars, SnapshotsIInv, SnapshotsTypeOK, Bounds
<1>3. Behind'
  BY DEF FindKey, Idle, indexVars, queueVars, savedVars, faultVars, SnapshotsIInv, SnapshotsTypeOK, Bounds, Behind,
     Undisturbed, Deleting
<1>4. StillToCopy'
  BY IdleIsAJob DEF FindKey, Idle, indexVars, queueVars, savedVars, faultVars, SnapshotsIInv, SnapshotsTypeOK,
     Bounds,
     Behind, StillToCopy, Undisturbed, Deleting
<1>5. Deleting'
  BY DEF FindKey, Idle, indexVars, queueVars, savedVars, faultVars, SnapshotsIInv, SnapshotsTypeOK, Bounds, Deleting
<1>6. QED
  BY <1>1, <1>2, <1>3, <1>4, <1>5 DEF SnapshotsIInv

LEMMA CopyIndexKeeps == SnapshotsIInv /\ CopyIndex => SnapshotsIInv'
<1> SUFFICES ASSUME SnapshotsIInv, CopyIndex PROVE SnapshotsIInv'
  OBVIOUS
<1>1. SnapshotsTypeOK'
  <2>1. job' \in Jobs
    BY DEF CopyIndex, indexVars, queueVars, savedVars, faultVars, SnapshotsIInv, SnapshotsTypeOK, Jobs
  <2>2. QED
    BY <2>1 DEF CopyIndex, indexVars, queueVars, savedVars, faultVars, SnapshotsIInv, SnapshotsTypeOK, Jobs
<1>2. Bounds'
  BY DEF CopyIndex, indexVars, queueVars, savedVars, faultVars, SnapshotsIInv, SnapshotsTypeOK, Bounds
<1>3. Behind'
  BY DEF CopyIndex, indexVars, queueVars, savedVars, faultVars, SnapshotsIInv, SnapshotsTypeOK, Bounds, Behind,
     Undisturbed,
     Deleting
<1>4. StillToCopy'
  BY DEF CopyIndex, indexVars, queueVars, savedVars, faultVars, SnapshotsIInv, SnapshotsTypeOK, Bounds, Behind,
     StillToCopy,
     Undisturbed, Deleting
<1>5. Deleting'
  BY DEF CopyIndex, indexVars, queueVars, savedVars, faultVars, SnapshotsIInv, SnapshotsTypeOK, Bounds, Deleting
<1>6. QED
  BY <1>1, <1>2, <1>3, <1>4, <1>5 DEF SnapshotsIInv

LEMMA PutCopyKeeps == SnapshotsIInv /\ PutCopy => SnapshotsIInv'
<1> SUFFICES ASSUME SnapshotsIInv, PutCopy PROVE SnapshotsIInv'
  OBVIOUS
<1>1. SnapshotsTypeOK'
  <2>1. stored' \in Nat /\ job' \in Jobs /\ failures' \in Nat
    BY IdleIsAJob DEF PutCopy, Idle, indexVars, queueVars, savedVars, faultVars, SnapshotsIInv, SnapshotsTypeOK,
       Jobs
  <2>2. QED
    BY <2>1 DEF PutCopy, Idle, indexVars, queueVars, savedVars, faultVars, SnapshotsIInv, SnapshotsTypeOK, Jobs
<1>2. Bounds'
  BY DEF PutCopy, Idle, indexVars, queueVars, savedVars, faultVars, SnapshotsIInv, SnapshotsTypeOK, Bounds
<1>3. Behind'
  BY DEF PutCopy, Idle, indexVars, queueVars, savedVars, faultVars, SnapshotsIInv, SnapshotsTypeOK, Bounds, Behind,
     Undisturbed, Deleting
<1>4. StillToCopy'
  BY IdleIsAJob DEF PutCopy, Idle, indexVars, queueVars, savedVars, faultVars, SnapshotsIInv, SnapshotsTypeOK,
     Bounds,
     Behind, StillToCopy, Undisturbed, Deleting
<1>5. Deleting'
  BY DEF PutCopy, Idle, indexVars, queueVars, savedVars, faultVars, SnapshotsIInv, SnapshotsTypeOK, Bounds, Deleting
<1>6. QED
  BY <1>1, <1>2, <1>3, <1>4, <1>5 DEF SnapshotsIInv

LEMMA CheckKeyKeeps == SnapshotsIInv /\ CheckKey => SnapshotsIInv'
<1> SUFFICES ASSUME SnapshotsIInv, CheckKey PROVE SnapshotsIInv'
  OBVIOUS
<1>1. SnapshotsTypeOK'
  <2>1. job \in Jobs /\ stored \in Nat /\ savedPrint \in Nat /\ recent \in BOOLEAN
    BY DEF SnapshotsIInv, SnapshotsTypeOK, Jobs
  <2>2. stored' \in Nat /\ job' \in Jobs /\ savedPrint' \in Nat /\ recent' \in BOOLEAN
    <3>1. CASE hasKey
      BY <2>1, <3>1, IdleIsAJob DEF CheckKey, Saved, Jobs
    <3>2. CASE ~hasKey
      BY <2>1, <3>2, IdleIsAJob DEF CheckKey
    <3>3. QED
      BY <3>1, <3>2
  <2>3. QED
    BY <2>2 DEF CheckKey, indexVars, queueVars, savedVars, faultVars, SnapshotsIInv, SnapshotsTypeOK, Jobs
<1>2. Bounds'
  BY DEF CheckKey, Saved, Idle, indexVars, queueVars, savedVars, faultVars, SnapshotsIInv, SnapshotsTypeOK, Bounds
<1>3. Behind'
  BY DEF CheckKey, Saved, Idle, indexVars, queueVars, savedVars, faultVars, SnapshotsIInv, SnapshotsTypeOK, Bounds,
     Behind,
     Undisturbed, Deleting
<1>4. StillToCopy'
  BY IdleIsAJob DEF CheckKey, Saved, Idle, indexVars, queueVars, savedVars, faultVars, SnapshotsIInv,
     SnapshotsTypeOK,
     Bounds, Behind, StillToCopy, Undisturbed, Deleting
<1>5. Deleting'
  BY DEF CheckKey, Saved, Idle, indexVars, queueVars, savedVars, faultVars, SnapshotsIInv, SnapshotsTypeOK, Bounds,
     Deleting
<1>6. QED
  BY <1>1, <1>2, <1>3, <1>4, <1>5 DEF SnapshotsIInv

LEMMA DeleteVaultKeeps == SnapshotsIInv /\ DeleteVault => SnapshotsIInv'
<1> SUFFICES ASSUME SnapshotsIInv, DeleteVault PROVE SnapshotsIInv'
  OBVIOUS
<1>1. SnapshotsTypeOK'
  <2>1. /\ deletion' \in {"none", "discarded", "shredded", "emptied", "done"} /\ opened' \in BOOLEAN
        /\ unsettled' \in BOOLEAN
    BY DEF DeleteVault, indexVars, queueVars, savedVars, faultVars, SnapshotsIInv, SnapshotsTypeOK
  <2>2. QED
    BY <2>1 DEF DeleteVault, indexVars, queueVars, savedVars, faultVars, SnapshotsIInv, SnapshotsTypeOK
<1>2. Bounds'
  BY DEF DeleteVault, indexVars, queueVars, savedVars, faultVars, SnapshotsIInv, SnapshotsTypeOK, Bounds
<1>3. Behind'
  BY DEF DeleteVault, indexVars, queueVars, savedVars, faultVars, SnapshotsIInv, SnapshotsTypeOK, Bounds, Behind,
     Undisturbed, Deleting
<1>4. StillToCopy'
  BY DEF DeleteVault, indexVars, queueVars, savedVars, faultVars, SnapshotsIInv, SnapshotsTypeOK, Bounds, Behind,
     StillToCopy, Undisturbed, Deleting
<1>5. Deleting'
  BY DEF DeleteVault, indexVars, queueVars, savedVars, faultVars, SnapshotsIInv, SnapshotsTypeOK, Bounds, Deleting
<1>6. QED
  BY <1>1, <1>2, <1>3, <1>4, <1>5 DEF SnapshotsIInv

LEMMA DestroyKeyKeeps == SnapshotsIInv /\ DestroyKey => SnapshotsIInv'
<1> SUFFICES ASSUME SnapshotsIInv, DestroyKey PROVE SnapshotsIInv'
  OBVIOUS
<1>1. SnapshotsTypeOK'
  <2>1. deletion' \in {"none", "discarded", "shredded", "emptied", "done"} /\ hasKey' \in BOOLEAN
    BY DEF DestroyKey, indexVars, queueVars, savedVars, faultVars, SnapshotsIInv, SnapshotsTypeOK
  <2>2. QED
    BY <2>1 DEF DestroyKey, indexVars, queueVars, savedVars, faultVars, SnapshotsIInv, SnapshotsTypeOK
<1>2. Bounds'
  BY DEF DestroyKey, indexVars, queueVars, savedVars, faultVars, SnapshotsIInv, SnapshotsTypeOK, Bounds
<1>3. Behind'
  BY DEF DestroyKey, indexVars, queueVars, savedVars, faultVars, SnapshotsIInv, SnapshotsTypeOK, Bounds, Behind,
     Undisturbed, Deleting
<1>4. StillToCopy'
  BY DEF DestroyKey, indexVars, queueVars, savedVars, faultVars, SnapshotsIInv, SnapshotsTypeOK, Bounds, Behind,
     StillToCopy, Undisturbed, Deleting
<1>5. Deleting'
  BY DEF DestroyKey, indexVars, queueVars, savedVars, faultVars, SnapshotsIInv, SnapshotsTypeOK, Bounds, Deleting
<1>6. QED
  BY <1>1, <1>2, <1>3, <1>4, <1>5 DEF SnapshotsIInv

LEMMA EmptySnapshotsKeeps == SnapshotsIInv /\ EmptySnapshots => SnapshotsIInv'
<1> SUFFICES ASSUME SnapshotsIInv, EmptySnapshots PROVE SnapshotsIInv'
  OBVIOUS
<1>1. SnapshotsTypeOK'
  <2>1. deletion' \in {"none", "discarded", "shredded", "emptied", "done"} /\ stored' \in Nat
    BY DEF EmptySnapshots, indexVars, queueVars, savedVars, faultVars, SnapshotsIInv, SnapshotsTypeOK
  <2>2. QED
    BY <2>1 DEF EmptySnapshots, indexVars, queueVars, savedVars, faultVars, SnapshotsIInv, SnapshotsTypeOK
<1>2. Bounds'
  BY DEF EmptySnapshots, indexVars, queueVars, savedVars, faultVars, SnapshotsIInv, SnapshotsTypeOK, Bounds
<1>3. Behind'
  BY DEF EmptySnapshots, indexVars, queueVars, savedVars, faultVars, SnapshotsIInv, SnapshotsTypeOK, Bounds, Behind,
     Undisturbed, Deleting
<1>4. StillToCopy'
  BY DEF EmptySnapshots, indexVars, queueVars, savedVars, faultVars, SnapshotsIInv, SnapshotsTypeOK, Bounds, Behind,
     StillToCopy, Undisturbed, Deleting
<1>5. Deleting'
  BY DEF EmptySnapshots, indexVars, queueVars, savedVars, faultVars, SnapshotsIInv, SnapshotsTypeOK, Bounds,
     Deleting
<1>6. QED
  BY <1>1, <1>2, <1>3, <1>4, <1>5 DEF SnapshotsIInv

LEMMA RemoveLocalKeeps == SnapshotsIInv /\ RemoveLocal => SnapshotsIInv'
<1> SUFFICES ASSUME SnapshotsIInv, RemoveLocal PROVE SnapshotsIInv'
  OBVIOUS
<1>1. SnapshotsTypeOK'
  <2>1. deletion' \in {"none", "discarded", "shredded", "emptied", "done"} /\ file' \in BOOLEAN
    BY DEF RemoveLocal, indexVars, queueVars, savedVars, faultVars, SnapshotsIInv, SnapshotsTypeOK
  <2>2. QED
    BY <2>1 DEF RemoveLocal, indexVars, queueVars, savedVars, faultVars, SnapshotsIInv, SnapshotsTypeOK
<1>2. Bounds'
  BY DEF RemoveLocal, indexVars, queueVars, savedVars, faultVars, SnapshotsIInv, SnapshotsTypeOK, Bounds
<1>3. Behind'
  BY DEF RemoveLocal, indexVars, queueVars, savedVars, faultVars, SnapshotsIInv, SnapshotsTypeOK, Bounds, Behind,
     Undisturbed, Deleting
<1>4. StillToCopy'
  BY DEF RemoveLocal, indexVars, queueVars, savedVars, faultVars, SnapshotsIInv, SnapshotsTypeOK, Bounds, Behind,
     StillToCopy, Undisturbed, Deleting
<1>5. Deleting'
  BY DEF RemoveLocal, indexVars, queueVars, savedVars, faultVars, SnapshotsIInv, SnapshotsTypeOK, Bounds, Deleting
<1>6. QED
  BY <1>1, <1>2, <1>3, <1>4, <1>5 DEF SnapshotsIInv

LEMMA KilledKeeps == SnapshotsIInv /\ Killed => SnapshotsIInv'
<1> SUFFICES ASSUME SnapshotsIInv, Killed PROVE SnapshotsIInv'
  OBVIOUS
<1>1. SnapshotsTypeOK'
  <2>1. job' \in Jobs
    BY IdleIsAJob DEF Killed
  <2>2. kills \in Nat /\ file \in BOOLEAN /\ content \in Nat
    BY DEF SnapshotsIInv, SnapshotsTypeOK
  <2>3. kills' \in Nat
    BY <2>2 DEF Killed
  <2>4. file' \in BOOLEAN
    BY <2>2, Zenon DEF Killed
  <2>5. content' \in Nat
    BY <2>2 DEF Killed
  <2>6. QED
    BY <2>1, <2>3, <2>4, <2>5 DEF Killed, SnapshotsIInv, SnapshotsTypeOK, Jobs
<1>2. Bounds'
  BY DEF Killed, Idle, indexVars, queueVars, savedVars, faultVars, SnapshotsIInv, SnapshotsTypeOK, Bounds
<1>3. Behind'
  BY DEF Killed, Idle, indexVars, queueVars, savedVars, faultVars, SnapshotsIInv, SnapshotsTypeOK, Bounds, Behind,
     Undisturbed, Deleting
<1>4. StillToCopy'
  BY IdleIsAJob DEF Killed, Idle, indexVars, queueVars, savedVars, faultVars, SnapshotsIInv, SnapshotsTypeOK,
     Bounds,
     Behind, StillToCopy, Undisturbed, Deleting
<1>5. Deleting'
  BY DEF Killed, Idle, indexVars, queueVars, savedVars, faultVars, SnapshotsIInv, SnapshotsTypeOK, Bounds, Deleting
<1>6. QED
  BY <1>1, <1>2, <1>3, <1>4, <1>5 DEF SnapshotsIInv

LEMMA LeaveKeeps == ASSUME SnapshotsIInv, NEW who \in {"evict", "close"}, Leave(who) PROVE SnapshotsIInv'
<1>1. SnapshotsTypeOK'
  <2>1. /\ leaver' \in {"none", "evict", "close"} /\ queued' \in BOOLEAN /\ asked' \in {"used", "left"}
        /\ timer' \in {"none", "armed", "fired"} /\ stray' \in BOOLEAN /\ late' \in BOOLEAN
    BY LaterQueues DEF Leave, indexVars, queueVars, savedVars, faultVars, SnapshotsIInv, SnapshotsTypeOK
  <2>2. QED
    BY <2>1 DEF Leave, indexVars, queueVars, savedVars, faultVars, SnapshotsIInv, SnapshotsTypeOK
<1>2. Bounds'
  BY DEF Leave, indexVars, queueVars, savedVars, faultVars, SnapshotsIInv, SnapshotsTypeOK, Bounds
<1>3. Behind'
  BY DEF Leave, indexVars, queueVars, savedVars, faultVars, SnapshotsIInv, SnapshotsTypeOK, Bounds, Behind,
     Undisturbed,
     Deleting
<1>4. StillToCopy'
  BY LaterQueues DEF Leave, indexVars, queueVars, savedVars, faultVars, SnapshotsIInv, SnapshotsTypeOK, Bounds,
     Behind,
     StillToCopy, Undisturbed, Deleting
<1>5. Deleting'
  BY DEF Leave, indexVars, queueVars, savedVars, faultVars, SnapshotsIInv, SnapshotsTypeOK, Bounds, Deleting
<1>6. QED
  BY <1>1, <1>2, <1>3, <1>4, <1>5 DEF SnapshotsIInv

LEMMA SnapshotsIInvStays == SnapshotsIInv /\ [SnapshotsNext]_snapshotVars => SnapshotsIInv'
<1> SUFFICES ASSUME SnapshotsIInv, [SnapshotsNext]_snapshotVars PROVE SnapshotsIInv'
  OBVIOUS
<1>1. CASE UNCHANGED snapshotVars
  BY <1>1 DEF snapshotVars, indexVars, queueVars, savedVars, faultVars, SnapshotsTypeOK, SnapshotsIInv, Bounds,
     Behind,
              StillToCopy, Deleting, Undisturbed
<1>2. QED
  BY <1>1, LeaveKeeps, OpenVaultKeeps, SearchKeeps, ChangeKeeps, SettleKeeps, IntervalOverKeeps, TimerCallsKeeps,
     StrayCallsKeeps, EvictIdleKeeps, CloseServerKeeps, ShutDownKeeps, StartJobKeeps, FingerprintKeeps,
     FindKeyKeeps, CopyIndexKeeps, PutCopyKeeps, CheckKeyKeeps, DeleteVaultKeeps, DestroyKeyKeeps,
     EmptySnapshotsKeeps, RemoveLocalKeeps, KilledKeeps DEF SnapshotsNext

LEMMA SnapshotsInvFollows == SnapshotsIInv => SnapshotsInv
BY DEF SnapshotsInv, SavedLast, NoneLeftBehind, SnapshotsTypeOK, SnapshotsIInv, Bounds, Behind, StillToCopy,
   Deleting,
   Undisturbed

(* A server that stops in order leaves the index of a vault in storage as it was at the end, and one that is   *)
(* deleted leaves nothing there, for any number of changes and of failures and however they fall together.     *)
THEOREM CopiesKept == SnapshotsSpec => []SnapshotsInv
<1>1. SnapshotsSpec => []SnapshotsIInv
  BY SnapshotsInitHolds, SnapshotsIInvStays, PTL DEF SnapshotsSpec
<1>2. QED
  BY <1>1, SnapshotsInvFollows, PTL

-----------------------------------------------------------------------------
(* The theorem about ServerCaches: for any writers, objects and queues, a search has what its server had        *)
(* written, and what it had been told of, when it began.                                                       *)

(* An object that this server writes is written by one writer only: with two, the listing would be patched in  *)
(* the order in which their requests go on, which need not be that of the writes.                              *)
OneWriterHere == \A v, w \in Writer : v # w /\ KeyOf[v] = KeyOf[w] => ~writing[v].here

Pending == {queue[i] : i \in 1..Len(queue)} \cup bus \cup hearing

(* f has what was written here and what is to be told of here. *)
AtLeast(f, g) == \A k \in Key : f[k] >= g[k]
HasAll(f, o, h, ws, told) ==
  /\ AtLeast(f, o) /\ AtLeast(f, h)
  /\ \A w \in Writer : ws[w].pc = "wrote" => f[KeyOf[w]] >= ws[w].version
  /\ \A c \in told : f[c.key] >= c.version
Has(f) == HasAll(f, own, heard, writing, hearing)

Stored ==
  /\ \A k \in Key : store[k] <= versions
  /\ Has(store) /\ \A c \in Pending : store[c.key] >= c.version
  /\ \A w \in Writer : writing[w].pc \in {"announce", "wrote"} => store[KeyOf[w]] >= writing[w].version
  /\ \A w \in Writer : writing[w].pc \in {"patch", "wrote"} => writing[w].here
  /\ \A w \in Writer : writing[w].pc = "patch" => store[KeyOf[w]] = writing[w].version

(* A listing that is kept, or will be, has all of it. *)
Listings ==
  /\ listing # NoListing => Has(listing)
  /\ \A x \in Role : reading[x].pc = "keep" /\ reading[x].intact => Has(reading[x].read)

(* A search knows what was written here when it began, and so does the index while nothing marks it stale. *)
Searching ==
  LET r == reading["search"] IN
  /\ AtLeast(own, r.need) /\ AtLeast(heard, r.told)
  /\ r.pc \in {"keep", "apply"} => AtLeast(r.read, r.need) /\ AtLeast(r.read, r.told)
  /\ r.pc \in {"list", "read", "keep", "apply"} /\ ~stale => own = r.need /\ heard = r.told
  /\ r.pc = "answer" => AtLeast(rows, r.need) /\ AtLeast(rows, r.told)
  /\ r.pc \in {"idle", "answer"} /\ synced /\ ~stale => AtLeast(rows, own) /\ AtLeast(rows, heard)

CachesIInv == CachesTypeOK /\ OneWriterHere /\ Stored /\ Listings /\ Searching

Writes == [pc : {"idle", "patch", "wrote", "announce", "done"}, version : Nat, here : BOOLEAN]
Reads1 == [pc : {"idle", "list", "read", "keep", "apply", "answer"}, read : Versions, intact : BOOLEAN,
           need : Versions, told : Versions]
-----------------------------------------------------------------------------
LEMMA KeysThere == \A w \in Writer : KeyOf[w] \in Key
BY DEF Key

LEMMA FirstIsVersions == First \in Versions /\ \A k \in Key : First[k] = 0
BY DEF First, Versions

LEMMA StillIsAReader == Still \in Reads1 /\ Still.pc = "idle" /\ Still.need = First /\ Still.told = First
BY FirstIsVersions DEF Still, Reads1

(* What is told of raises the version of its object, if it is a later one. *)
LEMMA AtRaises ==
  ASSUME NEW f \in Versions, NEW c \in Told
  PROVE  /\ At(f, c) \in Versions /\ At(f, c)[c.key] >= c.version
         /\ \A k \in Key : At(f, c)[k] = f[k] \/ (k = c.key /\ At(f, c)[k] = c.version /\ c.version > f[k])
<1>1. c.key \in Key /\ c.version \in Nat
  BY DEF Told
<1>2. CASE c.version > f[c.key]
  BY <1>1, <1>2 DEF At, Versions
<1>3. CASE ~(c.version > f[c.key])
  BY <1>1, <1>3 DEF At, Versions
<1>4. QED
  BY <1>2, <1>3

LEMMA ChangeIsTold ==
  ASSUME CachesTypeOK, NEW w \in Writer
  PROVE  ChangeOf(w) \in Told /\ ChangeOf(w).key = KeyOf[w] /\ ChangeOf(w).version = writing[w].version
BY KeysThere DEF CachesTypeOK, ChangeOf, Told

LEMMA PendingTold == CachesTypeOK => Pending \subseteq Told
BY DEF CachesTypeOK, Pending

LEMMA CachesInitHolds == CachesInit /\ OneWriterHere => CachesIInv
<1> SUFFICES ASSUME CachesInit, OneWriterHere PROVE CachesIInv
  OBVIOUS
<1>1. CachesTypeOK
  <2>1. store \in Versions /\ rows \in Versions /\ own \in Versions /\ heard \in Versions
    BY FirstIsVersions DEF CachesInit
  <2>2. reading \in [Role -> Reads1]
    BY StillIsAReader DEF CachesInit
  <2>3. writing \in [Writer -> Writes]
    BY DEF CachesInit, Writes
  <2>4. queue \in Seq(Told) /\ bus \subseteq Told /\ hearing \subseteq Told
    BY DEF CachesInit
  <2>5. versions \in Nat /\ refused \in Nat /\ young \in BOOLEAN /\ stale \in BOOLEAN /\ synced \in BOOLEAN
        /\ listing \in Versions \cup {NoListing}
    BY DEF CachesInit
  <2>6. QED
    BY <2>1, <2>2, <2>3, <2>4, <2>5 DEF CachesTypeOK, Writes, Reads1
<1>2. /\ \A k \in Key : store[k] = 0 /\ own[k] = 0 /\ heard[k] = 0
      /\ versions = 0 /\ hearing = {} /\ bus = {} /\ queue = << >>
      /\ \A w \in Writer : writing[w].pc = "idle"
  BY FirstIsVersions DEF CachesInit
<1>3. Stored
  <2>1. Pending = {}
    BY <1>2 DEF Pending
  <2>2. QED
    BY <1>2, <2>1, KeysThere DEF Stored, Has, HasAll, AtLeast
<1>4. Listings
  BY StillIsAReader DEF CachesInit, Listings
<1>5. Searching
  <2>1. reading["search"] = Still /\ own = First /\ heard = First
    BY DEF CachesInit, Role
  <2>2. QED
    BY <1>2, <2>1, StillIsAReader, FirstIsVersions DEF Searching, AtLeast, CachesInit
<1>6. QED
  BY <1>1, <1>3, <1>4, <1>5 DEF CachesIInv
LEMMA AtLeastOnwards ==
  ASSUME NEW f \in Versions, NEW g \in Versions, NEW h \in Versions, AtLeast(f, g), AtLeast(g, h)
  PROVE  AtLeast(f, h)
BY DEF AtLeast, Versions

LEMMA LaterHas ==
  ASSUME CachesTypeOK, NEW f \in Versions, NEW g \in Versions, Has(f), AtLeast(g, f)
  PROVE  Has(g)
<1>1. AtLeast(g, own) /\ AtLeast(g, heard)
  BY AtLeastOnwards DEF CachesTypeOK, Has, HasAll
<1>2. \A w \in Writer : writing[w].pc = "wrote" => g[KeyOf[w]] >= writing[w].version
  <2> SUFFICES ASSUME NEW w \in Writer, writing[w].pc = "wrote" PROVE g[KeyOf[w]] >= writing[w].version
    OBVIOUS
  <2>1. KeyOf[w] \in Key /\ writing[w].version \in Nat
    BY KeysThere DEF CachesTypeOK
  <2>2. f[KeyOf[w]] >= writing[w].version /\ g[KeyOf[w]] >= f[KeyOf[w]]
    BY <2>1 DEF Has, HasAll, AtLeast
  <2>3. QED
    BY <2>1, <2>2 DEF Versions
<1>3. \A c \in hearing : g[c.key] >= c.version
  <2> SUFFICES ASSUME NEW c \in hearing PROVE g[c.key] >= c.version
    OBVIOUS
  <2>1. c.key \in Key /\ c.version \in Nat
    BY DEF CachesTypeOK, Told
  <2>2. f[c.key] >= c.version /\ g[c.key] >= f[c.key]
    BY <2>1 DEF Has, HasAll, AtLeast
  <2>3. QED
    BY <2>1, <2>2 DEF Versions
<1>4. QED
  BY <1>1, <1>2, <1>3 DEF Has, HasAll

-----------------------------------------------------------------------------
LEMMA StoreKeeps ==
  ASSUME CachesIInv, NEW w \in Writer, Store(w)
  PROVE  CachesIInv'
<1> USE KeysThere
<1>0. CachesTypeOK /\ OneWriterHere /\ Stored /\ Listings /\ Searching
  BY DEF CachesIInv
<1>1. CachesTypeOK'
  <2>1. store' \in Versions
    BY <1>0 DEF Store, storeVars, busVars, listingVars, syncVars, tellVars, CachesTypeOK, Writes, Reads1, Versions
  <2>2. versions' \in Nat
    BY <1>0 DEF Store, storeVars, busVars, listingVars, syncVars, tellVars, CachesTypeOK, Writes, Reads1, Versions
  <2>3. writing' \in [Writer -> Writes]
    <3>1. writing \in [Writer -> Writes] /\ versions + 1 \in Nat
      BY <1>0 DEF CachesTypeOK, Writes
    <3>2. CASE writing[w].here
      BY <3>1, <3>2 DEF Store, Writes
    <3>3. CASE ~writing[w].here
      BY <3>1, <3>3 DEF Store, Writes
    <3>4. QED
      BY <3>2, <3>3
  <2> QED
    BY <1>0, <2>1, <2>2, <2>3 DEF Store, storeVars, busVars, listingVars, syncVars, tellVars, CachesTypeOK, Writes,
       Reads1
<1>2. OneWriterHere'
  BY <1>0 DEF Store, storeVars, busVars, listingVars, syncVars, tellVars, OneWriterHere, CachesTypeOK
<1>3. \A f \in Versions : Has(f) => HasAll(f, own', heard', writing', hearing')
  BY <1>0 DEF Store, storeVars, busVars, listingVars, syncVars, tellVars, Has, HasAll, AtLeast, CachesTypeOK,
     Versions
<1>4. Stored'
  <2>1. \A k \in Key : store[k] \in Nat /\ store'[k] \in Nat /\ store'[k] >= store[k] /\ store'[k] <= versions'
    <3> SUFFICES ASSUME NEW k \in Key
                 PROVE  store[k] \in Nat /\ store'[k] \in Nat /\ store'[k] >= store[k] /\ store'[k] <= versions'
      OBVIOUS
    <3>1. store[k] \in Nat /\ versions \in Nat /\ store[k] <= versions /\ versions' = versions + 1
      BY <1>0 DEF Store, Stored, CachesTypeOK, Versions
    <3>2. store'[k] = store[k] \/ store'[k] = versions + 1
      BY <1>0 DEF Store, CachesTypeOK, Versions
    <3>3. QED
      BY <3>1, <3>2
  <2>2. Has(store)'
    <3>1. Has(store')
      <4>1. store \in Versions /\ store' \in Versions /\ Has(store)
        BY <1>0, <1>1 DEF Stored, CachesTypeOK
      <4>2. AtLeast(store', store)
        BY <2>1 DEF AtLeast
      <4>3. QED
        BY <1>0, <4>1, <4>2, LaterHas
    <3>2. QED
      BY <3>1, <1>1, <1>3 DEF Has, CachesTypeOK
  <2>3. \A c \in Pending' : store'[c.key] >= c.version
    <3>1. Pending' = Pending
      BY DEF Store, Pending, busVars
    <3>2. Pending \subseteq Told
      BY <1>0, PendingTold
    <3>3. QED
      BY <1>0, <2>1, <3>1, <3>2 DEF Stored, Told
  <2>4. \A v \in Writer : writing'[v].pc \in {"announce", "wrote"} => store'[KeyOf[v]] >= writing'[v].version
    BY <1>0, <2>1 DEF Store, Stored, CachesTypeOK, Versions
  <2>5. \A v \in Writer : writing'[v].pc \in {"patch", "wrote"} => writing'[v].here
    BY <1>0 DEF Store, Stored, CachesTypeOK
  <2>6. \A v \in Writer : writing'[v].pc = "patch" => store'[KeyOf[v]] = writing'[v].version
    <3> SUFFICES ASSUME NEW v \in Writer, writing'[v].pc = "patch"
                 PROVE  store'[KeyOf[v]] = writing'[v].version
      OBVIOUS
    <3>1. CASE v = w
      BY <1>0, <3>1 DEF Store, CachesTypeOK, Versions
    <3>2. CASE v # w
      <4>1. writing'[v] = writing[v] /\ writing[v].here
        BY <1>0, <3>2 DEF Store, Stored, CachesTypeOK
      <4>2. CASE KeyOf[v] = KeyOf[w]
        <5>1. ~writing[w].here
          BY <1>0, <3>2, <4>2 DEF OneWriterHere
        <5>2. ~writing[v].here
          BY <1>0, <3>2, <4>2 DEF OneWriterHere
        <5>3. QED
          BY <4>1, <5>2
      <4>3. CASE KeyOf[v] # KeyOf[w]
        BY <1>0, <4>1, <4>3 DEF Store, Stored, CachesTypeOK, Versions
      <4>4. QED
        BY <4>2, <4>3
    <3>3. QED
      BY <3>1, <3>2
  <2>7. QED
    BY <2>1, <2>2, <2>3, <2>4, <2>5, <2>6 DEF Stored
<1>5. Listings'
  BY <1>0, <1>3 DEF Store, storeVars, busVars, listingVars, syncVars, tellVars, Listings, Stored, Has,
     CachesTypeOK, Role
<1>6. Searching'
  BY <1>0 DEF Store, storeVars, busVars, listingVars, syncVars, tellVars, Searching
<1>7. QED
  BY <1>1, <1>2, <1>4, <1>5, <1>6 DEF CachesIInv

LEMMA RefuseKeeps ==
  ASSUME CachesIInv, NEW w \in Writer, Refuse(w)
  PROVE  CachesIInv'
<1> USE KeysThere
<1>0. CachesTypeOK /\ OneWriterHere /\ Stored /\ Listings /\ Searching
  BY DEF CachesIInv
<1>1. CachesTypeOK'
  <2>1. store' \in Versions /\ versions' \in Nat
    <3>1. CASE versions' = versions + 1 /\ store' = [store EXCEPT ![KeyOf[w]] = versions + 1]
      BY <1>0, <3>1 DEF CachesTypeOK, Versions
    <3>2. CASE UNCHANGED storeVars
      BY <1>0, <3>2 DEF storeVars, CachesTypeOK
    <3>3. QED
      BY <3>1, <3>2 DEF Refuse
  <2>2. writing' \in [Writer -> Writes]
    BY <1>0 DEF Refuse, CachesTypeOK, Writes
  <2>3. refused' \in Nat
    BY <1>0 DEF Refuse, Forget, NextGeneration, storeVars, busVars, listingVars, syncVars, tellVars, CachesTypeOK,
       Writes, Reads1, Versions
  <2>4. listing' \in Versions \cup {NoListing}
    BY <1>0 DEF Refuse, Forget, NextGeneration, storeVars, busVars, listingVars, syncVars, tellVars, CachesTypeOK,
       Writes, Reads1, Versions
  <2>5. reading' \in [Role -> Reads1]
    <3>1. CASE writing[w].here
      <4>1. NextGeneration
        BY <3>1 DEF Refuse, Forget
      <4>2. QED
        BY <1>0, <4>1 DEF NextGeneration, CachesTypeOK, Reads1
    <3>2. CASE ~writing[w].here
      BY <1>0, <3>2 DEF Refuse, CachesTypeOK, Reads1
    <3>3. QED
      BY <3>1, <3>2
  <2> QED
    BY <1>0, <2>1, <2>2, <2>3, <2>4, <2>5 DEF Refuse, Forget, NextGeneration, storeVars, busVars, listingVars,
       syncVars, tellVars, CachesTypeOK, Writes, Reads1
<1>2. OneWriterHere'
  BY <1>0 DEF Refuse, Forget, NextGeneration, storeVars, busVars, listingVars, syncVars, tellVars, OneWriterHere,
     CachesTypeOK
<1>3. \A f \in Versions : Has(f) => HasAll(f, own', heard', writing', hearing')
  BY <1>0 DEF Refuse, Forget, NextGeneration, storeVars, busVars, listingVars, syncVars, tellVars, Has, HasAll,
     AtLeast, CachesTypeOK, Versions
<1>4. Stored'
  <2>1. \A k \in Key : store[k] \in Nat /\ store'[k] \in Nat /\ store'[k] >= store[k] /\ store'[k] <= versions'
    <3>1. CASE versions' = versions + 1 /\ store' = [store EXCEPT ![KeyOf[w]] = versions + 1]
      BY <1>0, <3>1 DEF Stored, CachesTypeOK, Versions
    <3>2. CASE UNCHANGED storeVars
      BY <1>0, <3>2 DEF storeVars, Stored, CachesTypeOK, Versions
    <3>3. QED
      BY <3>1, <3>2 DEF Refuse
  <2>2. Has(store)'
    <3>1. Has(store')
      <4>1. store \in Versions /\ store' \in Versions /\ Has(store)
        BY <1>0, <1>1 DEF Stored, CachesTypeOK
      <4>2. AtLeast(store', store)
        BY <2>1 DEF AtLeast
      <4>3. QED
        BY <1>0, <4>1, <4>2, LaterHas
    <3>2. QED
      BY <3>1, <1>1, <1>3 DEF Has, CachesTypeOK
  <2>3. \A c \in Pending' : store'[c.key] >= c.version
    <3>1. Pending' = Pending
      BY DEF Refuse, Pending, busVars
    <3>2. Pending \subseteq Told
      BY <1>0, PendingTold
    <3>3. QED
      BY <1>0, <2>1, <3>1, <3>2 DEF Stored, Told
  <2>4. \A v \in Writer : writing'[v].pc \in {"announce", "wrote"} => store'[KeyOf[v]] >= writing'[v].version
    BY <1>0, <2>1 DEF Refuse, Stored, CachesTypeOK, Versions
  <2>5. \A v \in Writer : writing'[v].pc \in {"patch", "wrote"} => writing'[v].here
    BY <1>0 DEF Refuse, Stored, CachesTypeOK
  <2>6. \A v \in Writer : writing'[v].pc = "patch" => store'[KeyOf[v]] = writing'[v].version
    <3> SUFFICES ASSUME NEW v \in Writer, writing'[v].pc = "patch"
                 PROVE  store'[KeyOf[v]] = writing'[v].version
      OBVIOUS
    <3>1. v # w /\ writing'[v] = writing[v] /\ writing[v].here
      BY <1>0 DEF Refuse, Stored, CachesTypeOK
    <3>2. KeyOf[v] # KeyOf[w]
      BY <1>0, <3>1 DEF OneWriterHere
    <3>3. store'[KeyOf[v]] = store[KeyOf[v]]
      BY <1>0, <3>2 DEF Refuse, storeVars, CachesTypeOK, Versions
    <3>4. QED
      BY <1>0, <3>1, <3>3 DEF Stored
  <2>7. QED
    BY <2>1, <2>2, <2>3, <2>4, <2>5, <2>6 DEF Stored
<1>5. Listings'
  <2>1. CASE writing[w].here
    BY <2>1, <1>0 DEF Refuse, Forget, NextGeneration, Listings, CachesTypeOK
  <2>2. CASE ~writing[w].here
    <3>1. listing' = listing /\ reading' = reading
      BY <2>2 DEF Refuse
    <3>2. QED
      BY <1>0, <1>3, <3>1 DEF Listings, Has, CachesTypeOK
  <2>3. QED
    BY <2>1, <2>2
<1>6. Searching'
  <2>1. LET r == reading["search"] q == reading'["search"] IN
        q.pc = r.pc /\ q.read = r.read /\ q.need = r.need /\ q.told = r.told
    BY <1>0 DEF Refuse, NextGeneration, Forget, CachesTypeOK, Role
  <2>2. QED
    BY <1>0, <2>1 DEF Refuse, storeVars, busVars, listingVars, syncVars, tellVars, Searching
<1>7. QED
  BY <1>1, <1>2, <1>4, <1>5, <1>6 DEF CachesIInv

LEMMA PatchKeeps ==
  ASSUME CachesIInv, NEW w \in Writer, Patch(w)
  PROVE  CachesIInv'
<1> USE KeysThere
<1>0. CachesTypeOK /\ OneWriterHere /\ Stored /\ Listings /\ Searching
  BY DEF CachesIInv
<1>p. listing # NoListing => /\ listing \in Versions /\ listing' \in Versions
                             /\ listing'[KeyOf[w]] = writing[w].version
                             /\ \A k \in Key : k # KeyOf[w] => listing'[k] = listing[k]
  BY <1>0 DEF Patch, CachesTypeOK, Versions
<1>q. \A x \in Role : reading'[x] = [reading[x] EXCEPT !.intact = FALSE]
  BY DEF Patch, NextGeneration
<1>1. CachesTypeOK'
  <2>1. listing' \in Versions \cup {NoListing}
    BY <1>0, <1>p DEF Patch, CachesTypeOK
  <2>2. writing' \in [Writer -> Writes]
    BY <1>0 DEF Patch, CachesTypeOK, Writes
  <2>3. reading' \in [Role -> Reads1]
    BY <1>0 DEF Patch, NextGeneration, CachesTypeOK, Reads1
  <2> QED
    BY <1>0, <2>1, <2>2, <2>3 DEF Patch, NextGeneration, storeVars, busVars, listingVars, syncVars, tellVars,
       CachesTypeOK, Writes, Reads1
<1>2. OneWriterHere'
  BY <1>0 DEF Patch, NextGeneration, storeVars, busVars, listingVars, syncVars, tellVars, OneWriterHere,
     CachesTypeOK
<1>3. \A f \in Versions : Has(f) /\ f[KeyOf[w]] >= writing[w].version => HasAll(f, own', heard', writing', hearing')
  BY <1>0 DEF Patch, NextGeneration, storeVars, busVars, listingVars, syncVars, tellVars, Has, HasAll, AtLeast,
     CachesTypeOK, Versions
<1>4. Stored'
  <2>1. store'[KeyOf[w]] >= writing[w].version /\ store' = store /\ store \in Versions /\ Has(store)
    BY <1>0 DEF Patch, Stored, CachesTypeOK, Versions, storeVars
  <2>2. Has(store)'
    BY <1>3, <2>1 DEF Has
  <2>3. QED
    BY <1>0, <2>1, <2>2 DEF Patch, storeVars, busVars, Stored, Pending, CachesTypeOK, Versions
<1>5. Listings'
  <2>1. \A x \in Role : ~reading'[x].intact
    BY <1>0, <1>q DEF CachesTypeOK
  <2>2. ASSUME listing' # NoListing
        PROVE  HasAll(listing', own', heard', writing', hearing')
    <3>1. listing # NoListing /\ Has(listing)
      BY <1>0, <2>2 DEF Patch, Listings
    <3>2. \A k \in Key : /\ own[k] <= listing'[k] /\ heard[k] <= listing'[k]
      <4> SUFFICES ASSUME NEW k \in Key
                   PROVE  own[k] <= listing'[k] /\ heard[k] <= listing'[k]
        OBVIOUS
      <4>1. own[k] \in Nat /\ heard[k] \in Nat /\ listing[k] \in Nat /\ listing'[k] \in Nat
        BY <1>0, <1>p, <3>1 DEF CachesTypeOK, Versions
      <4>2. CASE k = KeyOf[w]
        <5>1. own[k] <= store[k] /\ heard[k] <= store[k] /\ store[k] = writing[w].version
          BY <1>0, <4>1, <4>2 DEF Patch, Stored, Has, HasAll, AtLeast, CachesTypeOK, Versions
        <5>2. QED
          BY <1>p, <3>1, <4>2, <5>1
      <4>3. CASE k # KeyOf[w]
        BY <1>p, <3>1, <4>1, <4>3 DEF Has, HasAll, AtLeast
      <4>4. QED
        BY <4>2, <4>3
    <3>3. \A v \in Writer : writing'[v].pc = "wrote" => listing'[KeyOf[v]] >= writing'[v].version
      <4> SUFFICES ASSUME NEW v \in Writer, writing'[v].pc = "wrote"
                   PROVE  listing'[KeyOf[v]] >= writing'[v].version
        OBVIOUS
      <4>1. CASE v = w
        BY <1>0, <1>p, <3>1, <4>1 DEF Patch, CachesTypeOK
      <4>2. CASE v # w
        <5>1. writing'[v] = writing[v] /\ writing[v].here
          BY <1>0, <4>2 DEF Patch, Stored, CachesTypeOK
        <5>2. KeyOf[v] # KeyOf[w]
          BY <1>0, <4>2, <5>1 DEF OneWriterHere
        <5>3. QED
          BY <1>p, <3>1, <5>1, <5>2 DEF Has, HasAll
      <4>3. QED
        BY <4>1, <4>2
    <3>4. \A c \in hearing : listing'[c.key] >= c.version
      <4> SUFFICES ASSUME NEW c \in hearing
                   PROVE  listing'[c.key] >= c.version
        OBVIOUS
      <4>1. c.key \in Key
        BY <1>0 DEF CachesTypeOK, Told
      <4>2. store[c.key] >= c.version /\ listing[c.key] >= c.version
        BY <1>0, <3>1 DEF Stored, Has, HasAll
      <4>3. QED
        BY <1>0, <1>p, <3>1, <4>1, <4>2 DEF Patch, Stored
    <3>5. own' = own /\ heard' = heard /\ hearing' = hearing
      BY DEF Patch, tellVars, busVars
    <3>6. AtLeast(listing', own) /\ AtLeast(listing', heard)
      BY <1>0, <1>p, <3>1, <3>2 DEF AtLeast, CachesTypeOK, Versions
    <3>7. QED
      BY <3>3, <3>4, <3>5, <3>6 DEF HasAll
  <2>3. QED
    BY <2>1, <2>2 DEF Listings, Has
<1>6. Searching'
  <2>1. LET r == reading["search"] q == reading'["search"] IN
        q.pc = r.pc /\ q.read = r.read /\ q.need = r.need /\ q.told = r.told
    BY <1>0 DEF Patch, NextGeneration, Forget, CachesTypeOK, Role
  <2>2. QED
    BY <1>0, <2>1 DEF Patch, storeVars, busVars, listingVars, syncVars, tellVars, Searching
<1>7. QED
  BY <1>1, <1>2, <1>4, <1>5, <1>6 DEF CachesIInv

LEMMA WroteKeeps ==
  ASSUME CachesIInv, NEW w \in Writer, Wrote(w)
  PROVE  CachesIInv'
<1> USE KeysThere
<1>0. CachesTypeOK /\ OneWriterHere /\ Stored /\ Listings /\ Searching
  BY DEF CachesIInv
<1>w. ChangeOf(w) \in Told /\ ChangeOf(w).key = KeyOf[w] /\ ChangeOf(w).version = writing[w].version
  BY <1>0, ChangeIsTold
<1>a. own \in Versions
  BY <1>0 DEF CachesTypeOK
<1>b. /\ own' \in Versions
      /\ \A k \in Key : own'[k] = own[k] \/ (k = KeyOf[w] /\ own'[k] = writing[w].version /\ own'[k] > own[k])
  BY <1>w, <1>a, AtRaises DEF Wrote
<1>1. CachesTypeOK'
  <2>1. own' \in Versions
    BY <1>b
  <2>2. writing' \in [Writer -> Writes]
    BY <1>0 DEF Wrote, CachesTypeOK, Writes
  <2>3. stale' \in BOOLEAN
    BY <1>0 DEF Wrote, storeVars, busVars, listingVars, syncVars, tellVars, CachesTypeOK, Writes, Reads1, Versions
  <2> QED
    BY <1>0, <2>1, <2>2, <2>3 DEF Wrote, storeVars, busVars, listingVars, syncVars, tellVars, CachesTypeOK, Writes,
       Reads1
<1>2. OneWriterHere'
  BY <1>0 DEF Wrote, storeVars, busVars, listingVars, syncVars, tellVars, OneWriterHere, CachesTypeOK
<1>3. \A f \in Versions : Has(f) => HasAll(f, own', heard', writing', hearing')
  <2> SUFFICES ASSUME NEW f \in Versions, Has(f)
               PROVE  HasAll(f, own', heard', writing', hearing')
    OBVIOUS
  <2>1. f[KeyOf[w]] >= writing[w].version /\ KeyOf[w] \in Key /\ writing[w].version \in Nat
    BY <1>0 DEF Wrote, Has, HasAll, CachesTypeOK
  <2>2. AtLeast(f, own')
    BY <1>b, <2>1 DEF Has, HasAll, AtLeast, Versions
  <2>3. \A v \in Writer : writing'[v].pc = "wrote" => f[KeyOf[v]] >= writing'[v].version
    BY <1>0 DEF Wrote, Has, HasAll, CachesTypeOK
  <2>4. QED
    BY <2>2, <2>3 DEF Wrote, tellVars, busVars, Has, HasAll
<1>4. Stored'
  <2>1. Has(store) /\ store \in Versions /\ store' = store
    BY <1>0 DEF Wrote, Stored, CachesTypeOK, storeVars
  <2>2. Has(store)'
    BY <1>3, <2>1 DEF Has
  <2>3. Pending' = Pending
    BY DEF Wrote, Pending, busVars
  <2>4. QED
    BY <1>0, <2>1, <2>2, <2>3 DEF Wrote, storeVars, Stored, CachesTypeOK
<1>5. Listings'
  BY <1>0, <1>3 DEF Wrote, storeVars, busVars, listingVars, syncVars, tellVars, Listings, Stored, Has,
     CachesTypeOK, Role
<1>6. Searching'
  <2>1. stale' /\ rows' = rows /\ reading' = reading /\ heard' = heard
    BY DEF Wrote
  <2>2. AtLeast(own', reading["search"].need)
    <3>1. reading["search"].need \in Versions /\ AtLeast(own, reading["search"].need)
      BY <1>0 DEF Searching, CachesTypeOK, Role
    <3>2. \A k \in Key : own'[k] >= own[k]
      BY <1>a, <1>b DEF Versions
    <3>3. QED
      BY <1>a, <1>b, <3>1, <3>2 DEF AtLeast, Versions
  <2>3. QED
    BY <1>0, <2>1, <2>2 DEF Searching
<1>7. QED
  BY <1>1, <1>2, <1>4, <1>5, <1>6 DEF CachesIInv

LEMMA AnnounceKeeps ==
  ASSUME CachesIInv, NEW w \in Writer, Announce(w)
  PROVE  CachesIInv'
<1> USE KeysThere
<1>0. CachesTypeOK /\ OneWriterHere /\ Stored /\ Listings /\ Searching
  BY DEF CachesIInv
<1>w. ChangeOf(w) \in Told /\ ChangeOf(w).key = KeyOf[w] /\ ChangeOf(w).version = writing[w].version
  BY <1>0, ChangeIsTold
<1>a. queue \in Seq(Told)
  BY <1>0 DEF CachesTypeOK
<1>1. CachesTypeOK'
  <2>1. queue' \in Seq(Told)
    BY <1>w, <1>a DEF Announce
  <2>2. writing' \in [Writer -> Writes]
    BY <1>0 DEF Announce, CachesTypeOK, Writes
  <2> QED
    BY <1>0, <2>1, <2>2 DEF Announce, storeVars, busVars, listingVars, syncVars, tellVars, CachesTypeOK, Writes,
       Reads1
<1>2. OneWriterHere'
  BY <1>0 DEF Announce, storeVars, busVars, listingVars, syncVars, tellVars, OneWriterHere, CachesTypeOK
<1>3. \A f \in Versions : Has(f) => HasAll(f, own', heard', writing', hearing')
  BY <1>0 DEF Announce, storeVars, busVars, listingVars, syncVars, tellVars, Has, HasAll, AtLeast, CachesTypeOK,
     Versions
<1>4. Stored'
  <2>1. Has(store) /\ store \in Versions /\ store' = store
    BY <1>0 DEF Announce, Stored, CachesTypeOK, storeVars
  <2>2. Has(store)'
    BY <1>3, <2>1 DEF Has
  <2>3. Pending' \subseteq Pending \cup {ChangeOf(w)}
    BY <1>w, <1>a DEF Announce, Pending
  <2>4. store[KeyOf[w]] >= writing[w].version
    BY <1>0 DEF Announce, Stored
  <2>5. \A c \in Pending' : store'[c.key] >= c.version
    BY <1>0, <1>w, <2>1, <2>3, <2>4 DEF Stored
  <2>6. QED
    BY <1>0, <2>1, <2>2, <2>5 DEF Announce, storeVars, Stored, CachesTypeOK
<1>5. Listings'
  BY <1>0, <1>3 DEF Announce, storeVars, busVars, listingVars, syncVars, tellVars, Listings, Stored, Has,
     CachesTypeOK, Role
<1>6. Searching'
  BY <1>0, <1>3 DEF Announce, storeVars, busVars, listingVars, syncVars, tellVars, Searching, Listings, Stored,
     Has, AtLeast, CachesTypeOK, Versions, Role
<1>7. QED
  BY <1>1, <1>2, <1>4, <1>5, <1>6 DEF CachesIInv

LEMMA SendKeeps ==
  ASSUME CachesIInv, Send
  PROVE  CachesIInv'
<1> USE KeysThere
<1>0. CachesTypeOK /\ OneWriterHere /\ Stored /\ Listings /\ Searching
  BY DEF CachesIInv
<1>1. CachesTypeOK'
  <2>1. queue' \in Seq(Told)
    BY <1>0 DEF Send, storeVars, busVars, listingVars, syncVars, tellVars, CachesTypeOK, Writes, Reads1, Versions
  <2>2. bus' \subseteq Told
    BY <1>0 DEF Send, storeVars, busVars, listingVars, syncVars, tellVars, CachesTypeOK, Writes, Reads1, Versions
  <2> QED
    BY <1>0, <2>1, <2>2 DEF Send, storeVars, busVars, listingVars, syncVars, tellVars, CachesTypeOK, Writes, Reads1
<1>2. OneWriterHere'
  BY <1>0 DEF Send, storeVars, busVars, listingVars, syncVars, tellVars, OneWriterHere, CachesTypeOK
<1>3. \A f \in Versions : Has(f) => HasAll(f, own', heard', writing', hearing')
  BY <1>0 DEF Send, storeVars, busVars, listingVars, syncVars, tellVars, Has, HasAll, AtLeast, CachesTypeOK,
     Versions
<1>4. Stored'
  BY <1>0, <1>3 DEF Send, storeVars, busVars, listingVars, syncVars, tellVars, Stored, Has, Pending, CachesTypeOK,
     Versions
<1>5. Listings'
  BY <1>0, <1>3 DEF Send, storeVars, busVars, listingVars, syncVars, tellVars, Listings, Stored, Has, CachesTypeOK,
     Role
<1>6. Searching'
  BY <1>0, <1>3 DEF Send, storeVars, busVars, listingVars, syncVars, tellVars, Searching, Listings, Stored, Has,
     AtLeast, CachesTypeOK, Versions, Role
<1>7. QED
  BY <1>1, <1>2, <1>4, <1>5, <1>6 DEF CachesIInv

LEMMA HearKeeps ==
  ASSUME CachesIInv, Hear
  PROVE  CachesIInv'
<1> USE KeysThere
<1>0. CachesTypeOK /\ OneWriterHere /\ Stored /\ Listings /\ Searching
  BY DEF CachesIInv
<1>c. PICK c \in bus : bus' = bus \ {c} /\ hearing' = {c}
  BY DEF Hear
<1>1. CachesTypeOK'
  <2>1. bus' \subseteq Told /\ hearing' \subseteq Told
    BY <1>0 DEF Hear, Forget, NextGeneration, storeVars, busVars, listingVars, syncVars, tellVars, CachesTypeOK,
       Writes, Reads1, Versions
  <2>2. listing' \in Versions \cup {NoListing}
    BY <1>0 DEF Hear, Forget, NextGeneration, storeVars, busVars, listingVars, syncVars, tellVars, CachesTypeOK,
       Writes, Reads1, Versions
  <2>3. reading' \in [Role -> Reads1]
    BY <1>0 DEF Hear, Forget, NextGeneration, CachesTypeOK, Reads1
  <2> QED
    BY <1>0, <2>1, <2>2, <2>3 DEF Hear, Forget, NextGeneration, storeVars, busVars, listingVars, syncVars,
       tellVars, CachesTypeOK, Writes, Reads1
<1>2. OneWriterHere'
  BY <1>0 DEF Hear, Forget, NextGeneration, storeVars, busVars, listingVars, syncVars, tellVars, OneWriterHere,
     CachesTypeOK
<1>3. \A f \in Versions : Has(f) /\ f[c.key] >= c.version => HasAll(f, own', heard', writing', hearing')
  BY <1>c DEF Hear, tellVars, Has, HasAll
<1>4. Stored'
  <2>1. Has(store) /\ store \in Versions /\ store' = store /\ store[c.key] >= c.version
    BY <1>0 DEF Hear, Stored, CachesTypeOK, storeVars, Pending
  <2>2. Has(store)'
    BY <1>3, <2>1 DEF Has
  <2>3. Pending' \subseteq Pending
    BY <1>c DEF Hear, Pending
  <2>4. QED
    BY <1>0, <2>1, <2>2, <2>3 DEF Hear, storeVars, Stored, CachesTypeOK
<1>5. Listings'
  BY <1>0 DEF Hear, Forget, NextGeneration, Listings, CachesTypeOK
<1>6. Searching'
  <2>1. LET r == reading["search"] q == reading'["search"] IN
        q.pc = r.pc /\ q.read = r.read /\ q.need = r.need /\ q.told = r.told
    BY <1>0 DEF Hear, NextGeneration, Forget, CachesTypeOK, Role
  <2>2. QED
    BY <1>0, <2>1 DEF Hear, storeVars, busVars, listingVars, syncVars, tellVars, Searching
<1>7. QED
  BY <1>1, <1>2, <1>4, <1>5, <1>6 DEF CachesIInv

LEMMA HeardKeeps ==
  ASSUME CachesIInv, Heard
  PROVE  CachesIInv'
<1> USE KeysThere
<1>0. CachesTypeOK /\ OneWriterHere /\ Stored /\ Listings /\ Searching
  BY DEF CachesIInv
<1>c. PICK c \in hearing : heard' = At(heard, c)
  BY DEF Heard
<1>w. c \in Told /\ heard \in Versions
  BY <1>0 DEF CachesTypeOK
<1>b. /\ heard' \in Versions
      /\ \A k \in Key : heard'[k] = heard[k] \/ (k = c.key /\ heard'[k] = c.version /\ heard'[k] > heard[k])
  BY <1>c, <1>w, AtRaises
<1>1. CachesTypeOK'
  <2>1. heard' \in Versions
    BY <1>b
  <2>2. hearing' \subseteq Told
    BY <1>0 DEF Heard, storeVars, busVars, listingVars, syncVars, tellVars, CachesTypeOK, Writes, Reads1, Versions
  <2>3. stale' \in BOOLEAN
    BY <1>0 DEF Heard, storeVars, busVars, listingVars, syncVars, tellVars, CachesTypeOK, Writes, Reads1, Versions
  <2> QED
    BY <1>0, <2>1, <2>2, <2>3 DEF Heard, storeVars, busVars, listingVars, syncVars, tellVars, CachesTypeOK, Writes,
       Reads1
<1>2. OneWriterHere'
  BY <1>0 DEF Heard, storeVars, busVars, listingVars, syncVars, tellVars, OneWriterHere, CachesTypeOK
<1>3. \A f \in Versions : Has(f) => HasAll(f, own', heard', writing', hearing')
  <2> SUFFICES ASSUME NEW f \in Versions, Has(f)
               PROVE  HasAll(f, own', heard', writing', hearing')
    OBVIOUS
  <2>1. f[c.key] >= c.version /\ c.key \in Key /\ c.version \in Nat
    BY <1>c, <1>w DEF Has, HasAll, Told
  <2>2. AtLeast(f, heard')
    BY <1>b, <2>1 DEF Has, HasAll, AtLeast, Versions
  <2>3. QED
    BY <2>2 DEF Heard, Has, HasAll
<1>4. Stored'
  <2>1. Has(store) /\ store \in Versions /\ store' = store
    BY <1>0 DEF Heard, Stored, CachesTypeOK, storeVars
  <2>2. Has(store)'
    BY <1>3, <2>1 DEF Has
  <2>3. Pending' \subseteq Pending
    BY DEF Heard, Pending
  <2>4. QED
    BY <1>0, <2>1, <2>2, <2>3 DEF Heard, storeVars, Stored, CachesTypeOK
<1>5. Listings'
  BY <1>0, <1>3 DEF Heard, storeVars, busVars, listingVars, syncVars, tellVars, Listings, Stored, Has,
     CachesTypeOK, Role
<1>6. Searching'
  <2>1. stale' /\ rows' = rows /\ reading' = reading /\ own' = own
    BY DEF Heard
  <2>2. AtLeast(heard', reading["search"].told)
    <3>1. reading["search"].told \in Versions /\ AtLeast(heard, reading["search"].told)
      BY <1>0 DEF Searching, CachesTypeOK, Role
    <3>2. \A k \in Key : heard'[k] >= heard[k]
      BY <1>w, <1>b DEF Versions
    <3>3. QED
      BY <1>w, <1>b, <3>1, <3>2 DEF AtLeast, Versions
  <2>3. QED
    BY <1>0, <2>1, <2>2 DEF Searching
<1>7. QED
  BY <1>1, <1>2, <1>4, <1>5, <1>6 DEF CachesIInv

LEMMA BeginSearchKeeps ==
  ASSUME CachesIInv, BeginSearch
  PROVE  CachesIInv'
<1> USE KeysThere
<1>0. CachesTypeOK /\ OneWriterHere /\ Stored /\ Listings /\ Searching
  BY DEF CachesIInv
<1>s. own' = own /\ heard' = heard /\ writing' = writing /\ hearing' = hearing /\ store' = store
  BY DEF BeginSearch, readsNothingElse, storeVars, busVars, tellVars
<1>1. CachesTypeOK'
  <2>1. reading' \in [Role -> Reads1]
    BY <1>0, FirstIsVersions DEF BeginSearch, Reads, Still, CachesTypeOK, Reads1
  <2>2. stale' \in BOOLEAN
    BY <1>0 DEF BeginSearch, readsNothingElse, Reads, storeVars, busVars, listingVars, syncVars, tellVars,
       CachesTypeOK, Writes, Reads1, Versions
  <2> QED
    BY <1>0, <2>1, <2>2 DEF BeginSearch, readsNothingElse, Reads, storeVars, busVars, listingVars, syncVars,
       tellVars, CachesTypeOK, Writes, Reads1
<1>2. OneWriterHere'
  BY <1>0 DEF BeginSearch, readsNothingElse, Reads, storeVars, busVars, listingVars, syncVars, tellVars,
     OneWriterHere, CachesTypeOK
<1>3. \A f \in Versions : Has(f) => HasAll(f, own', heard', writing', hearing')
  BY <1>s DEF Has
<1>4. Stored'
  <2>1. store' = store /\ versions' = versions /\ writing' = writing /\ Pending' = Pending /\ own' = own /\ heard' = heard
        /\ hearing' = hearing
    BY DEF BeginSearch, readsNothingElse, storeVars, busVars, tellVars, Pending
  <2>2. QED
    BY <1>0, <2>1 DEF Stored, Has
<1>5. Listings'
  BY <1>0, <1>3, <1>s DEF BeginSearch, Reads, Still, listingVars, Listings, Has, CachesTypeOK, Role
<1>6. Searching'
  <2>1. /\ reading'["search"].need = own /\ reading'["search"].told = heard
        /\ reading'["search"].pc = IF synced /\ ~stale THEN "answer" ELSE "list"
    BY <1>0 DEF BeginSearch, Reads, Still, CachesTypeOK, Role
  <2>2. rows' = rows /\ synced' = synced /\ ~stale'
    BY DEF BeginSearch
  <2>3. AtLeast(own, own) /\ AtLeast(heard, heard)
    BY <1>0 DEF AtLeast, CachesTypeOK, Versions
  <2>4. synced /\ ~stale => AtLeast(rows, own) /\ AtLeast(rows, heard)
    BY <1>0 DEF BeginSearch, Searching
  <2>5. QED
    BY <1>s, <2>1, <2>2, <2>3, <2>4 DEF Searching
<1>7. QED
  BY <1>1, <1>2, <1>4, <1>5, <1>6 DEF CachesIInv

LEMMA BeginListKeeps ==
  ASSUME CachesIInv, BeginList
  PROVE  CachesIInv'
<1> USE KeysThere
<1>0. CachesTypeOK /\ OneWriterHere /\ Stored /\ Listings /\ Searching
  BY DEF CachesIInv
<1>s. own' = own /\ heard' = heard /\ writing' = writing /\ hearing' = hearing /\ store' = store
  BY DEF BeginList, readsNothingElse, storeVars, busVars, tellVars
<1>1. CachesTypeOK'
  <2>1. reading' \in [Role -> Reads1]
    BY <1>0, FirstIsVersions DEF BeginList, Reads, Still, CachesTypeOK, Reads1
  <2> QED
    BY <1>0, <2>1 DEF BeginList, readsNothingElse, Reads, Still, storeVars, busVars, listingVars, syncVars,
       tellVars, CachesTypeOK, Writes, Reads1
<1>2. OneWriterHere'
  BY <1>0 DEF BeginList, readsNothingElse, Reads, Still, storeVars, busVars, listingVars, syncVars, tellVars,
     OneWriterHere, CachesTypeOK
<1>3. \A f \in Versions : Has(f) => HasAll(f, own', heard', writing', hearing')
  BY <1>s DEF Has
<1>4. Stored'
  <2>1. store' = store /\ versions' = versions /\ writing' = writing /\ Pending' = Pending /\ own' = own /\ heard' = heard
        /\ hearing' = hearing
    BY DEF BeginList, readsNothingElse, storeVars, busVars, tellVars, Pending
  <2>2. QED
    BY <1>0, <2>1 DEF Stored, Has
<1>5. Listings'
  BY <1>0, <1>3, <1>s DEF BeginList, Reads, Still, listingVars, Listings, Has, CachesTypeOK, Role
<1>6. Searching'
  BY <1>0, <1>3 DEF BeginList, readsNothingElse, Reads, Still, storeVars, busVars, listingVars, syncVars, tellVars,
     Searching, Listings, Stored, Has, AtLeast, CachesTypeOK, Versions, Role
<1>7. QED
  BY <1>1, <1>2, <1>4, <1>5, <1>6 DEF CachesIInv

LEMMA UseListingKeeps ==
  ASSUME CachesIInv, NEW x \in Role, UseListing(x)
  PROVE  CachesIInv'
<1> USE KeysThere
<1>0. CachesTypeOK /\ OneWriterHere /\ Stored /\ Listings /\ Searching
  BY DEF CachesIInv
<1>s. own' = own /\ heard' = heard /\ writing' = writing /\ hearing' = hearing /\ store' = store
  BY DEF UseListing, readsNothingElse, storeVars, busVars, tellVars
<1>1. CachesTypeOK'
  <2>1. reading' \in [Role -> Reads1]
    BY <1>0 DEF UseListing, readsNothingElse, Reads, Cached, CachesTypeOK, Reads1
  <2> QED
    BY <1>0, <2>1 DEF UseListing, readsNothingElse, Reads, Cached, storeVars, busVars, listingVars, syncVars,
       tellVars, CachesTypeOK, Writes, Reads1
<1>2. OneWriterHere'
  BY <1>0 DEF UseListing, readsNothingElse, Reads, Cached, storeVars, busVars, listingVars, syncVars, tellVars,
     OneWriterHere, CachesTypeOK
<1>3. \A f \in Versions : Has(f) => HasAll(f, own', heard', writing', hearing')
  BY <1>s DEF Has
<1>4. Stored'
  <2>1. store' = store /\ versions' = versions /\ writing' = writing /\ Pending' = Pending /\ own' = own /\ heard' = heard
        /\ hearing' = hearing
    BY DEF UseListing, readsNothingElse, storeVars, busVars, tellVars, Pending
  <2>2. QED
    BY <1>0, <2>1 DEF Stored, Has
<1>5. Listings'
  BY <1>0, <1>3, <1>s DEF UseListing, Reads, listingVars, Listings, Has, CachesTypeOK, Role
<1>6. Searching'
  <2>1. listing \in Versions /\ AtLeast(listing, own) /\ AtLeast(listing, heard)
    BY <1>0 DEF UseListing, Cached, Listings, Has, HasAll, CachesTypeOK
  <2>2. CASE x = "search"
    <3>1. LET r == reading["search"] q == reading'["search"] IN
          r.pc = "list" /\ q.pc = "apply" /\ q.read = listing /\ q.need = r.need /\ q.told = r.told
      BY <1>0, <2>2 DEF UseListing, Reads, CachesTypeOK, Role
    <3>2. AtLeast(listing, reading["search"].need) /\ AtLeast(listing, reading["search"].told)
      <4>1. /\ own \in Versions /\ reading["search"].need \in Versions
            /\ heard \in Versions /\ reading["search"].told \in Versions
        BY <1>0 DEF CachesTypeOK, Role
      <4>2. AtLeast(own, reading["search"].need) /\ AtLeast(heard, reading["search"].told)
        BY <1>0 DEF Searching
      <4>3. QED
        BY <2>1, <4>1, <4>2, AtLeastOnwards
    <3>3. QED
      BY <1>0, <1>s, <3>1, <3>2 DEF UseListing, syncVars, Searching
  <2>3. CASE x # "search"
    <3>1. reading'["search"] = reading["search"]
      BY <1>0, <2>3 DEF UseListing, Reads, CachesTypeOK, Role
    <3>2. QED
      BY <1>0, <1>s, <3>1 DEF UseListing, syncVars, Searching
  <2>4. QED
    BY <2>2, <2>3
<1>7. QED
  BY <1>1, <1>2, <1>4, <1>5, <1>6 DEF CachesIInv

LEMMA NoteGenerationKeeps ==
  ASSUME CachesIInv, NEW x \in Role, NoteGeneration(x)
  PROVE  CachesIInv'
<1> USE KeysThere
<1>0. CachesTypeOK /\ OneWriterHere /\ Stored /\ Listings /\ Searching
  BY DEF CachesIInv
<1>s. own' = own /\ heard' = heard /\ writing' = writing /\ hearing' = hearing /\ store' = store
  BY DEF NoteGeneration, readsNothingElse, storeVars, busVars, tellVars
<1>1. CachesTypeOK'
  <2>1. reading' \in [Role -> Reads1]
    BY <1>0 DEF NoteGeneration, readsNothingElse, Reads, CachesTypeOK, Reads1
  <2> QED
    BY <1>0, <2>1 DEF NoteGeneration, readsNothingElse, Reads, storeVars, busVars, listingVars, syncVars, tellVars,
       CachesTypeOK, Writes, Reads1
<1>2. OneWriterHere'
  BY <1>0 DEF NoteGeneration, readsNothingElse, Reads, storeVars, busVars, listingVars, syncVars, tellVars,
     OneWriterHere, CachesTypeOK
<1>3. \A f \in Versions : Has(f) => HasAll(f, own', heard', writing', hearing')
  BY <1>s DEF Has
<1>4. Stored'
  <2>1. store' = store /\ versions' = versions /\ writing' = writing /\ Pending' = Pending /\ own' = own /\ heard' = heard
        /\ hearing' = hearing
    BY DEF NoteGeneration, readsNothingElse, storeVars, busVars, tellVars, Pending
  <2>2. QED
    BY <1>0, <2>1 DEF Stored, Has
<1>5. Listings'
  BY <1>0, <1>3 DEF NoteGeneration, readsNothingElse, Reads, storeVars, busVars, listingVars, syncVars, tellVars,
     Listings, Stored, Has, CachesTypeOK, Role
<1>6. Searching'
  BY <1>0, <1>3 DEF NoteGeneration, readsNothingElse, Reads, storeVars, busVars, listingVars, syncVars, tellVars,
     Searching, Listings, Stored, Has, AtLeast, CachesTypeOK, Versions, Role
<1>7. QED
  BY <1>1, <1>2, <1>4, <1>5, <1>6 DEF CachesIInv

LEMMA ReadListingKeeps ==
  ASSUME CachesIInv, NEW x \in Role, ReadListing(x)
  PROVE  CachesIInv'
<1> USE KeysThere
<1>0. CachesTypeOK /\ OneWriterHere /\ Stored /\ Listings /\ Searching
  BY DEF CachesIInv
<1>s. own' = own /\ heard' = heard /\ writing' = writing /\ hearing' = hearing /\ store' = store
  BY DEF ReadListing, readsNothingElse, storeVars, busVars, tellVars
<1>1. CachesTypeOK'
  <2>1. reading' \in [Role -> Reads1]
    BY <1>0 DEF ReadListing, readsNothingElse, Reads, CachesTypeOK, Reads1
  <2> QED
    BY <1>0, <2>1 DEF ReadListing, readsNothingElse, Reads, storeVars, busVars, listingVars, syncVars, tellVars,
       CachesTypeOK, Writes, Reads1
<1>2. OneWriterHere'
  BY <1>0 DEF ReadListing, readsNothingElse, Reads, storeVars, busVars, listingVars, syncVars, tellVars,
     OneWriterHere, CachesTypeOK
<1>3. \A f \in Versions : Has(f) => HasAll(f, own', heard', writing', hearing')
  BY <1>s DEF Has
<1>4. Stored'
  <2>1. store' = store /\ versions' = versions /\ writing' = writing /\ Pending' = Pending /\ own' = own /\ heard' = heard
        /\ hearing' = hearing
    BY DEF ReadListing, readsNothingElse, storeVars, busVars, tellVars, Pending
  <2>2. QED
    BY <1>0, <2>1 DEF Stored, Has
<1>5. Listings'
  <2>1. Has(store) /\ store \in Versions
    BY <1>0 DEF Stored, CachesTypeOK
  <2>2. Has(store)'
    BY <1>3, <1>s, <2>1 DEF Has
  <2>3. reading'[x].read = store /\ \A y \in Role : y # x => reading'[y] = reading[y]
    BY <1>0 DEF ReadListing, Reads, CachesTypeOK
  <2>4. QED
    BY <1>0, <1>s, <2>1, <2>2, <2>3 DEF ReadListing, listingVars, Listings, Has
<1>6. Searching'
  <2>1. store \in Versions /\ AtLeast(store, own) /\ AtLeast(store, heard)
    BY <1>0 DEF Stored, Has, HasAll, CachesTypeOK
  <2>2. CASE x = "search"
    <3>1. LET r == reading["search"] q == reading'["search"] IN
          r.pc = "read" /\ q.pc = "keep" /\ q.read = store /\ q.need = r.need /\ q.told = r.told
      BY <1>0, <2>2 DEF ReadListing, Reads, CachesTypeOK, Role
    <3>2. AtLeast(store, reading["search"].need) /\ AtLeast(store, reading["search"].told)
      <4>1. /\ own \in Versions /\ reading["search"].need \in Versions
            /\ heard \in Versions /\ reading["search"].told \in Versions
        BY <1>0 DEF CachesTypeOK, Role
      <4>2. AtLeast(own, reading["search"].need) /\ AtLeast(heard, reading["search"].told)
        BY <1>0 DEF Searching
      <4>3. QED
        BY <2>1, <4>1, <4>2, AtLeastOnwards
    <3>3. QED
      BY <1>0, <1>s, <3>1, <3>2 DEF ReadListing, syncVars, Searching
  <2>3. CASE x # "search"
    <3>1. reading'["search"] = reading["search"]
      BY <1>0, <2>3 DEF ReadListing, Reads, CachesTypeOK, Role
    <3>2. QED
      BY <1>0, <1>s, <3>1 DEF ReadListing, syncVars, Searching
  <2>4. QED
    BY <2>2, <2>3
<1>7. QED
  BY <1>1, <1>2, <1>4, <1>5, <1>6 DEF CachesIInv

LEMMA KeepListingKeeps ==
  ASSUME CachesIInv, NEW x \in Role, KeepListing(x)
  PROVE  CachesIInv'
<1> USE KeysThere
<1>0. CachesTypeOK /\ OneWriterHere /\ Stored /\ Listings /\ Searching
  BY DEF CachesIInv
<1>s. own' = own /\ heard' = heard /\ writing' = writing /\ hearing' = hearing /\ store' = store
  BY DEF KeepListing, readsNothingElse, storeVars, busVars, tellVars
<1>1. CachesTypeOK'
  <2>1. reading' \in [Role -> Reads1]
    BY <1>0 DEF KeepListing, readsNothingElse, Reads, listingVars, CachesTypeOK, Reads1
  <2>2. listing' \in Versions \cup {NoListing}
    BY <1>0 DEF KeepListing, readsNothingElse, Reads, listingVars, storeVars, busVars, listingVars, syncVars,
       tellVars, CachesTypeOK, Writes, Reads1, Versions
  <2>3. young' \in BOOLEAN
    BY <1>0 DEF KeepListing, readsNothingElse, Reads, listingVars, storeVars, busVars, listingVars, syncVars,
       tellVars, CachesTypeOK, Writes, Reads1, Versions
  <2> QED
    BY <1>0, <2>1, <2>2, <2>3 DEF KeepListing, readsNothingElse, Reads, listingVars, storeVars, busVars,
       listingVars, syncVars, tellVars, CachesTypeOK, Writes, Reads1
<1>2. OneWriterHere'
  BY <1>0 DEF KeepListing, readsNothingElse, Reads, listingVars, storeVars, busVars, listingVars, syncVars,
     tellVars, OneWriterHere, CachesTypeOK
<1>3. \A f \in Versions : Has(f) => HasAll(f, own', heard', writing', hearing')
  BY <1>s DEF Has
<1>4. Stored'
  <2>1. store' = store /\ versions' = versions /\ writing' = writing /\ Pending' = Pending /\ own' = own /\ heard' = heard
        /\ hearing' = hearing
    BY DEF KeepListing, readsNothingElse, storeVars, busVars, tellVars, Pending
  <2>2. QED
    BY <1>0, <2>1 DEF Stored, Has
<1>5. Listings'
  <2>2. listing' # NoListing => Has(listing')
    BY <1>0 DEF KeepListing, listingVars, Listings
  <2>3. reading'[x].pc = "apply" /\ \A y \in Role : y # x => reading'[y] = reading[y]
    BY <1>0 DEF KeepListing, Reads, CachesTypeOK
  <2>4. QED
    BY <1>0, <1>s, <2>2, <2>3 DEF Listings, Has
<1>6. Searching'
  <2>1. CASE x = "search"
    <3>1. LET r == reading["search"] q == reading'["search"] IN
          r.pc = "keep" /\ q.pc = "apply" /\ q.read = r.read /\ q.need = r.need /\ q.told = r.told
      BY <1>0, <2>1 DEF KeepListing, Reads, CachesTypeOK, Role
    <3>2. QED
      BY <1>0, <1>s, <3>1 DEF KeepListing, syncVars, Searching
  <2>2. CASE x # "search"
    <3>1. reading'["search"] = reading["search"]
      BY <1>0, <2>2 DEF KeepListing, Reads, CachesTypeOK, Role
    <3>2. QED
      BY <1>0, <1>s, <3>1 DEF KeepListing, syncVars, Searching
  <2>3. QED
    BY <2>1, <2>2
<1>7. QED
  BY <1>1, <1>2, <1>4, <1>5, <1>6 DEF CachesIInv

LEMMA ApplyListingKeeps ==
  ASSUME CachesIInv, ApplyListing
  PROVE  CachesIInv'
<1> USE KeysThere
<1>0. CachesTypeOK /\ OneWriterHere /\ Stored /\ Listings /\ Searching
  BY DEF CachesIInv
<1>s. own' = own /\ heard' = heard /\ writing' = writing /\ hearing' = hearing /\ store' = store
  BY DEF ApplyListing, readsNothingElse, storeVars, busVars, tellVars
<1>1. CachesTypeOK'
  <2>1. reading' \in [Role -> Reads1]
    BY <1>0 DEF ApplyListing, readsNothingElse, Reads, CachesTypeOK, Reads1
  <2>2. rows' \in Versions
    BY <1>0 DEF ApplyListing, CachesTypeOK, Role
  <2>3. synced' \in BOOLEAN
    BY <1>0 DEF ApplyListing, readsNothingElse, Reads, storeVars, busVars, listingVars, syncVars, tellVars,
       CachesTypeOK, Writes, Reads1, Versions
  <2> QED
    BY <1>0, <2>1, <2>2, <2>3 DEF ApplyListing, readsNothingElse, Reads, storeVars, busVars, listingVars, syncVars,
       tellVars, CachesTypeOK, Writes, Reads1
<1>2. OneWriterHere'
  BY <1>0 DEF ApplyListing, readsNothingElse, Reads, storeVars, busVars, listingVars, syncVars, tellVars,
     OneWriterHere, CachesTypeOK
<1>3. \A f \in Versions : Has(f) => HasAll(f, own', heard', writing', hearing')
  BY <1>s DEF Has
<1>4. Stored'
  <2>1. store' = store /\ versions' = versions /\ writing' = writing /\ Pending' = Pending /\ own' = own /\ heard' = heard
        /\ hearing' = hearing
    BY DEF ApplyListing, readsNothingElse, storeVars, busVars, tellVars, Pending
  <2>2. QED
    BY <1>0, <2>1 DEF Stored, Has
<1>5. Listings'
  BY <1>0, <1>3 DEF ApplyListing, readsNothingElse, Reads, storeVars, busVars, listingVars, syncVars, tellVars,
     Listings, Stored, Has, CachesTypeOK, Role
<1>6. Searching'
  <2>1. LET r == reading["search"] q == reading'["search"] IN
        /\ r.pc = "apply" /\ q.pc = "answer" /\ q.need = r.need /\ q.told = r.told
        /\ rows' = r.read /\ stale' = stale
    BY <1>0 DEF ApplyListing, Reads, CachesTypeOK, Role
  <2>2. QED
    BY <1>0, <1>s, <2>1 DEF Searching
<1>7. QED
  BY <1>1, <1>2, <1>4, <1>5, <1>6 DEF CachesIInv

LEMMA EndSearchKeeps ==
  ASSUME CachesIInv, EndSearch
  PROVE  CachesIInv'
<1> USE KeysThere
<1>0. CachesTypeOK /\ OneWriterHere /\ Stored /\ Listings /\ Searching
  BY DEF CachesIInv
<1>s. own' = own /\ heard' = heard /\ writing' = writing /\ hearing' = hearing /\ store' = store
  BY DEF EndSearch, readsNothingElse, storeVars, busVars, tellVars
<1>1. CachesTypeOK'
  <2>1. reading' \in [Role -> Reads1]
    BY <1>0, StillIsAReader DEF EndSearch, Reads, CachesTypeOK, Reads1
  <2> QED
    BY <1>0, <2>1 DEF EndSearch, readsNothingElse, Reads, storeVars, busVars, listingVars, syncVars, tellVars,
       CachesTypeOK, Writes, Reads1
<1>2. OneWriterHere'
  BY <1>0 DEF EndSearch, readsNothingElse, Reads, storeVars, busVars, listingVars, syncVars, tellVars,
     OneWriterHere, CachesTypeOK
<1>3. \A f \in Versions : Has(f) => HasAll(f, own', heard', writing', hearing')
  BY <1>s DEF Has
<1>4. Stored'
  <2>1. store' = store /\ versions' = versions /\ writing' = writing /\ Pending' = Pending /\ own' = own /\ heard' = heard
        /\ hearing' = hearing
    BY DEF EndSearch, readsNothingElse, storeVars, busVars, tellVars, Pending
  <2>2. QED
    BY <1>0, <2>1 DEF Stored, Has
<1>5. Listings'
  <2>1. reading'["search"] = Still /\ \A y \in Role : y # "search" => reading'[y] = reading[y]
    BY <1>0 DEF EndSearch, Reads, CachesTypeOK, Role
  <2>2. QED
    BY <1>0, <1>s, <2>1, StillIsAReader DEF EndSearch, listingVars, Listings, Has
<1>6. Searching'
  <2>1. reading'["search"] = Still
    BY <1>0 DEF EndSearch, Reads, CachesTypeOK, Role
  <2>2. AtLeast(own, First) /\ AtLeast(heard, First)
    BY <1>0, FirstIsVersions DEF AtLeast, CachesTypeOK, Versions
  <2>3. synced /\ ~stale => AtLeast(rows, own) /\ AtLeast(rows, heard)
    BY <1>0 DEF EndSearch, Searching
  <2>4. QED
    BY <1>s, <2>1, <2>2, <2>3, StillIsAReader DEF EndSearch, syncVars, Searching
<1>7. QED
  BY <1>1, <1>2, <1>4, <1>5, <1>6 DEF CachesIInv

LEMMA EndListKeeps ==
  ASSUME CachesIInv, EndList
  PROVE  CachesIInv'
<1> USE KeysThere
<1>0. CachesTypeOK /\ OneWriterHere /\ Stored /\ Listings /\ Searching
  BY DEF CachesIInv
<1>s. own' = own /\ heard' = heard /\ writing' = writing /\ hearing' = hearing /\ store' = store
  BY DEF EndList, readsNothingElse, storeVars, busVars, tellVars
<1>1. CachesTypeOK'
  <2>1. reading' \in [Role -> Reads1]
    BY <1>0, StillIsAReader DEF EndList, Reads, CachesTypeOK, Reads1
  <2> QED
    BY <1>0, <2>1 DEF EndList, readsNothingElse, Reads, storeVars, busVars, listingVars, syncVars, tellVars,
       CachesTypeOK, Writes, Reads1
<1>2. OneWriterHere'
  BY <1>0 DEF EndList, readsNothingElse, Reads, storeVars, busVars, listingVars, syncVars, tellVars, OneWriterHere,
     CachesTypeOK
<1>3. \A f \in Versions : Has(f) => HasAll(f, own', heard', writing', hearing')
  BY <1>s DEF Has
<1>4. Stored'
  <2>1. store' = store /\ versions' = versions /\ writing' = writing /\ Pending' = Pending /\ own' = own /\ heard' = heard
        /\ hearing' = hearing
    BY DEF EndList, readsNothingElse, storeVars, busVars, tellVars, Pending
  <2>2. QED
    BY <1>0, <2>1 DEF Stored, Has
<1>5. Listings'
  <2>1. reading'["list"] = Still /\ \A y \in Role : y # "list" => reading'[y] = reading[y]
    BY <1>0 DEF EndList, Reads, CachesTypeOK, Role
  <2>2. QED
    BY <1>0, <1>s, <2>1, StillIsAReader DEF EndList, listingVars, Listings, Has
<1>6. Searching'
  <2>1. reading'["search"] = reading["search"]
    BY <1>0 DEF EndList, Reads, CachesTypeOK, Role
  <2>2. QED
    BY <1>0, <1>s, <2>1 DEF EndList, syncVars, Searching
<1>7. QED
  BY <1>1, <1>2, <1>4, <1>5, <1>6 DEF CachesIInv

LEMMA AgeKeeps ==
  ASSUME CachesIInv, Age
  PROVE  CachesIInv'
<1> USE KeysThere
<1>0. CachesTypeOK /\ OneWriterHere /\ Stored /\ Listings /\ Searching
  BY DEF CachesIInv
<1>s. own' = own /\ heard' = heard /\ writing' = writing /\ hearing' = hearing /\ store' = store
  BY DEF Age, readsNothingElse, storeVars, busVars, tellVars
<1>1. CachesTypeOK'
  <2>1. young' \in BOOLEAN
    BY <1>0 DEF Age, readsNothingElse, Reads, storeVars, busVars, listingVars, syncVars, tellVars, CachesTypeOK,
       Writes, Reads1, Versions
  <2> QED
    BY <1>0, <2>1 DEF Age, readsNothingElse, Reads, storeVars, busVars, listingVars, syncVars, tellVars,
       CachesTypeOK, Writes, Reads1
<1>2. OneWriterHere'
  BY <1>0 DEF Age, readsNothingElse, Reads, storeVars, busVars, listingVars, syncVars, tellVars, OneWriterHere,
     CachesTypeOK
<1>3. \A f \in Versions : Has(f) => HasAll(f, own', heard', writing', hearing')
  BY <1>s DEF Has
<1>4. Stored'
  <2>1. store' = store /\ versions' = versions /\ writing' = writing /\ Pending' = Pending /\ own' = own /\ heard' = heard
        /\ hearing' = hearing
    BY DEF Age, readsNothingElse, storeVars, busVars, tellVars, Pending
  <2>2. QED
    BY <1>0, <2>1 DEF Stored, Has
<1>5. Listings'
  BY <1>0, <1>3 DEF Age, readsNothingElse, Reads, storeVars, busVars, listingVars, syncVars, tellVars, Listings,
     Stored, Has, CachesTypeOK, Role
<1>6. Searching'
  BY <1>0, <1>3 DEF Age, readsNothingElse, Reads, storeVars, busVars, listingVars, syncVars, tellVars, Searching,
     Listings, Stored, Has, AtLeast, CachesTypeOK, Versions, Role
<1>7. QED
  BY <1>1, <1>2, <1>4, <1>5, <1>6 DEF CachesIInv

LEMMA UnthrottleKeeps ==
  ASSUME CachesIInv, Unthrottle
  PROVE  CachesIInv'
<1> USE KeysThere
<1>0. CachesTypeOK /\ OneWriterHere /\ Stored /\ Listings /\ Searching
  BY DEF CachesIInv
<1>s. own' = own /\ heard' = heard /\ writing' = writing /\ hearing' = hearing /\ store' = store
  BY DEF Unthrottle, readsNothingElse, storeVars, busVars, tellVars
<1>1. CachesTypeOK'
  <2>1. synced' \in BOOLEAN
    BY <1>0 DEF Unthrottle, readsNothingElse, Reads, storeVars, busVars, listingVars, syncVars, tellVars,
       CachesTypeOK, Writes, Reads1, Versions
  <2> QED
    BY <1>0, <2>1 DEF Unthrottle, readsNothingElse, Reads, storeVars, busVars, listingVars, syncVars, tellVars,
       CachesTypeOK, Writes, Reads1
<1>2. OneWriterHere'
  BY <1>0 DEF Unthrottle, readsNothingElse, Reads, storeVars, busVars, listingVars, syncVars, tellVars,
     OneWriterHere, CachesTypeOK
<1>3. \A f \in Versions : Has(f) => HasAll(f, own', heard', writing', hearing')
  BY <1>s DEF Has
<1>4. Stored'
  <2>1. store' = store /\ versions' = versions /\ writing' = writing /\ Pending' = Pending /\ own' = own /\ heard' = heard
        /\ hearing' = hearing
    BY DEF Unthrottle, readsNothingElse, storeVars, busVars, tellVars, Pending
  <2>2. QED
    BY <1>0, <2>1 DEF Stored, Has
<1>5. Listings'
  BY <1>0, <1>3 DEF Unthrottle, readsNothingElse, Reads, storeVars, busVars, listingVars, syncVars, tellVars,
     Listings, Stored, Has, CachesTypeOK, Role
<1>6. Searching'
  BY <1>0, <1>3 DEF Unthrottle, readsNothingElse, Reads, storeVars, busVars, listingVars, syncVars, tellVars,
     Searching, Listings, Stored, Has, AtLeast, CachesTypeOK, Versions, Role
<1>7. QED
  BY <1>1, <1>2, <1>4, <1>5, <1>6 DEF CachesIInv

LEMMA CachesIInvStays == CachesIInv /\ [CachesNext]_cachesVars => CachesIInv'
<1> SUFFICES ASSUME CachesIInv, [CachesNext]_cachesVars PROVE CachesIInv'
  OBVIOUS
<1>1. CASE UNCHANGED cachesVars
  BY <1>1 DEF cachesVars, storeVars, busVars, listingVars, syncVars, tellVars, CachesIInv, CachesTypeOK,
     OneWriterHere,
     Stored,
              Has, HasAll, AtLeast, Pending, Listings, Searching
<1>2. QED
  BY <1>1, StoreKeeps, RefuseKeeps, PatchKeeps, WroteKeeps, AnnounceKeeps, SendKeeps, HearKeeps, HeardKeeps,
     AgeKeeps,
     UnthrottleKeeps, BeginSearchKeeps, BeginListKeeps, ApplyListingKeeps, EndSearchKeeps, EndListKeeps, UseListingKeeps,
     NoteGenerationKeeps, ReadListingKeeps, KeepListingKeeps DEF CachesNext

LEMMA CachesInvFollows == CachesIInv => CachesInv
BY DEF CachesIInv, Searching, CachesInv, OwnWritesShown, HeardShown, Answers, AtLeast

(* A search has what its own server had written when it began, though listings read before the write end after  *)
(* it, and what its server had been told of: for any number of writes, lost, delayed and dropped changes, as     *)
(* long as each object that this server writes is written by one writer.                                         *)
THEOREM WritesShown == CachesSpec /\ OneWriterHere => []CachesInv
<1>1. CachesSpec /\ OneWriterHere => []CachesIInv
  BY CachesInitHolds, CachesIInvStays, PTL DEF CachesSpec
<1>2. QED
  BY <1>1, CachesInvFollows, PTL

-----------------------------------------------------------------------------
(* The theorem about Layouts: for any layouts, archives, requests, people's edits and stops, what was     *)
(* replaced is saved, what people write is theirs, a layout is whole and so is an export.                 *)

FillStep == {"old", "list", "save", "compare", "put", "remove"}
Fill == [kind : {"fill"}, step : FillStep, force : BOOLEAN, layout : Layout \cup {NoFile}, welcome : BOOLEAN,
         old : Text \cup {NoFile}, seen : SUBSET VaultKey, todo : Seq(VaultKey), views : Seq(View), drop : Seq(View)]
Intake == [kind : {"import"}, step : {"put"}, seen : [VaultKey -> Text \cup {NoFile}], todo : SUBSET DOMAIN Archive]
Zip == [kind : {"export"}, step : {"read", "zipped"}, todo : SUBSET VaultKey, got : SUBSET Text,
        stay : SUBSET (VaultKey \X Text)]
Job == {NoJob} \cup Fill \cup Intake \cup Zip
Past == [replaced : Text \cup {NoFile}, laid : Layout \cup {NoFile}, crossed : BOOLEAN, cut : BOOLEAN]

Naming == Layout \cup {Unknown}

(* What a layout that is being written has at each step.                                                  *)
Shaped(j) ==
  /\ j.old # NoFile => j.old.of \in Naming
  /\ j.step = "old" => j.drop = <<>>
  /\ j.step # "old" => j.layout \in Layout /\ Range(j.drop) \cap Range(ViewsOf[j.layout]) = {}
  /\ j.step = "list" => j.drop = <<>>
  /\ j.step = "save" => Saves(j) /\ j.drop = <<>>
  /\ j.step = "compare" => j.force /\ j.views # <<>>
  /\ j.step = "remove" => j.drop # <<>> /\ j.todo = <<>>
  /\ j.drop # <<>> => j.force
  /\ j.step \in {"save", "compare", "put"} =>
       /\ j.todo # <<>> /\ Range(j.todo) \subseteq {SchemaKey, WelcomeKey} \cup View
       /\ SchemaKey \notin Range(Tail(j.todo)) /\ (j.step # "put" => Head(j.todo) = SchemaKey)

LayoutsTypes ==
  /\ held \in [VaultKey -> Text \cup {NoFile}] /\ mine \in [VaultKey -> Text \cup {NoFile}]
  /\ work \in [Hand -> Job]
  /\ jobs \in 0..MaxJobs /\ edits \in 0..MaxEdits /\ stops \in 0..MaxStops
  /\ removed \subseteq VaultKey /\ past \in Past
  /\ held[SchemaKey] # NoFile => held[SchemaKey].of \in Naming
  /\ \A h \in Hand : work[h].kind = "fill" => Shaped(work[h])

(* What stays where an export listed it was read, or is yet to be read, from there.                       *)
Whole(j) ==
  /\ \A e \in j.stay : held[e[1]] \in {e[2], NoFile} /\ (e[1] \in j.todo \/ e[2] \in j.got)
  /\ j.step = "zipped" => j.todo = {}
Exported == \A h \in Hand : work[h].kind = "export" => Whole(work[h])

(* What a view is compared with is no edit of anybody, so that nothing of theirs is removed.              *)
Owned ==
  /\ OwnKept /\ mine[PreviousKey] = NoFile
  /\ \A k \in VaultKey : mine[k] # NoFile => mine[k].edit # 0
  /\ \A h \in Hand : work[h].kind = "fill" => \A k \in Range(work[h].drop) : mine[k] = NoFile

(* As long as two different layouts never ran at once: they are all about one, and about one schema.      *)
OneLayout == \A h, g \in Hand : Filling(h) /\ Filling(g) => work[h].layout = work[g].layout
OneOld == \A h, g \in Hand :
  SchemaAhead(h) /\ SchemaAhead(g) =>
    work[h].old = work[g].old \/ Template(work[h].layout) \in {work[h].old, work[g].old}

(* The schema is the one that was read, or another request's new one, and it is saved.                    *)
AsRead(h) ==
  SchemaAhead(h) =>
    /\ held[SchemaKey] \in {work[h].old, Template(work[h].layout)}
    /\ work[h].step \in {"compare", "put"} /\ Saves(work[h]) => held[PreviousKey] = work[h].old
SavedFirst == SchemaSaved /\ \A h \in Hand : AsRead(h)

(* What a layout found and what it put is there, but for what people removed; what it removes is of a     *)
(* layout that is no longer the vault's.                                                                  *)
Stays(h) == \A k \in Range(ViewsOf[work[h].layout]) \ removed :
  k \in work[h].seen \/ k \notin Range(work[h].todo) => held[k] # NoFile
Progressed == \A h \in Hand : work[h].kind = "fill" /\ work[h].step \notin {"old", "list"} => Stays(h)
LaidFirst == \A h \in Hand :
  work[h].kind = "fill" /\ work[h].force /\ work[h].step \in {"put", "remove"} /\ ~SchemaAhead(h)
    => past.laid \in {work[h].layout, NoFile}
WholeElse ==
  ~past.cut /\ past.laid # NoFile /\ (\A h \in Hand : Filling(h) => work[h].layout # past.laid)
    => \A k \in Range(ViewsOf[past.laid]) \ removed : held[k] # NoFile

OneAtATime == past.crossed \/ (OneLayout /\ OneOld /\ SavedFirst /\ Progressed /\ LaidFirst /\ WholeElse)

LayoutsIInv == LayoutsTypes /\ Exported /\ Owned /\ OneAtATime
-----------------------------------------------------------------------------
LEMMA Follows == LayoutsIInv => LayoutsInv
<1> SUFFICES ASSUME LayoutsIInv PROVE LayoutsInv
  OBVIOUS
<1>1. \A h \in Hand : work[h].kind \in {"none", "fill", "import", "export"}
  BY DEF LayoutsIInv, LayoutsTypes, Job, Fill, Intake, Zip, NoJob
<1>2. LayoutsTypeOK
  BY <1>1 DEF LayoutsIInv, LayoutsTypes, LayoutsTypeOK
<1>3. SchemaSaved
  BY DEF LayoutsIInv, OneAtATime, SavedFirst, SchemaSaved
<1>4. LayoutWhole
  BY DEF LayoutsIInv, OneAtATime, WholeElse, LayoutWhole, Filling
<1>5. OwnKept
  BY DEF LayoutsIInv, Owned
<1>6. ExportWhole
  BY DEF LayoutsIInv, Exported, Whole, ExportWhole
<1>7. QED
  BY <1>2, <1>3, <1>4, <1>5, <1>6 DEF LayoutsInv

LEMMA SequenceRest ==
  ASSUME NEW S, NEW s \in Seq(S), s # <<>>
  PROVE  /\ Head(s) \in S /\ Tail(s) \in Seq(S) /\ Range(s) = {Head(s)} \cup Range(Tail(s)) /\ Range(s) \subseteq S
         /\ (Len(s) > 1) = (Tail(s) # <<>>)
<1>1. Head(s) \in S /\ Tail(s) \in Seq(S) /\ Len(s) \in Nat \ {0} /\ Len(Tail(s)) = Len(s) - 1
      /\ \A i \in 1..Len(Tail(s)) : Tail(s)[i] = s[i + 1]
  OBVIOUS
<1>2. DOMAIN s = 1..Len(s) /\ DOMAIN Tail(s) = 1..(Len(s) - 1) /\ Head(s) = s[1]
  BY <1>1
<1>3. ASSUME NEW i \in 1..Len(s) PROVE s[i] \in {Head(s)} \cup Range(Tail(s))
  <2>1. CASE i = 1
    BY <1>2, <2>1
  <2>2. CASE i # 1
    <3>1. i - 1 \in 1..(Len(s) - 1)
      BY <1>1, <2>2
    <3>2. s[i] = Tail(s)[i - 1]
      BY <1>1, <3>1
    <3>3. Tail(s)[i - 1] \in Range(Tail(s))
      BY <1>2, <3>1 DEF Range
    <3>4. QED
      BY <3>2, <3>3
  <2>3. QED
    BY <2>1, <2>2
<1>4. ASSUME NEW i \in 1..(Len(s) - 1) PROVE Tail(s)[i] \in Range(s)
  <2>1. i + 1 \in 1..Len(s) /\ Tail(s)[i] = s[i + 1]
    BY <1>1, <1>2
  <2>2. QED
    BY <1>2, <2>1 DEF Range
<1>5. Head(s) \in Range(s)
  BY <1>1, <1>2 DEF Range
<1>6. Range(s) = {Head(s)} \cup Range(Tail(s)) /\ Range(s) \subseteq S
  <2>1. \A i \in 1..Len(s) : s[i] \in S
    OBVIOUS
  <2>2. QED
    BY <1>2, <1>3, <1>4, <1>5, <2>1 DEF Range
<1>7. (Len(s) > 1) = (Tail(s) # <<>>)
  <2>1. PICK t \in Seq(S) : t = Tail(s)
    BY <1>1
  <2>2. t = <<>> <=> Len(t) = 0
    OBVIOUS
  <2>3. QED
    BY <1>1, <2>1, <2>2
<1>8. QED
  BY <1>1, <1>6, <1>7

LEMMA SequenceMore ==
  ASSUME NEW S, NEW s \in Seq(S), NEW x \in S
  PROVE  Append(s, x) \in Seq(S) /\ Range(Append(s, x)) = Range(s) \cup {x}
<1>1. Append(s, x) \in Seq(S) /\ DOMAIN s = 1..Len(s) /\ Len(s) \in Nat
      /\ DOMAIN Append(s, x) = 1..(Len(s) + 1) /\ Append(s, x)[Len(s) + 1] = x
      /\ \A i \in 1..Len(s) : Append(s, x)[i] = s[i]
  OBVIOUS
<1>2. \A i \in 1..(Len(s) + 1) : i \in 1..Len(s) \/ i = Len(s) + 1
  BY <1>1
<1>3. 1..Len(s) \subseteq 1..(Len(s) + 1) /\ Len(s) + 1 \in 1..(Len(s) + 1)
  BY <1>1
<1>4. QED
  BY <1>1, <1>2, <1>3 DEF Range

LEMMA EmptyRange == Range(<<>>) = {}
  BY DEF Range

(* The keys are of different kinds, and a layout's views are views.                                       *)
LEMMA KeyFacts ==
  /\ SchemaKey \in VaultKey /\ PreviousKey \in VaultKey /\ View \subseteq VaultKey /\ Note \subseteq VaultKey
  /\ SchemaKey # PreviousKey /\ SchemaKey \notin View /\ PreviousKey \notin View /\ WelcomeKey \notin View
  /\ WelcomeKey \in VaultKey /\ WelcomeKey \notin {SchemaKey, PreviousKey}
  /\ SchemaKey \notin Note /\ PreviousKey \notin Note /\ View \cap Note = {}
  /\ \A p \in Layout : ViewsOf[p] \in Seq(View) /\ Range(ViewsOf[p]) \subseteq View
<1>1. \A p \in Layout : Range(ViewsOf[p]) \subseteq View
  BY DEF View
<1>2. QED
  BY <1>1, LayoutsAssumption DEF LayoutsAssumption, VaultKey

LEMMA NoFileFacts == NoFile \notin Layout /\ NoFile # Unknown /\ NoFile \notin Text
                     /\ \A p \in Layout : Template(p) \in Text /\ Template(p).of = p /\ Template(p).edit = 0
  BY LayoutsAssumption DEF LayoutsAssumption, Text, Template

LEMMA PlanFacts ==
  ASSUME NEW j \in Fill, j.layout \in Layout
  PROVE  /\ Plan(j) \in Seq(VaultKey) /\ Plan(j) # <<>> /\ Head(Plan(j)) = SchemaKey
         /\ Range(Plan(j)) \subseteq {SchemaKey, WelcomeKey} \cup View /\ SchemaKey \notin Range(Tail(Plan(j)))
         /\ Range(ViewsOf[j.layout]) \subseteq Range(Plan(j))
<1>1. PICK v \in Seq(View) : v = ViewsOf[j.layout]
  BY KeyFacts
<1>2. PICK e \in Seq({WelcomeKey}) : e = (IF j.welcome THEN <<WelcomeKey>> ELSE <<>>)
  <2>1. <<WelcomeKey>> \in Seq({WelcomeKey}) /\ <<>> \in Seq({WelcomeKey})
    OBVIOUS
  <2>2. QED
    BY <2>1
<1>3. PICK t : t = v \o e
  OBVIOUS
<1>4. t \in Seq({WelcomeKey} \cup View) /\ Len(t) = Len(v) + Len(e) /\ Len(v) \in Nat /\ Len(e) \in Nat
      /\ (\A i \in 1..Len(v) : t[i] = v[i])
  BY <1>3
<1>5. PICK s : s = <<SchemaKey>> \o t
  OBVIOUS
<1>6. Plan(j) = s
  <2>1. Plan(j) = <<SchemaKey>> \o v \o e
    BY <1>1, <1>2 DEF Plan
  <2>2. (<<SchemaKey>> \o v) \o e = <<SchemaKey>> \o (v \o e)
    <3>1. <<SchemaKey>> \in Seq({SchemaKey})
      OBVIOUS
    <3>2. QED
      BY <3>1
  <2>3. QED
    BY <1>3, <1>5, <2>1, <2>2
<1>7. s \in Seq({SchemaKey, WelcomeKey} \cup View) /\ s # <<>> /\ Head(s) = SchemaKey /\ Tail(s) = t
  BY <1>4, <1>5
<1>8. Range(s) = {SchemaKey} \cup Range(t) /\ Range(s) \subseteq {SchemaKey, WelcomeKey} \cup View
  BY <1>7, SequenceRest
<1>9. Range(t) \subseteq {WelcomeKey} \cup View
  BY <1>4 DEF Range
<1>10. Range(v) \subseteq Range(t)
  <2>1. DOMAIN v = 1..Len(v) /\ DOMAIN t = 1..Len(t) /\ 1..Len(v) \subseteq 1..Len(t)
    BY <1>4
  <2>2. QED
    BY <1>4, <2>1 DEF Range
<1>11. s \in Seq(VaultKey)
  BY <1>7 DEF VaultKey
<1>12. SchemaKey \notin Range(t)
  BY <1>9, KeyFacts
<1>13. QED
  BY <1>1, <1>6, <1>7, <1>8, <1>10, <1>11, <1>12

(* What a request is at, by its kind.                                                                     *)
LEMMA WorkFacts ==
  ASSUME LayoutsTypes, NEW h \in Hand
  PROVE  /\ work[h].kind = "fill" => work[h] \in Fill /\ Shaped(work[h])
         /\ work[h].kind = "import" => work[h] \in Intake
         /\ work[h].kind = "export" => work[h] \in Zip
         /\ work[h].kind \notin {"fill", "import", "export"} => work[h] = NoJob
         /\ Filling(h) => work[h] \in Fill /\ Shaped(work[h]) /\ work[h].layout \in Layout
<1>1. work[h] \in Job
  BY DEF LayoutsTypes
<1>2. NoJob.kind = "none" /\ (\A j \in Fill : j.kind = "fill") /\ (\A j \in Intake : j.kind = "import")
      /\ \A j \in Zip : j.kind = "export"
  BY DEF NoJob, Fill, Intake, Zip
<1>3. QED
  BY <1>1, <1>2 DEF LayoutsTypes, Job, Filling, Shaped

LEMMA NoJobKind == NoJob.kind = "none" /\ NoJob \in Job
  BY DEF NoJob, Job

-----------------------------------------------------------------------------
(* Whoever does not move goes on as it was, but that an export has less to answer for.                    *)
GoesOn(h) == work'[h].kind = work[h].kind /\ (work[h].kind # "export" => work'[h] = work[h])
Stands == [VaultKey -> Text \cup {NoFile}]

LEMMA WatchedFacts ==
  ASSUME LayoutsTypes, Exported, NEW f \in Stands, NEW w, w = Watched(f), held' = f
  PROVE  /\ w \in [Hand -> Job]
         /\ \A g \in Hand : w[g].kind = work[g].kind /\ (work[g].kind # "export" => w[g] = work[g])
         /\ \A g \in Hand : w[g].kind = "export" => (Whole(w[g]))'
<1>1. /\ DOMAIN w = Hand
      /\ \A g \in Hand : work[g].kind # "export" => w[g] = work[g]
      /\ \A g \in Hand : work[g].kind = "export" =>
           w[g] = [work[g] EXCEPT !.stay = {e \in @ : f[e[1]] \in {e[2], NoFile} /\ \E k \in VaultKey : f[k] = e[2]}]
  BY DEF Watched
<1>2. w = [g \in Hand |-> w[g]]
  BY DEF Watched
<1>3. ASSUME NEW g \in Hand, work[g].kind = "export"
      PROVE  w[g] \in Job /\ w[g].kind = "export" /\ (Whole(w[g]))'
  <2>1. work[g] \in Zip /\ Whole(work[g])
    BY <1>3, WorkFacts DEF Exported
  <2>2. PICK stay : stay = {e \in work[g].stay : f[e[1]] \in {e[2], NoFile} /\ \E k \in VaultKey : f[k] = e[2]}
    OBVIOUS
  <2>3. stay \in SUBSET (VaultKey \X Text)
    BY <2>1, <2>2 DEF Zip
  <2>4. w[g] = [work[g] EXCEPT !.stay = stay]
    BY <1>1, <1>3, <2>2
  <2>5. /\ w[g] \in Zip /\ w[g].kind = "export" /\ w[g].stay = stay /\ w[g].todo = work[g].todo
        /\ w[g].got = work[g].got /\ w[g].step = work[g].step
    BY <2>1, <2>3, <2>4 DEF Zip
  <2>6. (Whole(w[g]))'
    BY <2>1, <2>2, <2>5 DEF Whole
  <2>7. QED
    BY <2>5, <2>6 DEF Job
<1>4. \A g \in Hand : work[g].kind # "export" => w[g] \in Job
  BY <1>1 DEF LayoutsTypes
<1>5. QED
  BY <1>1, <1>2, <1>3, <1>4

LEMMA GoesToFacts ==
  ASSUME LayoutsTypes, Exported, NEW h \in Hand, NEW j \in Job, GoesTo(h, j), UNCHANGED held,
         j.kind = "export" => Whole(j)
  PROVE  /\ work' \in [Hand -> Job] /\ work'[h] = j /\ (\A g \in Hand \ {h} : GoesOn(g) /\ work'[g] = work[g])
         /\ Exported'
<1>1. work' \in [Hand -> Job] /\ work'[h] = j /\ \A g \in Hand \ {h} : work'[g] = work[g]
  BY DEF GoesTo, LayoutsTypes
<1>2. \A g \in Hand : work'[g].kind = "export" => Whole(work'[g])
  BY <1>1 DEF Exported
<1>3. Exported'
  BY <1>2 DEF Exported, Whole
<1>4. QED
  BY <1>1, <1>3 DEF GoesOn

LEMMA StoresFacts ==
  ASSUME LayoutsTypes, Exported, NEW h \in Hand, NEW j \in Job, NEW k \in VaultKey, NEW t \in Text \cup {NoFile},
         Stores(h, k, t, j), j.kind # "export"
  PROVE  /\ work' \in [Hand -> Job] /\ work'[h] = j /\ (\A g \in Hand \ {h} : GoesOn(g))
         /\ held' \in Stands /\ held'[k] = t /\ (\A x \in VaultKey \ {k} : held'[x] = held[x])
         /\ Exported'
<1>1. PICK f : f = [held EXCEPT ![k] = t]
  OBVIOUS
<1>2. PICK w : w = Watched(f)
  OBVIOUS
<1>3. held' = f /\ work' = [w EXCEPT ![h] = j]
  BY <1>1, <1>2 DEF Stores
<1>4. f \in Stands /\ f[k] = t /\ \A x \in VaultKey \ {k} : f[x] = held[x]
  <2>1. held \in Stands
    BY DEF LayoutsTypes, Stands
  <2>2. QED
    BY <1>1, <2>1 DEF Stands
<1>5. /\ w \in [Hand -> Job]
      /\ \A g \in Hand : w[g].kind = work[g].kind /\ (work[g].kind # "export" => w[g] = work[g])
      /\ \A g \in Hand : w[g].kind = "export" => (Whole(w[g]))'
  BY <1>2, <1>3, <1>4, WatchedFacts
<1>6. work' \in [Hand -> Job] /\ work'[h] = j /\ \A g \in Hand \ {h} : work'[g] = w[g]
  BY <1>3, <1>5
<1>7. \A g \in Hand \ {h} : GoesOn(g)
  BY <1>5, <1>6 DEF GoesOn
<1>8. Exported'
  <2> SUFFICES ASSUME NEW g \in Hand, work'[g].kind = "export" PROVE Whole(work[g])'
    BY DEF Exported
  <2>1. g # h /\ work'[g] = w[g]
    BY <1>6
  <2>2. (Whole(w[g]))'
    BY <1>5, <2>1
  <2>3. QED
    BY <2>1, <2>2 DEF Whole
<1>9. QED
  BY <1>3, <1>4, <1>6, <1>7, <1>8

LEMMA BecomesFacts ==
  ASSUME LayoutsTypes, Exported, NEW f \in Stands, held' = f, work' = Watched(f)
  PROVE  work' \in [Hand -> Job] /\ (\A g \in Hand : GoesOn(g)) /\ held' \in Stands /\ Exported'
<1>1. PICK w : w = Watched(f)
  OBVIOUS
<1>2. /\ w \in [Hand -> Job]
      /\ \A g \in Hand : w[g].kind = work[g].kind /\ (work[g].kind # "export" => w[g] = work[g])
      /\ \A g \in Hand : w[g].kind = "export" => (Whole(w[g]))'
  BY <1>1, WatchedFacts
<1>3. Exported'
  <2> SUFFICES ASSUME NEW g \in Hand, work'[g].kind = "export" PROVE Whole(work[g])'
    BY DEF Exported
  <2>1. work'[g] = w[g] /\ (Whole(w[g]))'
    BY <1>1, <1>2
  <2>2. QED
    BY <2>1 DEF Whole
<1>4. QED
  BY <1>1, <1>2, <1>3 DEF GoesOn

-----------------------------------------------------------------------------
(* What a step has to answer for, besides what it does to its own request.                                *)
LEMMA TypesHolds ==
  ASSUME LayoutsTypes, NEW moving \in SUBSET Hand, \A g \in Hand \ moving : GoesOn(g), work' \in [Hand -> Job],
         \A g \in moving : work'[g].kind = "fill" => Shaped(work'[g]),
         held' \in Stands, held'[SchemaKey] # NoFile => held'[SchemaKey].of \in Naming, mine' \in Stands,
         jobs' \in 0..MaxJobs, edits' \in 0..MaxEdits, stops' \in 0..MaxStops, removed' \subseteq VaultKey, past' \in Past
  PROVE  LayoutsTypes'
<1>1. \A g \in Hand : work'[g].kind = "fill" => Shaped(work'[g])
  BY DEF LayoutsTypes, GoesOn
<1>2. (\A h \in Hand : work[h].kind = "fill" => Shaped(work[h]))'
  BY <1>1 DEF Shaped, Saves, Template
<1>3. QED
  BY <1>2 DEF LayoutsTypes, Stands

LEMMA OwnedHolds ==
  ASSUME LayoutsTypes, Owned, NEW moving \in SUBSET Hand, \A g \in Hand \ moving : GoesOn(g),
         \A g \in moving : work'[g].kind = "fill" => \A k \in Range(work'[g].drop) : mine'[k] = NoFile,
         \A k \in VaultKey : mine'[k] # NoFile => held'[k] = mine'[k] /\ mine'[k].edit # 0,
         mine'[PreviousKey] = NoFile,
         \A k \in View : mine[k] = NoFile /\ mine'[k] # NoFile => ~Doomed(k)
  PROVE  Owned'
<1>1. ASSUME NEW g \in Hand, work'[g].kind = "fill", NEW k \in Range(work'[g].drop) PROVE mine'[k] = NoFile
  <2>1. CASE g \in moving
    BY <1>1, <2>1
  <2>2. CASE g \notin moving
    <3>1. work[g].kind = "fill" /\ work'[g] = work[g]
      BY <1>1, <2>2 DEF GoesOn
    <3>2. k \in View
      <4>1. work[g].drop \in Seq(View)
        BY <3>1, WorkFacts DEF Fill
      <4>2. PICK s \in Seq(View) : s = work[g].drop
        BY <4>1
      <4>3. Range(s) \subseteq View
        BY DEF Range
      <4>4. QED
        BY <1>1, <3>1, <4>2, <4>3
    <3>3. mine[k] = NoFile /\ Doomed(k)
      BY <1>1, <3>1 DEF Owned, Doomed
    <3>4. QED
      BY <3>2, <3>3
  <2>3. QED
    BY <2>1, <2>2
<1>2. OwnKept'
  BY DEF OwnKept
<1>3. QED
  BY <1>1, <1>2 DEF Owned

(* What happens beside the layouts that are being written: the schema may change only by what then counts *)
(* as crossing them, and no view is lost but by people.                                                   *)
LEMMA BesideHolds ==
  ASSUME LayoutsTypes, OneAtATime, held' \in Stands, work' \in [Hand -> Job],
         \A g \in Hand : work'[g].kind = "fill" => work'[g] = work[g] \/ work'[g].step = "old",
         \A g \in Hand : Filling(g) => work'[g] = work[g] \/ past'.cut,
         past.crossed => past'.crossed, past.cut => past'.cut, past'.laid \in {past.laid, NoFile},
         past'.crossed \/ \A g \in Hand : ~SchemaAhead(g) \/ held'[SchemaKey] = held[SchemaKey],
         \/ held'[PreviousKey] = held[PreviousKey] /\ past'.replaced = past.replaced
         \/ past'.replaced = NoFile /\ (past'.crossed \/ \A g \in Hand : ~SchemaAhead(g)),
         \A k \in View \ removed' : held'[k] # NoFile \/ (k \notin removed /\ held[k] = NoFile)
  PROVE  OneAtATime'
<1> SUFFICES ASSUME ~past'.crossed
             PROVE  OneLayout' /\ OneOld' /\ SavedFirst' /\ Progressed' /\ LaidFirst' /\ WholeElse'
  BY DEF OneAtATime
<1>0. OneLayout /\ OneOld /\ SavedFirst /\ Progressed /\ LaidFirst /\ WholeElse
  BY DEF OneAtATime
<1>1. \A g \in Hand : Filling(g)' => Filling(g) /\ work'[g] = work[g]
  BY DEF Filling
<1>2. \A g \in Hand : SchemaAhead(g)' => SchemaAhead(g) /\ work'[g] = work[g]
  BY <1>1 DEF SchemaAhead
<1>3. \A g \in Hand : Filling(g) => work[g].layout \in Layout /\ Range(ViewsOf[work[g].layout]) \subseteq View
  BY WorkFacts, KeyFacts
<1>4. OneLayout'
  BY <1>0, <1>1 DEF OneLayout
<1>5. OneOld'
  BY <1>0, <1>2 DEF OneOld, Template
<1>6. SavedFirst'
  <2>1. SchemaSaved'
    BY <1>0 DEF SavedFirst, SchemaSaved
  <2>2. ASSUME NEW g \in Hand, SchemaAhead(g)' PROVE AsRead(g)'
    <3>1. SchemaAhead(g) /\ work'[g] = work[g] /\ AsRead(g)
      BY <1>0, <1>2, <2>2 DEF SavedFirst
    <3>2. held'[SchemaKey] = held[SchemaKey] /\ held'[PreviousKey] = held[PreviousKey]
      BY <3>1
    <3>3. QED
      BY <3>1, <3>2 DEF AsRead, Saves, Template
  <2>3. \A g \in Hand : AsRead(g)'
    BY <2>2 DEF AsRead
  <2>4. QED
    BY <2>1, <2>3 DEF SavedFirst
<1>7. Progressed'
  <2> SUFFICES ASSUME NEW g \in Hand, (work[g].kind = "fill" /\ work[g].step \notin {"old", "list"})'
               PROVE  Stays(g)'
    BY DEF Progressed
  <2>1. work'[g] = work[g] /\ Stays(g) /\ Filling(g)
    BY <1>0, <1>1 DEF Progressed, Filling
  <2>2. QED
    BY <1>3, <2>1 DEF Stays
<1>8. LaidFirst'
  <2> SUFFICES ASSUME NEW g \in Hand,
                      (work[g].kind = "fill" /\ work[g].force /\ work[g].step \in {"put", "remove"} /\ ~SchemaAhead(g))'
               PROVE  past'.laid \in {work'[g].layout, NoFile}
    BY DEF LaidFirst
  <2>1. Filling(g)'
    BY DEF Filling
  <2>2. work'[g] = work[g] /\ Filling(g)
    BY <1>1, <2>1
  <2>3. ~SchemaAhead(g)
    BY <2>2 DEF SchemaAhead, Filling
  <2>4. past.laid \in {work[g].layout, NoFile}
    BY <1>0, <2>2, <2>3 DEF LaidFirst
  <2>5. QED
    BY <2>2, <2>4
<1>9. WholeElse'
  <2> SUFFICES ASSUME ~past'.cut, past'.laid # NoFile, \A h \in Hand : Filling(h)' => work'[h].layout # past'.laid,
                      NEW k \in Range(ViewsOf[past'.laid]) \ removed'
               PROVE  held'[k] # NoFile
    BY DEF WholeElse
  <2>1. past'.laid = past.laid /\ past.laid # NoFile /\ ~past.cut
    OBVIOUS
  <2>2. \A h \in Hand : Filling(h) => Filling(h)' /\ work'[h] = work[h]
    BY DEF Filling
  <2>3. \A x \in Range(ViewsOf[past.laid]) \ removed : held[x] # NoFile
    BY <1>0, <2>1, <2>2 DEF WholeElse
  <2>4. past.laid \in Layout
    BY <2>1 DEF LayoutsTypes, Past
  <2>5. k \in View
    BY <2>1, <2>4, KeyFacts
  <2>6. QED
    BY <2>1, <2>3, <2>5
<1>10. QED
  BY <1>4, <1>5, <1>6, <1>7, <1>8, <1>9

(* A request that stays at its layout, or ends there, and changes no schema.                              *)
LEMMA SameLayoutHolds ==
  ASSUME LayoutsTypes, OneAtATime, ~past.crossed, NEW h \in Hand, Filling(h), \A g \in Hand \ {h} : GoesOn(g),
         \/ work'[h].kind # "fill"
         \/ /\ work'[h].kind = "fill" /\ work'[h].layout = work[h].layout /\ work'[h].old = work[h].old
            /\ SchemaAhead(h)' => SchemaAhead(h)
  PROVE  /\ OneLayout' /\ OneOld' /\ \A g \in Hand \ {h} : Filling(g)' => Filling(g) /\ work'[g] = work[g]
         /\ \A g \in Hand \ {h} : SchemaAhead(g)' => SchemaAhead(g) /\ work'[g] = work[g]
<1>0. OneLayout /\ OneOld
  BY DEF OneAtATime
<1>1. \A g \in Hand \ {h} : Filling(g)' => Filling(g) /\ work'[g] = work[g]
  BY DEF Filling, GoesOn
<1>2. \A g \in Hand \ {h} : SchemaAhead(g)' => SchemaAhead(g) /\ work'[g] = work[g]
  BY <1>1 DEF SchemaAhead
<1>3. \A g \in Hand : Filling(g)' => Filling(g) /\ work'[g].layout = work[g].layout
  BY <1>1 DEF Filling
<1>4. \A g \in Hand : SchemaAhead(g)' => SchemaAhead(g) /\ work'[g].old = work[g].old
                                         /\ work'[g].layout = work[g].layout
  BY <1>2 DEF SchemaAhead, Filling
<1>5. OneLayout'
  BY <1>0, <1>3 DEF OneLayout
<1>6. OneOld'
  BY <1>0, <1>4 DEF OneOld, Template
<1>7. QED
  BY <1>1, <1>2, <1>5, <1>6

-----------------------------------------------------------------------------
(* A request that begins, or that is none for a layout, and stores nothing.                               *)
LEMMA ReadsHolds ==
  ASSUME LayoutsIInv, NEW h \in Hand, NEW j \in Job, GoesTo(h, j), UNCHANGED <<held, edits, stops, mine, removed, past>>,
         jobs' \in 0..MaxJobs, ~Filling(h), j.kind = "fill" => Shaped(j) /\ j.step = "old",
         j.kind = "export" => Whole(j)
  PROVE  LayoutsIInv'
<1>0. LayoutsTypes /\ Exported /\ Owned /\ OneAtATime
  BY DEF LayoutsIInv
<1>1. /\ work' \in [Hand -> Job] /\ work'[h] = j /\ (\A g \in Hand \ {h} : GoesOn(g) /\ work'[g] = work[g])
      /\ Exported'
  BY <1>0, GoesToFacts
<1>2. /\ held' \in Stands /\ mine' \in Stands /\ past' \in Past /\ removed' \subseteq VaultKey
      /\ edits' \in 0..MaxEdits /\ stops' \in 0..MaxStops
      /\ held'[SchemaKey] # NoFile => held'[SchemaKey].of \in Naming
  BY <1>0 DEF LayoutsTypes, Stands
<1>3. {h} \in SUBSET Hand /\ \A g \in Hand \ {h} : GoesOn(g)
  BY <1>1
<1>4. LayoutsTypes'
  BY <1>0, <1>1, <1>2, <1>3, TypesHolds
<1>5. Owned'
  <2>1. j.kind = "fill" => Range(j.drop) = {}
    BY EmptyRange DEF Shaped
  <2>2. \A k \in VaultKey : mine'[k] # NoFile => held'[k] = mine'[k] /\ mine'[k].edit # 0
    BY <1>0 DEF Owned, OwnKept
  <2>3. mine'[PreviousKey] = NoFile /\ \A k \in View : mine'[k] = mine[k]
    BY <1>0 DEF Owned
  <2>4. \A g \in {h} : work'[g].kind = "fill" => \A k \in Range(work'[g].drop) : mine'[k] = NoFile
    BY <1>1, <2>1
  <2>5. QED
    BY <1>0, <1>3, <2>2, <2>3, <2>4, OwnedHolds
<1>6. OneAtATime'
  <2>1. \A g \in Hand : work'[g].kind = "fill" => work'[g] = work[g] \/ work'[g].step = "old"
    BY <1>1
  <2>2. \A g \in Hand : Filling(g) => work'[g] = work[g] \/ past'.cut
    BY <1>1 DEF Filling
  <2>3. held' = held /\ past' = past /\ removed' = removed
    OBVIOUS
  <2>4. QED
    BY <1>0, <1>1, <1>2, <2>1, <2>2, <2>3, BesideHolds
<1>7. QED
  BY <1>1, <1>4, <1>5, <1>6 DEF LayoutsIInv

LEMMA AsksHolds ==
  ASSUME LayoutsIInv, NEW h \in Hand, Asks(h)
  PROVE  LayoutsIInv'
<1>0. LayoutsTypes
  BY DEF LayoutsIInv
<1>1. PICK force \in BOOLEAN, wanted \in Layout \cup {NoFile}, welcome \in BOOLEAN :
        Initialize(h, force, wanted, welcome)
  <2>1. CASE OpenEmpty(h)
    BY <2>1 DEF OpenEmpty
  <2>2. CASE \E p \in Layout : CreateVault(h, p)
    BY <2>2 DEF CreateVault
  <2>3. CASE \E p \in Layout : SwitchLayout(h, p)
    <3>1. PICK p \in Layout : Initialize(h, Named # NoFile, p, Named = NoFile)
      BY <2>3 DEF SwitchLayout
    <3>2. (Named # NoFile) \in BOOLEAN /\ (Named = NoFile) \in BOOLEAN
      OBVIOUS
    <3>3. PICK force \in BOOLEAN, welcome \in BOOLEAN : force = (Named # NoFile) /\ welcome = (Named = NoFile)
      BY <3>2
    <3>4. Initialize(h, force, p, welcome)
      BY <3>1, <3>3
    <3>5. QED
      BY <3>4
  <2>4. CASE \E force \in BOOLEAN, wanted \in Layout \cup {NoFile} :
               CommandInit(h, force, wanted) \/ ToolInit(h, force, wanted)
    BY <2>4 DEF CommandInit, ToolInit
  <2>5. QED
    BY <2>1, <2>2, <2>3, <2>4 DEF Asks
<1>2. PICK j : j = [kind |-> "fill", step |-> "old", force |-> force, layout |-> wanted, welcome |-> welcome,
                    old |-> NoFile, seen |-> {}, todo |-> <<>>, views |-> <<>>, drop |-> <<>>]
  OBVIOUS
<1>3. TakesUp(h, j) /\ UNCHANGED <<held, edits, stops, mine, removed, past>>
  BY <1>1, <1>2 DEF Initialize
<1>4. j \in Fill /\ j.kind = "fill" /\ j.step = "old" /\ j.drop = <<>> /\ j.old = NoFile
  <2>1. "old" \in FillStep /\ <<>> \in Seq(VaultKey) /\ <<>> \in Seq(View) /\ {} \in SUBSET VaultKey
    BY DEF FillStep
  <2>2. QED
    BY <1>2, <2>1 DEF Fill
<1>5. Shaped(j)
  BY <1>4 DEF Shaped
<1>6. GoesTo(h, j) /\ jobs' \in 0..MaxJobs /\ work[h].kind # "fill"
  <2>1. GoesTo(h, j) /\ jobs < MaxJobs /\ jobs' = jobs + 1 /\ work[h] = NoJob
    BY <1>3 DEF TakesUp
  <2>2. jobs' \in 0..MaxJobs
    BY <1>0, <2>1, LayoutsAssumption DEF LayoutsTypes, LayoutsAssumption
  <2>3. QED
    BY <2>1, <2>2, NoJobKind
<1>7. j \in Job
  BY <1>4 DEF Job
<1>8. QED
  BY <1>3, <1>4, <1>5, <1>6, <1>7, ReadsHolds DEF Filling

(* Imports and exports, but for what an import stores.                                                    *)
LEMMA TransfersReadHolds ==
  ASSUME LayoutsIInv, NEW h \in Hand,
         \/ Import(h) \/ Export(h) \/ ExportSent(h)
         \/ work[h].kind = "import" /\ \E k \in work[h].todo : ImportSame(h, k) \/ ImportFails(h, k)
         \/ work[h].kind = "export" /\ \E k \in work[h].todo : ExportRead(h, k)
  PROVE  LayoutsIInv'
<1>0. LayoutsTypes /\ Exported /\ held \in Stands /\ jobs \in 0..MaxJobs /\ MaxJobs \in Nat
  BY LayoutsAssumption DEF LayoutsIInv, LayoutsTypes, Stands, LayoutsAssumption
<1>1. CASE Import(h)
  <2>1. PICK j : j = [kind |-> "import", step |-> "put", seen |-> held, todo |-> DOMAIN Archive]
    OBVIOUS
  <2>2. j \in Intake /\ j.kind = "import"
    BY <1>0, <2>1 DEF Intake, Stands
  <2>3. GoesTo(h, j) /\ jobs' \in 0..MaxJobs /\ work[h].kind # "fill"
    BY <1>0, <1>1, <2>1, NoJobKind DEF Import, TakesUp
  <2>4. QED
    BY <1>1, <2>2, <2>3, ReadsHolds DEF Import, Job, Filling
<1>2. CASE Export(h)
  <2>1. PICK stay : stay = {<<k, held[k]>> : k \in There}
    OBVIOUS
  <2>2. There \subseteq VaultKey /\ stay \in SUBSET (VaultKey \X Text)
    BY <1>0, <2>1 DEF There, Stands
  <2>3. PICK j : j = [kind |-> "export", step |-> IF There = {} THEN "zipped" ELSE "read", todo |-> There, got |-> {},
                      stay |-> stay]
    OBVIOUS
  <2>4. j \in Zip /\ j.kind = "export"
    BY <2>2, <2>3 DEF Zip
  <2>5. Whole(j)
    BY <2>1, <2>3 DEF Whole
  <2>6. GoesTo(h, j) /\ jobs' \in 0..MaxJobs /\ work[h].kind # "fill"
    BY <1>0, <1>2, <2>1, <2>3, NoJobKind DEF Export, TakesUp
  <2>7. QED
    BY <1>2, <2>4, <2>5, <2>6, ReadsHolds DEF Export, Job, Filling
<1>3. CASE ExportSent(h)
  BY <1>0, <1>3, NoJobKind, ReadsHolds DEF ExportSent, Filling
<1>4. CASE work[h].kind = "import" /\ \E k \in work[h].todo : ImportSame(h, k) \/ ImportFails(h, k)
  <2>1. work[h] \in Intake
    BY <1>0, <1>4, WorkFacts
  <2>2. PICK k \in work[h].todo : ImportSame(h, k) \/ ImportFails(h, k)
    BY <1>4
  <2>3. ImportDone(h, k) \in Job /\ ImportDone(h, k).kind \in {"none", "import"}
    <3>1. CASE work[h].todo = {k}
      BY <3>1, NoJobKind DEF ImportDone
    <3>2. CASE work[h].todo # {k}
      BY <2>1, <3>2 DEF ImportDone, Intake, Job
    <3>3. QED
      BY <3>1, <3>2
  <2>4. PICK j \in Job : j.kind \in {"none", "import"} /\ GoesTo(h, j)
    BY <2>2, <2>3, NoJobKind DEF ImportSame, ImportFails
  <2>5. UNCHANGED <<held, jobs, edits, stops, mine, removed, past>>
    BY <2>2 DEF ImportSame, ImportFails
  <2>6. QED
    BY <1>0, <1>4, <2>4, <2>5, ReadsHolds DEF Filling
<1>5. CASE work[h].kind = "export" /\ \E k \in work[h].todo : ExportRead(h, k)
  <2>1. work[h] \in Zip /\ Whole(work[h])
    BY <1>0, <1>5, WorkFacts DEF Exported
  <2>2. PICK k \in work[h].todo : ExportRead(h, k)
    BY <1>5
  <2>3. PICK j : j = (IF held[k] = NoFile THEN NoJob ELSE Zipped(work[h], k, held[k]))
    OBVIOUS
  <2>4. j \in Job /\ (j.kind = "fill" => FALSE) /\ (j.kind = "export" => Whole(j))
    <3>1. CASE held[k] = NoFile
      BY <2>3, <3>1, NoJobKind
    <3>2. CASE held[k] # NoFile
      <4>1. k \in VaultKey /\ held[k] \in Text
        BY <1>0, <2>1, <3>2 DEF Zip, Stands
      <4>2. /\ j \in Zip /\ j.kind = "export" /\ j.todo = work[h].todo \ {k} /\ j.got = work[h].got \cup {held[k]}
            /\ j.stay = work[h].stay /\ (j.step = "zipped" => work[h].todo = {k} \/ work[h].step = "zipped")
        BY <2>1, <2>3, <3>2, <4>1 DEF Zipped, Zip
      <4>3. Whole(j)
        <5>1. \A e \in j.stay : held[e[1]] \in {e[2], NoFile} /\ (e[1] \in j.todo \/ e[2] \in j.got)
          BY <2>1, <3>2, <4>2 DEF Whole
        <5>2. j.step = "zipped" => j.todo = {}
          BY <2>1, <4>2 DEF Whole
        <5>3. QED
          BY <5>1, <5>2 DEF Whole
      <4>4. QED
        BY <4>2, <4>3 DEF Job
    <3>3. QED
      BY <3>1, <3>2
  <2>5. QED
    BY <1>0, <1>5, <2>2, <2>3, <2>4, ReadsHolds DEF ExportRead, Filling
<1>6. QED
  BY <1>1, <1>2, <1>3, <1>4, <1>5

LEMMA StopHolds ==
  ASSUME LayoutsIInv, NEW h \in Hand, Stop(h)
  PROVE  LayoutsIInv'
<1>0. LayoutsTypes /\ Exported /\ Owned /\ OneAtATime
  BY DEF LayoutsIInv
<1>1. /\ work[h] # NoJob /\ GoesTo(h, NoJob) /\ stops < MaxStops /\ stops' = stops + 1
      /\ UNCHANGED <<held, jobs, edits, mine, removed>>
  BY DEF Stop
<1>2. past' \in Past /\ past' = [past EXCEPT !.cut = past'.cut] /\ (past.cut => past'.cut)
      /\ (work[h].kind = "fill" => past'.cut)
  <2>1. past \in Past
    BY <1>0 DEF LayoutsTypes
  <2>2. PICK c \in BOOLEAN : c = (past.cut \/ work[h].kind = "fill")
    BY <2>1 DEF Past
  <2>3. past' = [past EXCEPT !.cut = c]
    BY <2>2 DEF Stop
  <2>4. QED
    BY <2>1, <2>2, <2>3 DEF Past
<1>3. /\ work' \in [Hand -> Job] /\ work'[h] = NoJob /\ (\A g \in Hand \ {h} : GoesOn(g) /\ work'[g] = work[g])
      /\ Exported'
  BY <1>0, <1>1, NoJobKind, GoesToFacts
<1>4. past'.crossed = past.crossed /\ past'.laid = past.laid /\ past'.replaced = past.replaced
  BY <1>0, <1>2 DEF LayoutsTypes, Past
<1>5. /\ held' \in Stands /\ mine' \in Stands /\ removed' \subseteq VaultKey
      /\ jobs' \in 0..MaxJobs /\ edits' \in 0..MaxEdits /\ stops' \in 0..MaxStops
      /\ held'[SchemaKey] # NoFile => held'[SchemaKey].of \in Naming
  BY <1>0, <1>1, LayoutsAssumption DEF LayoutsTypes, Stands, LayoutsAssumption
<1>6. {h} \in SUBSET Hand /\ \A g \in Hand \ {h} : GoesOn(g)
  BY <1>3
<1>7. LayoutsTypes'
  BY <1>0, <1>2, <1>3, <1>5, <1>6, NoJobKind, TypesHolds
<1>8. Owned'
  <2>1. \A k \in VaultKey : mine'[k] # NoFile => held'[k] = mine'[k] /\ mine'[k].edit # 0
    BY <1>0, <1>1 DEF Owned, OwnKept
  <2>2. mine'[PreviousKey] = NoFile /\ \A k \in View : mine'[k] = mine[k]
    BY <1>0, <1>1 DEF Owned
  <2>3. QED
    BY <1>0, <1>3, <1>6, <2>1, <2>2, NoJobKind, OwnedHolds
<1>9. OneAtATime'
  <2>1. \A g \in Hand : work'[g].kind = "fill" => work'[g] = work[g] \/ work'[g].step = "old"
    BY <1>3, NoJobKind
  <2>2. \A g \in Hand : Filling(g) => work'[g] = work[g] \/ past'.cut
    BY <1>2, <1>3 DEF Filling
  <2>3. held' = held /\ removed' = removed
    BY <1>1
  <2>4. QED
    BY <1>0, <1>2, <1>3, <1>4, <1>5, <2>1, <2>2, <2>3, BesideHolds
<1>10. QED
  BY <1>3, <1>7, <1>8, <1>9 DEF LayoutsIInv

-----------------------------------------------------------------------------
(* What people do, in the vault's folder or over WebDAV.                                                  *)
LEMMA EditHolds ==
  ASSUME LayoutsIInv, NEW f \in Stands, held' = f, work' = Watched(f), Edit,
         f[PreviousKey] = held[PreviousKey], f[SchemaKey] # NoFile => f[SchemaKey].of \in Naming,
         past' \in Past, past'.cut = past.cut, past'.replaced = past.replaced, past.crossed => past'.crossed,
         past'.laid \in {past.laid, NoFile}, removed' \subseteq VaultKey, mine' \in Stands,
         past'.crossed \/ \A g \in Hand : ~SchemaAhead(g) \/ f[SchemaKey] = held[SchemaKey],
         \A k \in VaultKey : mine'[k] # NoFile => f[k] = mine'[k] /\ mine'[k].edit # 0,
         mine'[PreviousKey] = NoFile,
         \A k \in View : mine[k] = NoFile /\ mine'[k] # NoFile => ~Doomed(k),
         \A k \in View \ removed' : f[k] # NoFile \/ (k \notin removed /\ held[k] = NoFile)
  PROVE  LayoutsIInv'
<1>0. LayoutsTypes /\ Exported /\ Owned /\ OneAtATime
  BY DEF LayoutsIInv
<1>1. work' \in [Hand -> Job] /\ (\A g \in Hand : GoesOn(g)) /\ held' \in Stands /\ Exported'
  BY <1>0, BecomesFacts
<1>2. jobs' \in 0..MaxJobs /\ edits' \in 0..MaxEdits /\ stops' \in 0..MaxStops
  BY <1>0, LayoutsAssumption DEF Edit, LayoutsTypes, LayoutsAssumption
<1>3. {} \in SUBSET Hand /\ \A g \in Hand \ {} : GoesOn(g)
  BY <1>1
<1>4. LayoutsTypes'
  BY <1>0, <1>1, <1>2, <1>3, TypesHolds
<1>5. Owned'
  BY <1>0, <1>3, OwnedHolds
<1>6. \A g \in Hand : work'[g].kind = "fill" => work'[g] = work[g] \/ work'[g].step = "old"
  BY <1>1 DEF GoesOn
<1>7. \A g \in Hand : Filling(g) => work'[g] = work[g] \/ past'.cut
  BY <1>1 DEF GoesOn, Filling
<1>8. OneAtATime'
  BY <1>0, <1>1, <1>6, <1>7, BesideHolds
<1>9. QED
  BY <1>1, <1>4, <1>5, <1>8 DEF LayoutsIInv

LEMMA SchemaEditedFacts ==
  ASSUME LayoutsTypes, NEW t \in Text \cup {NoFile}, NEW p, p = SchemaEdited(t)
  PROVE  /\ p \in Past /\ p.cut = past.cut /\ p.replaced = past.replaced /\ (past.crossed => p.crossed)
         /\ p.laid \in {past.laid, NoFile} /\ (p.crossed \/ \A g \in Hand : ~SchemaAhead(g))
<1>1. past \in Past
  BY DEF LayoutsTypes
<1>2. PICK laid \in Layout \cup {NoFile} :
        laid = (IF t # NoFile /\ t.of = past.laid THEN past.laid ELSE NoFile) /\ laid \in {past.laid, NoFile}
  BY <1>1 DEF Past
<1>3. PICK crossed \in BOOLEAN : crossed = (past.crossed \/ \E x \in Hand : SchemaAhead(x))
  BY <1>1 DEF Past
<1>4. p = [past EXCEPT !.laid = laid, !.crossed = crossed]
  BY <1>2, <1>3 DEF SchemaEdited
<1>5. p \in Past /\ p.laid = laid /\ p.crossed = crossed /\ p.cut = past.cut /\ p.replaced = past.replaced
  BY <1>1, <1>4 DEF Past
<1>6. QED
  BY <1>2, <1>3, <1>5

LEMMA PeopleHolds ==
  ASSUME LayoutsIInv, People
  PROVE  LayoutsIInv'
<1>0. LayoutsTypes /\ Exported /\ Owned /\ OneAtATime
  BY DEF LayoutsIInv
<1>1. /\ held \in Stands /\ mine \in Stands /\ past \in Past /\ edits \in Nat /\ removed \subseteq VaultKey
      /\ held[SchemaKey] # NoFile => held[SchemaKey].of \in Naming
  BY <1>0, LayoutsAssumption DEF LayoutsTypes, Stands, LayoutsAssumption
<1>2. /\ \A k \in VaultKey : mine[k] # NoFile => held[k] = mine[k] /\ mine[k].edit # 0
      /\ mine[PreviousKey] = NoFile
  BY <1>0 DEF Owned, OwnKept
<1>3. NoFile \notin Text
  BY NoFileFacts
<1>4. ASSUME NEW k \in View \cup Note, WriteFile(k) PROVE LayoutsIInv'
  <2>1. PICK t \in Text : t = ByHand(edits + 1) /\ t.edit # 0
    <3>1. PICK n \in Nat : n = edits + 1 /\ n # 0
      BY <1>1
    <3>2. PICK t : t = [of |-> Anything, edit |-> n]
      OBVIOUS
    <3>3. t \in Text /\ t.edit # 0
      BY <3>1, <3>2 DEF Text
    <3>4. QED
      BY <3>1, <3>2, <3>3 DEF ByHand
  <2>2. PICK f : f = [held EXCEPT ![k] = t]
    OBVIOUS
  <2>3. k \in VaultKey /\ k # PreviousKey /\ k # SchemaKey
    BY KeyFacts
  <2>4. f \in Stands /\ f[k] = t /\ \A x \in VaultKey \ {k} : f[x] = held[x]
    BY <1>1, <2>2, <2>3 DEF Stands
  <2>5. held' = f /\ work' = Watched(f) /\ Edit /\ past' = past /\ removed' = removed \ {k}
    BY <1>4, <2>1, <2>2 DEF WriteFile, Becomes
  <2>6. PICK m \in {t, NoFile} : mine' = [mine EXCEPT ![k] = m] /\ (m # NoFile => ~Doomed(k))
    BY <1>4, <2>1 DEF WriteFile
  <2>7. mine' \in Stands /\ mine'[k] = m /\ \A x \in VaultKey \ {k} : mine'[x] = mine[x]
    BY <1>1, <2>3, <2>6 DEF Stands
  <2>8. \A x \in VaultKey : mine'[x] # NoFile => f[x] = mine'[x] /\ mine'[x].edit # 0
    BY <1>2, <2>1, <2>4, <2>6, <2>7
  <2>9. mine'[PreviousKey] = NoFile /\ f[PreviousKey] = held[PreviousKey] /\ f[SchemaKey] = held[SchemaKey]
    BY <1>2, <2>3, <2>4, <2>7, KeyFacts
  <2>10. \A x \in View : mine[x] = NoFile /\ mine'[x] # NoFile => ~Doomed(x)
    BY <2>6, <2>7, KeyFacts
  <2>11. \A x \in View \ removed' : f[x] # NoFile \/ (x \notin removed /\ held[x] = NoFile)
    BY <1>3, <2>1, <2>4, <2>5, KeyFacts
  <2>12. removed' \subseteq VaultKey
    BY <1>1, <2>5
  <2>13. QED
    BY <1>1, <2>4, <2>5, <2>7, <2>8, <2>9, <2>10, <2>11, <2>12, EditHolds
<1>5. ASSUME NEW p \in {Named, Unknown} \ {NoFile}, EditSchema(p) PROVE LayoutsIInv'
  <2>1. p \in Naming
    BY <1>1, <1>5 DEF Named, Naming
  <2>2. PICK t \in Text : t = [of |-> p, edit |-> edits + 1] /\ t.edit # 0 /\ t.of = p
    <3>1. PICK n \in Nat : n = edits + 1 /\ n # 0
      BY <1>1
    <3>2. PICK t : t = [of |-> p, edit |-> n]
      OBVIOUS
    <3>3. t \in Text /\ t.edit # 0 /\ t.of = p
      BY <2>1, <3>1, <3>2 DEF Text, Naming
    <3>4. QED
      BY <3>1, <3>2, <3>3
  <2>3. PICK f : f = [held EXCEPT ![SchemaKey] = t]
    OBVIOUS
  <2>4. f \in Stands /\ f[SchemaKey] = t /\ \A x \in VaultKey \ {SchemaKey} : f[x] = held[x]
    BY <1>1, <2>3, KeyFacts DEF Stands
  <2>5. held' = f /\ work' = Watched(f) /\ Edit /\ past' = SchemaEdited(t) /\ removed' = removed \ {SchemaKey}
    BY <1>5, <2>2, <2>3 DEF EditSchema, Becomes
  <2>6. mine' \in Stands /\ mine'[SchemaKey] = t /\ \A x \in VaultKey \ {SchemaKey} : mine'[x] = mine[x]
    BY <1>1, <1>5, <2>2, KeyFacts DEF Stands, EditSchema
  <2>7. \A x \in VaultKey : mine'[x] # NoFile => f[x] = mine'[x] /\ mine'[x].edit # 0
    BY <1>2, <2>2, <2>4, <2>6
  <2>8. mine'[PreviousKey] = NoFile /\ f[PreviousKey] = held[PreviousKey] /\ \A x \in View : mine'[x] = mine[x]
    BY <1>2, <2>4, <2>6, KeyFacts
  <2>9. \A x \in View \ removed' : f[x] # NoFile \/ (x \notin removed /\ held[x] = NoFile)
    BY <2>4, <2>5, KeyFacts
  <2>10. /\ past' \in Past /\ past'.cut = past.cut /\ past'.replaced = past.replaced /\ (past.crossed => past'.crossed)
         /\ past'.laid \in {past.laid, NoFile} /\ (past'.crossed \/ \A g \in Hand : ~SchemaAhead(g))
    BY <1>0, <2>5, SchemaEditedFacts
  <2>11. removed' \subseteq VaultKey /\ (f[SchemaKey] # NoFile => f[SchemaKey].of \in Naming)
    BY <1>1, <2>1, <2>2, <2>4, <2>5
  <2>12. QED
    BY <2>4, <2>5, <2>6, <2>7, <2>8, <2>9, <2>10, <2>11, EditHolds
<1>6. ASSUME NEW k \in VaultKey \ {PreviousKey}, DeleteFile(k) PROVE LayoutsIInv'
  <2>1. PICK f : f = [held EXCEPT ![k] = NoFile]
    OBVIOUS
  <2>2. f \in Stands /\ f[k] = NoFile /\ \A x \in VaultKey \ {k} : f[x] = held[x]
    BY <1>1, <2>1 DEF Stands
  <2>3. held' = f /\ work' = Watched(f) /\ Edit /\ removed' = removed \cup {k}
    BY <1>6, <2>1 DEF DeleteFile, Becomes
  <2>4. mine' \in Stands /\ mine'[k] = NoFile /\ \A x \in VaultKey \ {k} : mine'[x] = mine[x]
    BY <1>1, <1>6 DEF Stands, DeleteFile
  <2>5. \A x \in VaultKey : mine'[x] # NoFile => f[x] = mine'[x] /\ mine'[x].edit # 0
    BY <1>2, <2>2, <2>4
  <2>6. mine'[PreviousKey] = NoFile /\ f[PreviousKey] = held[PreviousKey]
        /\ \A x \in View : mine[x] = NoFile => mine'[x] = NoFile
    BY <1>2, <2>2, <2>4, KeyFacts
  <2>7. \A x \in View \ removed' : f[x] # NoFile \/ (x \notin removed /\ held[x] = NoFile)
    BY <2>2, <2>3, KeyFacts
  <2>8. /\ past' \in Past /\ past'.cut = past.cut /\ past'.replaced = past.replaced /\ (past.crossed => past'.crossed)
        /\ past'.laid \in {past.laid, NoFile}
        /\ past'.crossed \/ \A g \in Hand : ~SchemaAhead(g) \/ f[SchemaKey] = held[SchemaKey]
    <3>1. CASE k = SchemaKey
      <4>1. past' = SchemaEdited(NoFile)
        BY <1>6, <3>1 DEF DeleteFile
      <4>2. QED
        BY <1>0, <4>1, SchemaEditedFacts
    <3>2. CASE k # SchemaKey
      <4>1. past' = past /\ f[SchemaKey] = held[SchemaKey]
        BY <1>6, <2>2, <3>2, KeyFacts DEF DeleteFile
      <4>2. QED
        BY <1>1, <4>1
    <3>3. QED
      BY <3>1, <3>2
  <2>9. removed' \subseteq VaultKey /\ (f[SchemaKey] # NoFile => f[SchemaKey].of \in Naming)
    BY <1>1, <2>2, <2>3, KeyFacts
  <2>10. QED
    BY <2>2, <2>3, <2>4, <2>5, <2>6, <2>7, <2>8, <2>9, EditHolds
<1>7. ASSUME NEW k \in Note, NEW to \in Note \ {k}, MoveNote(k, to) PROVE LayoutsIInv'
  <2>1. PICK f : f = [held EXCEPT ![k] = NoFile, ![to] = held[k]]
    OBVIOUS
  <2>2. k \in VaultKey /\ to \in VaultKey /\ k \notin View /\ to \notin View /\ {k, to} \cap {SchemaKey, PreviousKey} = {}
    BY KeyFacts
  <2>3. f \in Stands /\ f[k] = NoFile /\ f[to] = held[k] /\ \A x \in VaultKey \ {k, to} : f[x] = held[x]
    BY <1>1, <2>1, <2>2 DEF Stands
  <2>4. held' = f /\ work' = Watched(f) /\ Edit /\ removed' = removed \cup {k} /\ past' = past
    BY <1>7, <2>1 DEF MoveNote
  <2>5. /\ mine' \in Stands /\ mine'[k] = NoFile /\ mine'[to] = mine[k]
        /\ \A x \in VaultKey \ {k, to} : mine'[x] = mine[x]
    <3>1. mine' = [mine EXCEPT ![k] = NoFile, ![to] = mine[k]]
      BY <1>7 DEF MoveNote
    <3>2. QED
      BY <1>1, <2>2, <3>1 DEF Stands
  <2>6. \A x \in VaultKey : mine'[x] # NoFile => f[x] = mine'[x] /\ mine'[x].edit # 0
    BY <1>2, <2>2, <2>3, <2>5
  <2>7. mine'[PreviousKey] = NoFile /\ f[PreviousKey] = held[PreviousKey] /\ f[SchemaKey] = held[SchemaKey]
        /\ \A x \in View : mine'[x] = mine[x] /\ f[x] = held[x]
    BY <1>2, <2>2, <2>3, <2>5, KeyFacts
  <2>8. \A x \in View \ removed' : f[x] # NoFile \/ (x \notin removed /\ held[x] = NoFile)
    BY <2>4, <2>7
  <2>9. removed' \subseteq VaultKey
    BY <1>1, <2>2, <2>4
  <2>10. QED
    BY <1>1, <2>3, <2>4, <2>5, <2>6, <2>7, <2>8, <2>9, EditHolds
<1>8. QED
  BY <1>4, <1>5, <1>6, <1>7 DEF People

LEMMA ImportPutHolds ==
  ASSUME LayoutsIInv, NEW h \in Hand, work[h].kind = "import", NEW k \in work[h].todo, ImportPut(h, k)
  PROVE  LayoutsIInv'
<1>0. LayoutsTypes /\ Exported /\ Owned /\ OneAtATime
  BY DEF LayoutsIInv
<1>1. /\ work[h] \in Intake /\ held \in Stands /\ mine \in Stands /\ past \in Past /\ removed \subseteq VaultKey
      /\ held[SchemaKey] # NoFile => held[SchemaKey].of \in Naming
  BY <1>0, WorkFacts DEF LayoutsTypes, Stands
<1>2. PICK t \in Text : t = Archive[k] /\ k \in VaultKey /\ (k = SchemaKey => t.of \in Naming)
  <2>1. k \in DOMAIN Archive
    BY <1>1 DEF Intake
  <2>2. QED
    BY <2>1, LayoutsAssumption DEF LayoutsAssumption, Naming
<1>3. PICK j \in Job : j = ImportDone(h, k) /\ j.kind \in {"none", "import"}
  <2>1. ImportDone(h, k) \in Job /\ ImportDone(h, k).kind \in {"none", "import"}
    <3>1. CASE work[h].todo = {k}
      BY <3>1, NoJobKind DEF ImportDone
    <3>2. CASE work[h].todo # {k}
      BY <1>1, <3>2 DEF ImportDone, Intake, Job
    <3>3. QED
      BY <3>1, <3>2
  <2>2. QED
    BY <2>1
<1>4. /\ Stores(h, k, t, j) /\ mine' = [mine EXCEPT ![k] = NoFile] /\ removed' = removed \ {k}
      /\ UNCHANGED <<jobs, edits, stops>>
  BY <1>2, <1>3 DEF ImportPut
<1>5. /\ work' \in [Hand -> Job] /\ work'[h] = j /\ (\A g \in Hand \ {h} : GoesOn(g))
      /\ held' \in Stands /\ held'[k] = t /\ (\A x \in VaultKey \ {k} : held'[x] = held[x])
      /\ Exported'
  BY <1>0, <1>2, <1>3, <1>4, StoresFacts
<1>6. /\ past' \in Past /\ past'.cut = past.cut /\ (past.crossed => past'.crossed)
      /\ past'.laid \in {past.laid, NoFile}
      /\ past'.crossed \/ \A g \in Hand : ~SchemaAhead(g) \/ held'[SchemaKey] = held[SchemaKey]
      /\ \/ held'[PreviousKey] = held[PreviousKey] /\ past'.replaced = past.replaced
         \/ past'.replaced = NoFile /\ (past'.crossed \/ \A g \in Hand : ~SchemaAhead(g))
  <2>1. CASE k = SchemaKey
    <3>1. past' = SchemaEdited(t)
      BY <1>2, <2>1 DEF ImportPut
    <3>2. held'[PreviousKey] = held[PreviousKey]
      BY <1>5, <2>1, KeyFacts
    <3>3. QED
      BY <1>0, <3>1, <3>2, SchemaEditedFacts
  <2>2. CASE k = PreviousKey
    <3>1. PICK c \in BOOLEAN : c = (past.crossed \/ \E x \in Hand : SchemaAhead(x))
      BY <1>1 DEF Past
    <3>2. past' = [past EXCEPT !.replaced = NoFile, !.crossed = c]
      BY <2>2, <3>1, KeyFacts DEF ImportPut
    <3>3. /\ past' \in Past /\ past'.cut = past.cut /\ past'.laid = past.laid /\ past'.replaced = NoFile
          /\ past'.crossed = c
      BY <1>1, <3>2 DEF Past
    <3>4. held'[SchemaKey] = held[SchemaKey]
      BY <1>5, <2>2, KeyFacts
    <3>5. QED
      BY <3>1, <3>3, <3>4
  <2>3. CASE k \notin {SchemaKey, PreviousKey}
    <3>1. past' = past
      BY <2>3 DEF ImportPut
    <3>2. held'[SchemaKey] = held[SchemaKey] /\ held'[PreviousKey] = held[PreviousKey]
      BY <1>5, <2>3, KeyFacts
    <3>3. QED
      BY <1>1, <3>1, <3>2
  <2>4. QED
    BY <2>1, <2>2, <2>3
<1>7. mine' \in Stands /\ mine'[k] = NoFile /\ \A x \in VaultKey \ {k} : mine'[x] = mine[x]
  BY <1>1, <1>2, <1>4 DEF Stands
<1>8. {h} \in SUBSET Hand
  OBVIOUS
<1>9. LayoutsTypes'
  <2>1. held'[SchemaKey] # NoFile => held'[SchemaKey].of \in Naming
    BY <1>1, <1>2, <1>5, KeyFacts
  <2>2. removed' \subseteq VaultKey
    BY <1>1, <1>4
  <2>3. jobs' \in 0..MaxJobs /\ edits' \in 0..MaxEdits /\ stops' \in 0..MaxStops
    BY <1>0, <1>4 DEF LayoutsTypes
  <2>4. QED
    BY <1>0, <1>3, <1>5, <1>6, <1>7, <1>8, <2>1, <2>2, <2>3, TypesHolds
<1>10. Owned'
  <2>1. \A x \in VaultKey : mine'[x] # NoFile => held'[x] = mine'[x] /\ mine'[x].edit # 0
    BY <1>0, <1>5, <1>7 DEF Owned, OwnKept
  <2>2. mine'[PreviousKey] = NoFile /\ \A x \in View : mine[x] = NoFile => mine'[x] = NoFile
    BY <1>0, <1>7, KeyFacts DEF Owned
  <2>3. QED
    BY <1>0, <1>3, <1>5, <1>8, <2>1, <2>2, OwnedHolds
<1>11. OneAtATime'
  <2>1. \A g \in Hand : work'[g].kind = "fill" => work'[g] = work[g] \/ work'[g].step = "old"
    BY <1>3, <1>5 DEF GoesOn
  <2>2. \A g \in Hand : Filling(g) => work'[g] = work[g] \/ past'.cut
    BY <1>5 DEF GoesOn, Filling
  <2>3. \A x \in View \ removed' : held'[x] # NoFile \/ (x \notin removed /\ held[x] = NoFile)
    BY <1>4, <1>5, KeyFacts, NoFileFacts
  <2>4. QED
    BY <1>0, <1>5, <1>6, <2>1, <2>2, <2>3, BesideHolds
<1>12. QED
  BY <1>5, <1>9, <1>10, <1>11 DEF LayoutsIInv

-----------------------------------------------------------------------------
(* The steps of a layout.  First those that store nothing.                                                *)
LEMMA FillReadsHolds ==
  ASSUME LayoutsIInv, NEW h \in Hand, NEW j \in Fill, Shaped(j), GoesTo(h, j),
         UNCHANGED <<held, jobs, edits, stops, mine, removed>>,
         past' \in Past, \A k \in Range(j.drop) : mine[k] = NoFile
  PROVE  LayoutsTypes' /\ Exported' /\ Owned' /\ work'[h] = j /\ \A g \in Hand \ {h} : GoesOn(g) /\ work'[g] = work[g]
<1>0. LayoutsTypes /\ Exported /\ Owned
  BY DEF LayoutsIInv
<1>1. j \in Job /\ j.kind = "fill"
  BY DEF Job, Fill
<1>2. /\ work' \in [Hand -> Job] /\ work'[h] = j /\ (\A g \in Hand \ {h} : GoesOn(g) /\ work'[g] = work[g])
      /\ Exported'
  BY <1>0, <1>1, GoesToFacts
<1>3. {h} \in SUBSET Hand
  OBVIOUS
<1>4. LayoutsTypes'
  <2>1. /\ held' \in Stands /\ mine' \in Stands /\ removed' \subseteq VaultKey
        /\ jobs' \in 0..MaxJobs /\ edits' \in 0..MaxEdits /\ stops' \in 0..MaxStops
        /\ held'[SchemaKey] # NoFile => held'[SchemaKey].of \in Naming
    BY <1>0 DEF LayoutsTypes, Stands
  <2>2. QED
    BY <1>0, <1>2, <1>3, <2>1, TypesHolds
<1>5. Owned'
  <2>1. \A x \in VaultKey : mine'[x] # NoFile => held'[x] = mine'[x] /\ mine'[x].edit # 0
    BY <1>0 DEF Owned, OwnKept
  <2>2. mine'[PreviousKey] = NoFile /\ \A x \in View : mine'[x] = mine[x]
    BY <1>0 DEF Owned
  <2>3. QED
    BY <1>0, <1>2, <1>3, <2>1, <2>2, OwnedHolds
<1>6. QED
  BY <1>2, <1>4, <1>5

LEMMA ReadOldHolds ==
  ASSUME LayoutsIInv, NEW h \in Hand, ReadOld(h)
  PROVE  LayoutsIInv'
<1>0. LayoutsTypes /\ Exported /\ Owned /\ OneAtATime
  BY DEF LayoutsIInv
<1>1. /\ work[h] \in Fill /\ Shaped(work[h]) /\ held \in Stands /\ past \in Past /\ work[h].kind = "fill"
      /\ work[h].step = "old" /\ UNCHANGED <<held, jobs, edits, stops, mine, removed>> /\ ~Filling(h)
      /\ held[SchemaKey] # NoFile => held[SchemaKey].of \in Naming
  BY <1>0, WorkFacts DEF ReadOld, Filling, LayoutsTypes, Stands
<1>2. CASE work[h].layout = NoFile /\ Named = Unknown
  <2>1. GoesTo(h, NoJob) /\ past' = past /\ jobs' \in 0..MaxJobs
    BY <1>0, <1>1, <1>2 DEF ReadOld, LayoutsTypes
  <2>2. QED
    BY <1>1, <2>1, NoJobKind, ReadsHolds
<1>3. CASE ~(work[h].layout = NoFile /\ Named = Unknown)
  <2>1. PICK p \in Layout : p = Chosen(work[h])
    <3>1. Chosen(work[h]) \in Layout
      BY <1>1, <1>3, LayoutsAssumption, NoFileFacts DEF Chosen, Named, Naming, Fill, LayoutsAssumption
    <3>2. QED
      BY <3>1
  <2>2. PICK j : j = [work[h] EXCEPT !.old = held[SchemaKey], !.layout = p, !.step = "list"]
    OBVIOUS
  <2>3. /\ j \in Fill /\ j.kind = "fill" /\ j.step = "list" /\ j.layout = p /\ j.old = held[SchemaKey]
        /\ j.drop = work[h].drop
    <3>1. held[SchemaKey] \in Text \cup {NoFile} /\ "list" \in FillStep
      BY <1>1, KeyFacts DEF Stands, FillStep
    <3>2. QED
      BY <1>1, <2>2, <3>1 DEF Fill
  <2>4. j.drop = <<>> /\ Range(j.drop) = {}
    BY <1>1, <2>3, EmptyRange DEF Shaped
  <2>5. Shaped(j)
    BY <1>1, <2>1, <2>3, <2>4 DEF Shaped
  <2>6. PICK c \in BOOLEAN : c = (past.crossed \/ \E x \in Hand \ {h} : Filling(x) /\ work[x].layout # p)
    BY <1>1 DEF Past
  <2>7. GoesTo(h, j) /\ past' = [past EXCEPT !.crossed = c]
    BY <1>3, <2>1, <2>2, <2>6 DEF ReadOld
  <2>8. /\ past' \in Past /\ past'.crossed = c /\ past'.laid = past.laid /\ past'.replaced = past.replaced
        /\ past'.cut = past.cut
    BY <1>1, <2>7 DEF Past
  <2>9. LayoutsTypes' /\ Exported' /\ Owned' /\ work'[h] = j /\ \A g \in Hand \ {h} : GoesOn(g) /\ work'[g] = work[g]
    BY <1>1, <2>3, <2>4, <2>5, <2>7, <2>8, FillReadsHolds
  <2>10. ASSUME ~past'.crossed
         PROVE  OneLayout' /\ OneOld' /\ SavedFirst' /\ Progressed' /\ LaidFirst' /\ WholeElse'
    <3>1. ~past.crossed /\ \A x \in Hand \ {h} : Filling(x) => work[x].layout = p
      BY <2>6, <2>8, <2>10
    <3>2. OneLayout /\ OneOld /\ SavedFirst /\ Progressed /\ LaidFirst /\ WholeElse
      BY <1>0, <3>1 DEF OneAtATime
    <3>3. \A g \in Hand \ {h} : (Filling(g)' <=> Filling(g)) /\ (SchemaAhead(g)' <=> SchemaAhead(g))
      BY <2>9 DEF Filling, SchemaAhead
    <3>4. \A g \in Hand : Filling(g)' => work'[g].layout = p
      BY <2>3, <2>9, <3>1, <3>3
    <3>5. OneLayout'
      BY <3>4 DEF OneLayout
    <3>6. \A g \in Hand \ {h} : SchemaAhead(g) => held[SchemaKey] \in {work[g].old, Template(p)}
      <4>1. \A g \in Hand \ {h} : SchemaAhead(g) => Filling(g)
        BY DEF SchemaAhead
      <4>2. QED
        BY <3>1, <3>2, <4>1 DEF SavedFirst, AsRead
    <3>7. OneOld'
      <4> SUFFICES ASSUME NEW a \in Hand, NEW b \in Hand, SchemaAhead(a)', SchemaAhead(b)'
                   PROVE  work'[a].old = work'[b].old \/ Template(work'[a].layout) \in {work'[a].old, work'[b].old}
        BY DEF OneOld, Template
      <4>1. Filling(a)' /\ work'[a].layout = p
        BY <3>4 DEF SchemaAhead
      <4>2. CASE a = h /\ b = h
        BY <4>2
      <4>3. CASE a = h /\ b # h
        BY <2>3, <2>9, <3>3, <3>6, <4>1, <4>3
      <4>4. CASE a # h /\ b = h
        BY <2>3, <2>9, <3>3, <3>6, <4>1, <4>4
      <4>5. CASE a # h /\ b # h
        BY <2>9, <3>2, <3>3, <4>5 DEF OneOld
      <4>6. QED
        BY <4>2, <4>3, <4>4, <4>5
    <3>8. SavedFirst'
      <4>1. SchemaSaved'
        BY <1>1, <2>8, <3>1, <3>2 DEF SavedFirst, SchemaSaved
      <4>2. AsRead(h)'
        BY <1>1, <2>3, <2>9 DEF AsRead
      <4>3. ASSUME NEW g \in Hand \ {h} PROVE AsRead(g)'
        BY <1>1, <2>9, <3>2, <3>3 DEF SavedFirst, AsRead, Saves, Template
      <4>4. QED
        BY <4>1, <4>2, <4>3 DEF SavedFirst
    <3>9. Progressed'
      <4>1. ASSUME NEW g \in Hand, (work[g].kind = "fill" /\ work[g].step \notin {"old", "list"})' PROVE Stays(g)'
        <5>1. g # h /\ work'[g] = work[g]
          BY <2>3, <2>9, <4>1
        <5>2. Stays(g)
          BY <3>2, <4>1, <5>1 DEF Progressed
        <5>3. QED
          BY <1>1, <5>1, <5>2 DEF Stays
      <4>2. QED
        BY <4>1 DEF Progressed
    <3>10. LaidFirst'
      BY <2>3, <2>8, <2>9, <3>2, <3>3 DEF LaidFirst
    <3>11. WholeElse'
      <4>1. (\A g \in Hand : Filling(g)' => work'[g].layout # past'.laid)
            => \A g \in Hand : Filling(g) => work[g].layout # past.laid
        BY <1>1, <2>8, <2>9, <3>3
      <4>2. QED
        BY <1>1, <2>8, <3>2, <4>1 DEF WholeElse
    <3>12. QED
      BY <3>5, <3>7, <3>8, <3>9, <3>10, <3>11
  <2>11. QED
    BY <2>9, <2>10 DEF LayoutsIInv, OneAtATime
<1>4. QED
  BY <1>2, <1>3

LEMMA FillGoesOnHolds ==
  ASSUME LayoutsIInv, NEW h \in Hand, Filling(h), NEW j \in Fill, work'[h] = j,
         \A g \in Hand \ {h} : GoesOn(g) /\ work'[g] = work[g],
         UNCHANGED <<held, removed, past>>, SchemaAhead(h), SchemaAhead(h)',
         j.layout = work[h].layout, j.old = work[h].old, j.force = work[h].force, j.step # "old",
         ~past.crossed /\ j.step \in {"compare", "put"} /\ Saves(work[h]) => held[PreviousKey] = j.old,
         ~past.crossed => \A k \in Range(ViewsOf[j.layout]) \ removed :
                            k \in j.seen \/ k \notin Range(j.todo) => held[k] # NoFile
  PROVE  OneAtATime'
<1> SUFFICES ASSUME ~past.crossed
             PROVE  OneLayout' /\ OneOld' /\ SavedFirst' /\ Progressed' /\ LaidFirst' /\ WholeElse'
  BY DEF OneAtATime
<1>0. LayoutsTypes /\ OneAtATime /\ OneLayout /\ OneOld /\ SavedFirst /\ Progressed /\ LaidFirst /\ WholeElse
  BY DEF OneAtATime, LayoutsIInv
<1>1. OneLayout' /\ OneOld'
  BY <1>0, SameLayoutHolds
<1>2. /\ \A g \in Hand : (Filling(g)' <=> Filling(g)) /\ work'[g].layout = work[g].layout
      /\ \A g \in Hand : SchemaAhead(g)' <=> SchemaAhead(g)
  <2>1. \A g \in Hand \ {h} : (Filling(g)' <=> Filling(g)) /\ (SchemaAhead(g)' <=> SchemaAhead(g))
    BY DEF Filling, SchemaAhead
  <2>2. Filling(h)'
    BY DEF SchemaAhead
  <2>3. QED
    BY <2>1, <2>2
<1>3. SavedFirst'
  <2>1. SchemaSaved'
    BY <1>0 DEF SavedFirst, SchemaSaved
  <2>2. AsRead(h)'
    <3>1. held[SchemaKey] \in {j.old, Template(j.layout)}
      BY <1>0 DEF SavedFirst, AsRead
    <3>2. Saves(j) <=> Saves(work[h])
      BY DEF Saves
    <3>3. QED
      BY <3>1, <3>2 DEF AsRead, Saves, Template
  <2>3. ASSUME NEW g \in Hand \ {h} PROVE AsRead(g)'
    BY <1>0, <1>2 DEF SavedFirst, AsRead, Saves, Template
  <2>4. QED
    BY <2>1, <2>2, <2>3 DEF SavedFirst
<1>4. Progressed'
  <2>1. ASSUME NEW g \in Hand, (work[g].kind = "fill" /\ work[g].step \notin {"old", "list"})' PROVE Stays(g)'
    <3>1. CASE g = h
      BY <3>1 DEF Stays
    <3>2. CASE g # h
      BY <1>0, <2>1, <3>2 DEF Progressed, Stays
    <3>3. QED
      BY <3>1, <3>2
  <2>2. QED
    BY <2>1 DEF Progressed
<1>5. LaidFirst'
  BY <1>0, <1>2 DEF LaidFirst
<1>6. WholeElse'
  <2>1. (\A g \in Hand : Filling(g)' => work'[g].layout # past'.laid)
        => \A g \in Hand : Filling(g) => work[g].layout # past.laid
    BY <1>2
  <2>2. QED
    BY <1>0, <2>1 DEF WholeElse
<1>7. QED
  BY <1>1, <1>3, <1>4, <1>5, <1>6

LEMMA ListKeysHolds ==
  ASSUME LayoutsIInv, NEW h \in Hand, ListKeys(h)
  PROVE  LayoutsIInv'
<1>0. LayoutsTypes /\ Exported /\ Owned /\ OneAtATime
  BY DEF LayoutsIInv
<1>1. /\ work[h].kind = "fill" /\ work[h].step = "list"
      /\ UNCHANGED <<held, jobs, edits, stops, mine, removed, past>>
  BY DEF ListKeys
<1>2. Filling(h) /\ SchemaAhead(h)
  BY <1>1 DEF Filling, SchemaAhead
<1>3. /\ work[h] \in Fill /\ Shaped(work[h]) /\ work[h].layout \in Layout /\ held \in Stands /\ past \in Past
      /\ removed \subseteq VaultKey
  BY <1>0, <1>2, WorkFacts DEF LayoutsTypes, Stands
<1>4. PICK todo \in Seq(VaultKey) :
        /\ todo = Plan(work[h]) /\ todo # <<>> /\ Head(todo) = SchemaKey /\ SchemaKey \notin Range(Tail(todo))
        /\ Range(todo) \subseteq {SchemaKey, WelcomeKey} \cup View /\ Range(ViewsOf[work[h].layout]) \subseteq Range(todo)
  BY <1>3, PlanFacts
<1>5. PICK seen \in SUBSET VaultKey : seen = There \ {PreviousKey}
  BY DEF There
<1>6. PICK step \in {"save", "put"} : step = IF Saves(work[h]) THEN "save" ELSE "put"
  OBVIOUS
<1>7. PICK j : j = [work[h] EXCEPT !.seen = seen, !.todo = todo, !.step = step]
  OBVIOUS
<1>8. /\ j \in Fill /\ j.kind = "fill" /\ j.step = step /\ j.seen = seen /\ j.todo = todo /\ j.layout = work[h].layout
      /\ j.old = work[h].old /\ j.force = work[h].force /\ j.drop = work[h].drop
  <2>1. step \in FillStep
    BY DEF FillStep
  <2>2. QED
    BY <1>3, <1>7, <2>1 DEF Fill
<1>9. (Saves(j) <=> Saves(work[h])) /\ j.drop = <<>> /\ Range(j.drop) = {}
  BY <1>1, <1>3, <1>8, EmptyRange DEF Saves, Shaped
<1>10. Shaped(j)
  BY <1>1, <1>3, <1>4, <1>6, <1>8, <1>9 DEF Shaped
<1>11. GoesTo(h, j)
  BY <1>4, <1>5, <1>6, <1>7 DEF ListKeys
<1>12. LayoutsTypes' /\ Exported' /\ Owned' /\ work'[h] = j /\ \A g \in Hand \ {h} : GoesOn(g) /\ work'[g] = work[g]
  BY <1>1, <1>3, <1>8, <1>9, <1>10, <1>11, FillReadsHolds
<1>13. SchemaAhead(h)'
  BY <1>4, <1>8, <1>12 DEF SchemaAhead, Filling
<1>14. \A k \in Range(ViewsOf[j.layout]) \ removed : k \in j.seen \/ k \notin Range(j.todo) => held[k] # NoFile
  BY <1>4, <1>5, <1>8 DEF There
<1>15. j.step \in {"compare", "put"} => ~Saves(work[h])
  BY <1>6, <1>8
<1>16. OneAtATime'
  BY <1>1, <1>2, <1>8, <1>12, <1>13, <1>14, <1>15, FillGoesOnHolds
<1>17. QED
  BY <1>12, <1>16 DEF LayoutsIInv

LEMMA CompareHolds ==
  ASSUME LayoutsIInv, NEW h \in Hand, Compare(h)
  PROVE  LayoutsIInv'
<1>0. LayoutsTypes /\ Exported /\ Owned /\ OneAtATime
  BY DEF LayoutsIInv
<1>1. /\ work[h].kind = "fill" /\ work[h].step = "compare"
      /\ UNCHANGED <<held, jobs, edits, stops, mine, removed, past>>
  BY DEF Compare
<1>2. Filling(h) /\ SchemaAhead(h)
  BY <1>1 DEF Filling, SchemaAhead
<1>3. /\ work[h] \in Fill /\ Shaped(work[h]) /\ work[h].layout \in Layout /\ held \in Stands /\ past \in Past
      /\ removed \subseteq VaultKey
  BY <1>0, <1>2, WorkFacts DEF LayoutsTypes, Stands
<1>4. PICK k \in View : k = Head(work[h].views) /\ Tail(work[h].views) \in Seq(View)
  <2>1. work[h].views \in Seq(View) /\ work[h].views # <<>>
    BY <1>1, <1>3 DEF Fill, Shaped
  <2>2. QED
    BY <2>1, SequenceRest
<1>5. PICK same \in BOOLEAN :
        GoesTo(h, [work[h] EXCEPT !.views = Tail(@), !.step = IF Tail(work[h].views) = <<>> THEN "put" ELSE @,
                     !.drop = IF k \notin Range(Plan(work[h])) /\ same /\ held[k] = Template(ReadAs(work[h].old.of))
                              THEN Append(@, k) ELSE @])
  BY <1>4 DEF Compare
<1>6. PICK drop \in Seq(View) :
        /\ drop = (IF k \notin Range(Plan(work[h])) /\ same /\ held[k] = Template(ReadAs(work[h].old.of))
                   THEN Append(work[h].drop, k) ELSE work[h].drop)
        /\ Range(drop) \cap Range(ViewsOf[work[h].layout]) = {}
        /\ \A x \in Range(drop) : mine[x] = NoFile
  <2>1. /\ work[h].drop \in Seq(View) /\ Range(work[h].drop) \cap Range(ViewsOf[work[h].layout]) = {}
        /\ \A x \in Range(work[h].drop) : mine[x] = NoFile
    BY <1>0, <1>1, <1>3 DEF Fill, Shaped, Owned
  <2>2. CASE k \notin Range(Plan(work[h])) /\ same /\ held[k] = Template(ReadAs(work[h].old.of))
    <3>1. Append(work[h].drop, k) \in Seq(View) /\ Range(Append(work[h].drop, k)) = Range(work[h].drop) \cup {k}
      BY <2>1, SequenceMore
    <3>2. k \notin Range(ViewsOf[work[h].layout])
      BY <1>3, <2>2, PlanFacts
    <3>3. mine[k] = NoFile
      <4>1. mine[k] # NoFile => held[k] = mine[k] /\ mine[k].edit # 0
        BY <1>0, KeyFacts DEF Owned, OwnKept
      <4>2. held[k].edit = 0
        BY <2>2 DEF Template
      <4>3. QED
        BY <4>1, <4>2
    <3>4. QED
      BY <2>1, <2>2, <3>1, <3>2, <3>3
  <2>3. CASE ~(k \notin Range(Plan(work[h])) /\ same /\ held[k] = Template(ReadAs(work[h].old.of)))
    BY <2>1, <2>3
  <2>4. QED
    BY <2>2, <2>3
<1>7. PICK views \in Seq(View) : views = Tail(work[h].views)
  BY <1>4
<1>8. PICK step \in {"put", "compare"} : step = IF views = <<>> THEN "put" ELSE "compare"
  OBVIOUS
<1>9. PICK j : j = [work[h] EXCEPT !.views = views, !.step = step, !.drop = drop]
  OBVIOUS
<1>10. /\ j \in Fill /\ j.kind = "fill" /\ j.step = step /\ j.seen = work[h].seen /\ j.todo = work[h].todo
       /\ j.layout = work[h].layout /\ j.old = work[h].old /\ j.force = work[h].force /\ j.drop = drop
       /\ j.views = views
  <2>1. step \in FillStep
    BY DEF FillStep
  <2>2. QED
    BY <1>3, <1>9, <2>1 DEF Fill
<1>11. GoesTo(h, j)
  BY <1>1, <1>5, <1>6, <1>7, <1>8, <1>9
<1>12. Shaped(j)
  BY <1>1, <1>3, <1>6, <1>8, <1>10 DEF Shaped
<1>13. LayoutsTypes' /\ Exported' /\ Owned' /\ work'[h] = j /\ \A g \in Hand \ {h} : GoesOn(g) /\ work'[g] = work[g]
  BY <1>1, <1>3, <1>6, <1>10, <1>11, <1>12, FillReadsHolds
<1>15. ~past.crossed => \A x \in Range(ViewsOf[j.layout]) \ removed :
                            x \in j.seen \/ x \notin Range(j.todo) => held[x] # NoFile
  BY <1>0, <1>1, <1>10 DEF OneAtATime, Progressed, Stays
<1>16. ~past.crossed /\ Saves(work[h]) => held[PreviousKey] = j.old
  BY <1>0, <1>1, <1>2, <1>10 DEF OneAtATime, SavedFirst, AsRead
<1>14. SchemaAhead(h)'
  BY <1>1, <1>3, <1>8, <1>10, <1>13 DEF SchemaAhead, Filling, Shaped
<1>17. OneAtATime'
  BY <1>1, <1>2, <1>8, <1>10, <1>13, <1>14, <1>15, <1>16, FillGoesOnHolds
<1>18. QED
  BY <1>13, <1>17 DEF LayoutsIInv

(* What a step of a layout answers for that stores something under a key.                                 *)
LEMMA FillStoresHolds ==
  ASSUME LayoutsIInv, NEW h \in Hand, Filling(h), NEW j \in Job,
         j.kind \in {"none", "fill"}, j.kind = "fill" => Shaped(j),
         NEW k \in VaultKey, NEW t \in Text \cup {NoFile}, Stores(h, k, t, j), UNCHANGED <<jobs, edits, stops>>,
         k = SchemaKey /\ t # NoFile => t.of \in Naming,
         past' \in Past, removed' \subseteq VaultKey, mine' \in Stands, mine'[k] = NoFile,
         \A x \in VaultKey : mine'[x] \in {mine[x], NoFile},
         j.kind = "fill" => \A x \in Range(j.drop) : mine[x] = NoFile /\ x \in VaultKey
  PROVE  /\ LayoutsTypes' /\ Exported' /\ Owned' /\ work'[h] = j /\ \A g \in Hand \ {h} : GoesOn(g)
         /\ held'[k] = t /\ \A x \in VaultKey \ {k} : held'[x] = held[x]
<1>0. LayoutsTypes /\ Exported /\ Owned
  BY DEF LayoutsIInv
<1>1. /\ work' \in [Hand -> Job] /\ work'[h] = j /\ (\A g \in Hand \ {h} : GoesOn(g))
      /\ held' \in Stands /\ held'[k] = t /\ (\A x \in VaultKey \ {k} : held'[x] = held[x])
      /\ Exported'
  BY <1>0, StoresFacts
<1>2. {h} \in SUBSET Hand
  OBVIOUS
<1>3. LayoutsTypes'
  <2>1. /\ jobs' \in 0..MaxJobs /\ edits' \in 0..MaxEdits /\ stops' \in 0..MaxStops
        /\ held[SchemaKey] # NoFile => held[SchemaKey].of \in Naming
    BY <1>0 DEF LayoutsTypes
  <2>2. held'[SchemaKey] # NoFile => held'[SchemaKey].of \in Naming
    BY <1>1, <2>1, KeyFacts
  <2>3. QED
    BY <1>0, <1>1, <1>2, <2>1, <2>2, TypesHolds
<1>4. Owned'
  <2>1. \A x \in VaultKey : mine'[x] # NoFile => held'[x] = mine'[x] /\ mine'[x].edit # 0
    BY <1>0, <1>1 DEF Owned, OwnKept
  <2>2. mine'[PreviousKey] = NoFile /\ \A x \in View : mine[x] = NoFile => mine'[x] = NoFile
    BY <1>0, KeyFacts DEF Owned
  <2>3. \A g \in {h} : work'[g].kind = "fill" => \A x \in Range(work'[g].drop) : mine'[x] = NoFile
    BY <1>1
  <2>4. QED
    BY <1>0, <1>1, <1>2, <2>1, <2>2, <2>3, OwnedHolds
<1>5. QED
  BY <1>1, <1>3, <1>4

LEMMA SavePreviousHolds ==
  ASSUME LayoutsIInv, NEW h \in Hand, SavePrevious(h)
  PROVE  LayoutsIInv'
<1>0. LayoutsTypes /\ Exported /\ Owned /\ OneAtATime
  BY DEF LayoutsIInv
<1>1. /\ work[h].kind = "fill" /\ work[h].step = "save"
      /\ UNCHANGED <<jobs, edits, stops, mine, removed>>
  BY DEF SavePrevious
<1>2. Filling(h) /\ SchemaAhead(h)
  BY <1>1 DEF Filling, SchemaAhead
<1>3. /\ work[h] \in Fill /\ Shaped(work[h]) /\ work[h].layout \in Layout /\ held \in Stands /\ past \in Past
      /\ removed \subseteq VaultKey /\ mine \in Stands
  BY <1>0, <1>2, WorkFacts DEF LayoutsTypes, Stands
<1>4. Saves(work[h]) /\ work[h].drop = <<>> /\ work[h].old \in Text /\ work[h].old.of \in Naming
  <2>1. work[h].old \in Text \cup {NoFile}
    BY <1>3 DEF Fill
  <2>2. QED
    BY <1>1, <1>3, <2>1 DEF Shaped, Saves
<1>5. PICK views \in Seq(View) :
        views = IF ReadAs(work[h].old.of) = work[h].layout THEN <<>> ELSE ViewsOf[ReadAs(work[h].old.of)]
  <2>1. ReadAs(work[h].old.of) \in Layout
    BY <1>4, LayoutsAssumption, NoFileFacts DEF ReadAs, Naming, LayoutsAssumption
  <2>2. ViewsOf[ReadAs(work[h].old.of)] \in Seq(View) /\ <<>> \in Seq(View)
    BY <2>1, KeyFacts
  <2>3. QED
    BY <2>2
<1>6. PICK step \in {"put", "compare"} : step = IF views = <<>> THEN "put" ELSE "compare"
  OBVIOUS
<1>7. PICK j : j = [work[h] EXCEPT !.views = views, !.step = step]
  OBVIOUS
<1>8. /\ j \in Fill /\ j.kind = "fill" /\ j.step = step /\ j.seen = work[h].seen /\ j.todo = work[h].todo
      /\ j.layout = work[h].layout /\ j.old = work[h].old /\ j.force = work[h].force /\ j.drop = work[h].drop
      /\ j.views = views
  <2>1. step \in FillStep
    BY DEF FillStep
  <2>2. QED
    BY <1>3, <1>7, <2>1 DEF Fill
<1>9. Stores(h, PreviousKey, work[h].old, j)
  BY <1>5, <1>6, <1>7 DEF SavePrevious
<1>10. Shaped(j)
  <2>1. work[h].force
    BY <1>4 DEF Saves
  <2>2. QED
    BY <1>1, <1>3, <1>4, <1>6, <1>8, <2>1 DEF Shaped
<1>11. past' \in Past /\ past'.replaced = work[h].old /\ past'.laid = past.laid /\ past'.cut = past.cut
       /\ past'.crossed = past.crossed
  <2>1. past' = [past EXCEPT !.replaced = work[h].old]
    BY <1>4 DEF SavePrevious, Saves
  <2>2. QED
    BY <1>3, <1>4, <2>1 DEF Past
<1>12. /\ LayoutsTypes' /\ Exported' /\ Owned' /\ work'[h] = j /\ \A g \in Hand \ {h} : GoesOn(g)
       /\ held'[PreviousKey] = work[h].old /\ \A x \in VaultKey \ {PreviousKey} : held'[x] = held[x]
  <2>1. mine[PreviousKey] = NoFile
    BY <1>0 DEF Owned
  <2>2. Range(j.drop) = {}
    BY <1>4, <1>8, EmptyRange
  <2>3. j \in Job /\ work[h].old \in Text \cup {NoFile} /\ PreviousKey \in VaultKey /\ PreviousKey # SchemaKey
    BY <1>4, <1>8, KeyFacts DEF Job
  <2>4. mine' = mine /\ removed' = removed
    BY <1>1
  <2>5. QED
    BY <1>1, <1>2, <1>3, <1>8, <1>9, <1>10, <1>11, <2>1, <2>2, <2>3, <2>4, FillStoresHolds
<1>13. ASSUME ~past.crossed
       PROVE  OneLayout' /\ OneOld' /\ SavedFirst' /\ Progressed' /\ LaidFirst' /\ WholeElse'
  <2>0. OneLayout /\ OneOld /\ SavedFirst /\ Progressed /\ LaidFirst /\ WholeElse
    BY <1>0, <1>13 DEF OneAtATime
  <2>1. SchemaAhead(h)' /\ Filling(h)'
    BY <1>3, <1>6, <1>8, <1>12, <1>1 DEF SchemaAhead, Filling, Shaped
  <2>2. /\ OneLayout' /\ OneOld' /\ \A g \in Hand \ {h} : Filling(g)' => Filling(g) /\ work'[g] = work[g]
        /\ \A g \in Hand \ {h} : SchemaAhead(g)' => SchemaAhead(g) /\ work'[g] = work[g]
    BY <1>0, <1>2, <1>8, <1>12, <1>13, SameLayoutHolds
  <2>3. held'[SchemaKey] = held[SchemaKey] /\ \A x \in View : held'[x] = held[x]
    BY <1>12, KeyFacts
  <2>4. SavedFirst'
    <3>1. SchemaSaved'
      BY <1>11, <1>12 DEF SchemaSaved
    <3>2. AsRead(h)'
      <4>1. held[SchemaKey] \in {work[h].old, Template(work[h].layout)}
        BY <1>2, <2>0 DEF SavedFirst, AsRead
      <4>2. QED
        BY <1>8, <1>12, <2>3, <4>1 DEF AsRead, Template
    <3>3. ASSUME NEW g \in Hand \ {h}, SchemaAhead(g)' PROVE AsRead(g)'
      <4>1. SchemaAhead(g) /\ work'[g] = work[g] /\ Filling(g)
        BY <2>2, <3>3 DEF SchemaAhead
      <4>2. held[SchemaKey] \in {work[g].old, Template(work[g].layout)}
        BY <2>0, <4>1 DEF SavedFirst, AsRead
      <4>3. Saves(work[g]) => work[g].old = work[h].old
        <5>1. work[g].layout = work[h].layout
          BY <1>2, <2>0, <4>1 DEF OneLayout
        <5>2. work[h].old = work[g].old \/ Template(work[h].layout) \in {work[h].old, work[g].old}
          BY <1>2, <2>0, <4>1 DEF OneOld
        <5>3. QED
          BY <1>4, <5>1, <5>2 DEF Saves
      <4>4. QED
        BY <1>12, <2>3, <4>1, <4>2, <4>3 DEF AsRead, Saves, Template
    <3>4. \A g \in Hand \ {h} : AsRead(g)'
      BY <3>3 DEF AsRead
    <3>5. QED
      BY <3>1, <3>2, <3>4 DEF SavedFirst
  <2>5. Progressed'
    <3>1. ASSUME NEW g \in Hand, (work[g].kind = "fill" /\ work[g].step \notin {"old", "list"})' PROVE Stays(g)'
      <4>1. /\ work[g].kind = "fill" /\ work[g].step \notin {"old", "list"} /\ Filling(g)
            /\ work'[g].layout = work[g].layout /\ work'[g].seen = work[g].seen /\ work'[g].todo = work[g].todo
        <5>1. CASE g = h
          BY <1>1, <1>2, <1>8, <1>12, <5>1
        <5>2. CASE g # h
          BY <2>2, <3>1, <5>2 DEF Filling
        <5>3. QED
          BY <5>1, <5>2
      <4>2. Stays(g) /\ Range(ViewsOf[work[g].layout]) \subseteq View
        BY <1>0, <2>0, <4>1, WorkFacts, KeyFacts DEF Progressed
      <4>3. QED
        BY <1>1, <2>3, <4>1, <4>2 DEF Stays
    <3>2. QED
      BY <3>1 DEF Progressed
  <2>6. LaidFirst'
    <3>1. ASSUME NEW g \in Hand, (work[g].kind = "fill" /\ work[g].force /\ work[g].step \in {"put", "remove"}
                                  /\ ~SchemaAhead(g))'
          PROVE  past'.laid \in {work'[g].layout, NoFile}
      <4>1. g # h
        BY <2>1, <3>1
      <4>2. Filling(g)'
        BY <3>1 DEF Filling
      <4>3. work'[g] = work[g]
        BY <2>2, <4>1, <4>2
      <4>4. ~SchemaAhead(g)
        BY <3>1, <4>3 DEF SchemaAhead, Filling
      <4>5. QED
        BY <1>11, <2>0, <3>1, <4>3, <4>4 DEF LaidFirst
    <3>2. QED
      BY <3>1 DEF LaidFirst
  <2>7. WholeElse'
    <3>1. (\A g \in Hand : Filling(g)' => work'[g].layout # past'.laid)
          => \A g \in Hand : Filling(g) => work[g].layout # past.laid
      <4>1. \A g \in Hand \ {h} : Filling(g) => Filling(g)' /\ work'[g] = work[g]
        BY <1>12 DEF Filling, GoesOn
      <4>2. QED
        BY <1>8, <1>11, <1>12, <2>1, <4>1
    <3>2. past.laid # NoFile => Range(ViewsOf[past.laid]) \subseteq View
      BY <1>3, KeyFacts DEF Past
    <3>3. QED
      BY <1>1, <1>11, <2>0, <2>3, <3>1, <3>2 DEF WholeElse
  <2>8. QED
    BY <2>2, <2>4, <2>5, <2>6, <2>7
<1>14. QED
  BY <1>11, <1>12, <1>13 DEF LayoutsIInv, OneAtATime

(* After a key a layout goes on to the next, to the removal of views, or ends.                            *)
LEMMA FurtherFacts ==
  ASSUME NEW j \in Fill, Shaped(j), j.step = "put", NEW r, r = Further(j)
  PROVE  /\ r \in Job /\ r.kind \in {"none", "fill"} /\ (r = NoJob <=> r.kind = "none")
         /\ Head(j.todo) \in {SchemaKey, WelcomeKey} \cup View
         /\ r.kind = "fill" => /\ Shaped(r) /\ r \in Fill /\ r.layout = j.layout /\ r.old = j.old /\ r.force = j.force
                               /\ r.seen = j.seen /\ r.drop = j.drop /\ r.step \in {"put", "remove"}
                               /\ Range(j.todo) = {Head(j.todo)} \cup Range(r.todo)
                               /\ r.step = "put" => Head(r.todo) # SchemaKey
         /\ r.kind = "none" => Range(j.todo) = {Head(j.todo)}
<1>1. PICK s \in Seq(VaultKey) : s = j.todo /\ s # <<>> /\ SchemaKey \notin Range(Tail(s))
                                 /\ Range(s) \subseteq {SchemaKey, WelcomeKey} \cup View
  BY DEF Fill, Shaped
<1>2. PICK rest \in Seq(VaultKey) : rest = Tail(s) /\ Range(s) = {Head(s)} \cup Range(rest) /\ (Len(s) > 1 <=> rest # <<>>)
  <2>1. Tail(s) \in Seq(VaultKey) /\ Range(s) = {Head(s)} \cup Range(Tail(s)) /\ (Len(s) > 1) = (Tail(s) # <<>>)
    BY <1>1, SequenceRest
  <2>2. QED
    BY <2>1
<1>3. CASE rest # <<>>
  <2>1. r = [j EXCEPT !.todo = rest]
    BY <1>1, <1>2, <1>3 DEF Further
  <2>2. /\ r \in Fill /\ r.kind = "fill" /\ r.layout = j.layout /\ r.old = j.old /\ r.force = j.force
        /\ r.seen = j.seen /\ r.drop = j.drop /\ r.step = "put" /\ r.todo = rest
    BY <2>1 DEF Fill
  <2>3. /\ Range(rest) = {Head(rest)} \cup Range(Tail(rest)) /\ SchemaKey \notin Range(rest)
    BY <1>1, <1>2, <1>3, SequenceRest
  <2>4. Shaped(r)
    BY <1>1, <1>2, <1>3, <2>2, <2>3 DEF Shaped
  <2>5. r # NoJob
    BY <2>2, NoJobKind
  <2>6. QED
    BY <1>1, <1>2, <2>2, <2>3, <2>4, <2>5 DEF Job
<1>4. CASE rest = <<>> /\ j.drop # <<>>
  <2>1. r = [j EXCEPT !.todo = <<>>, !.step = "remove"]
    BY <1>1, <1>2, <1>4 DEF Further
  <2>2. /\ r \in Fill /\ r.kind = "fill" /\ r.layout = j.layout /\ r.old = j.old /\ r.force = j.force
        /\ r.seen = j.seen /\ r.drop = j.drop /\ r.step = "remove" /\ r.todo = <<>>
    <3>1. "remove" \in FillStep /\ <<>> \in Seq(VaultKey)
      BY DEF FillStep
    <3>2. QED
      BY <2>1, <3>1 DEF Fill
  <2>3. Shaped(r)
    BY <1>4, <2>2 DEF Shaped
  <2>4. r # NoJob
    BY <2>2, NoJobKind
  <2>5. QED
    BY <1>1, <1>2, <1>4, <2>2, <2>3, <2>4, EmptyRange DEF Job
<1>5. CASE rest = <<>> /\ j.drop = <<>>
  <2>1. r = NoJob
    BY <1>1, <1>2, <1>5 DEF Further
  <2>2. QED
    BY <1>1, <1>2, <1>5, <2>1, NoJobKind, EmptyRange
<1>6. QED
  BY <1>3, <1>4, <1>5

(* What the end of a layout does to the mark that one was cut off.                                        *)
LEMMA FinishesFacts ==
  ASSUME NEW p \in Past, NEW j, NEW q, q = Finishes(p, j)
  PROVE  /\ q \in Past /\ q.laid = p.laid /\ q.replaced = p.replaced /\ q.crossed = p.crossed
         /\ q.cut = (p.cut /\ ~(Further(j) = NoJob /\ p.laid = j.layout))
<1>1. PICK c \in BOOLEAN : c = (p.cut /\ ~(Further(j) = NoJob /\ p.laid = j.layout))
  OBVIOUS
<1>2. q = [p EXCEPT !.cut = c]
  BY <1>1 DEF Finishes
<1>3. QED
  BY <1>1, <1>2 DEF Past

(* A key that is kept or put, while all layouts that are being written are one.                           *)
LEMMA KeyHolds ==
  ASSUME LayoutsIInv, ~past.crossed, NEW h \in Hand, work[h].kind = "fill", work[h].step = "put", NEW j, j = work[h],
         NEW r, r = Further(j), work'[h] = r, \A g \in Hand \ {h} : GoesOn(g), NEW k, k = Head(j.todo),
         \A x \in VaultKey \ {k} : held'[x] = held[x], held'[k] \in {held[k], Template(j.layout)},
         k \in View => held'[k] # NoFile \/ k \in j.seen,
         removed' = removed \/ (removed' = removed \ {k} /\ held'[k] # NoFile),
         past'.laid \in {past.laid, j.layout}, j.force /\ k = SchemaKey => past'.laid = j.layout,
         past'.cut = (past.cut /\ ~(r = NoJob /\ past'.laid = j.layout)), SchemaSaved'
  PROVE  OneLayout' /\ OneOld' /\ SavedFirst' /\ Progressed' /\ LaidFirst' /\ WholeElse'
<1>0. /\ LayoutsTypes /\ OneAtATime /\ OneLayout /\ OneOld /\ SavedFirst /\ Progressed /\ LaidFirst /\ WholeElse
      /\ past \in Past
  BY DEF LayoutsIInv, OneAtATime, LayoutsTypes
<1>1. Filling(h)
  BY DEF Filling
<1>2. j \in Fill /\ Shaped(j) /\ j.layout \in Layout
  BY <1>0, <1>1, WorkFacts
<1>3. /\ r \in Job /\ r.kind \in {"none", "fill"} /\ (r = NoJob <=> r.kind = "none")
      /\ k \in {SchemaKey, WelcomeKey} \cup View
      /\ r.kind = "fill" => /\ r.layout = j.layout /\ r.old = j.old /\ r.force = j.force
                            /\ r.seen = j.seen /\ r.drop = j.drop /\ r.step \in {"put", "remove"}
                            /\ Range(j.todo) = {k} \cup Range(r.todo)
                            /\ r.step = "put" => Head(r.todo) # SchemaKey
      /\ r.kind = "none" => Range(j.todo) = {k}
  BY <1>2, FurtherFacts
<1>4. ~SchemaAhead(h)'
  BY <1>3 DEF SchemaAhead, Filling
<1>5. /\ OneLayout' /\ OneOld' /\ \A g \in Hand \ {h} : Filling(g)' => Filling(g) /\ work'[g] = work[g]
      /\ \A g \in Hand \ {h} : SchemaAhead(g)' => SchemaAhead(g) /\ work'[g] = work[g]
  BY <1>0, <1>1, <1>3, <1>4, SameLayoutHolds
<1>6. \A g \in Hand \ {h} : Filling(g)' => work[g].layout = j.layout
  BY <1>0, <1>1, <1>5 DEF OneLayout
<1>7. k # PreviousKey /\ held'[PreviousKey] = held[PreviousKey] /\ held'[SchemaKey] \in {held[SchemaKey], Template(j.layout)}
  BY <1>3, KeyFacts
<1>8. Template(j.layout) # NoFile /\ \A x \in VaultKey : held[x] # NoFile => held'[x] # NoFile
  <2>1. Template(j.layout) # NoFile
    BY <1>2, NoFileFacts
  <2>2. QED
    BY <2>1
<1>9. \A x \in Range(ViewsOf[j.layout]) \ removed' :
        x \in View /\ (x \in j.seen \/ x \notin Range(j.todo) \/ x = k => held'[x] # NoFile)
  <2> SUFFICES ASSUME NEW x \in Range(ViewsOf[j.layout]) \ removed'
               PROVE  x \in View /\ (x \in j.seen \/ x \notin Range(j.todo) \/ x = k => held'[x] # NoFile)
    OBVIOUS
  <2>1. x \in View /\ x \in VaultKey
    BY <1>2, KeyFacts
  <2>2. Stays(h)
    BY <1>0 DEF Progressed
  <2>3. x \notin removed => (x \in j.seen \/ x \notin Range(j.todo) => held'[x] # NoFile)
    BY <1>8, <2>1, <2>2 DEF Stays
  <2>4. x \in removed => held'[x] # NoFile
    OBVIOUS
  <2>5. x = k => held'[x] # NoFile
    BY <2>1, <2>3, <2>4
  <2>6. QED
    BY <2>1, <2>3, <2>4, <2>5
<1>10. SavedFirst'
  <2>1. ASSUME NEW g \in Hand, SchemaAhead(g)' PROVE AsRead(g)'
    <3>1. g # h
      BY <1>4, <2>1
    <3>2. SchemaAhead(g) /\ work'[g] = work[g] /\ Filling(g)'
      BY <1>5, <2>1, <3>1 DEF SchemaAhead
    <3>3. work[g].layout = j.layout
      BY <1>6, <3>1, <3>2
    <3>4. AsRead(g)
      BY <1>0 DEF SavedFirst
    <3>5. QED
      BY <1>7, <3>2, <3>3, <3>4 DEF AsRead, Saves, Template
  <2>2. \A g \in Hand : AsRead(g)'
    BY <2>1 DEF AsRead
  <2>3. QED
    BY <2>2 DEF SavedFirst
<1>11. Progressed'
  <2>1. ASSUME NEW g \in Hand, (work[g].kind = "fill" /\ work[g].step \notin {"old", "list"})' PROVE Stays(g)'
    <3>1. CASE g = h
      <4>1. r.kind = "fill" /\ work'[g] = r
        BY <2>1, <3>1
      <4>2. r.layout = j.layout /\ r.seen = j.seen /\ Range(j.todo) = {k} \cup Range(r.todo)
        BY <1>3, <4>1
      <4>3. \A x \in Range(ViewsOf[j.layout]) \ removed' : x \in j.seen \/ x \notin Range(r.todo) => held'[x] # NoFile
        BY <1>9, <4>2
      <4>4. QED
        BY <4>1, <4>2, <4>3 DEF Stays
    <3>2. CASE g # h
      <4>1. Filling(g)'
        BY <2>1 DEF Filling
      <4>2. work'[g] = work[g] /\ work[g].layout = j.layout
        BY <1>5, <1>6, <3>2, <4>1
      <4>3. Stays(g)
        BY <1>0, <2>1, <4>2 DEF Progressed
      <4>4. ASSUME NEW x \in Range(ViewsOf[j.layout]) \ removed', x \in work[g].seen \/ x \notin Range(work[g].todo)
            PROVE  held'[x] # NoFile
        <5>1. x \in View /\ x \in VaultKey
          BY <1>9, KeyFacts
        <5>2. x \in removed => held'[x] # NoFile
          OBVIOUS
        <5>3. x \notin removed => held[x] # NoFile
          BY <4>2, <4>3, <4>4 DEF Stays
        <5>4. QED
          BY <1>8, <5>1, <5>2, <5>3
      <4>5. QED
        BY <4>2, <4>4 DEF Stays
    <3>3. QED
      BY <3>1, <3>2
  <2>2. QED
    BY <2>1 DEF Progressed
<1>12. LaidFirst'
  <2>1. ASSUME NEW g \in Hand, (work[g].kind = "fill" /\ work[g].force /\ work[g].step \in {"put", "remove"}
                                /\ ~SchemaAhead(g))'
        PROVE  past'.laid \in {work'[g].layout, NoFile}
    <3>1. Filling(g)'
      BY <2>1 DEF Filling
    <3>2. work'[g].layout = j.layout
      BY <1>3, <1>5, <1>6, <2>1, <3>1
    <3>3. CASE g = h
      <4>1. r.kind = "fill" /\ j.force
        BY <1>3, <2>1, <3>3
      <4>2. k # SchemaKey => past.laid \in {j.layout, NoFile}
        <5>1. k # SchemaKey => ~SchemaAhead(h)
          BY DEF SchemaAhead
        <5>2. QED
          BY <1>0, <4>1, <5>1 DEF LaidFirst
      <4>3. QED
        BY <3>2, <4>1, <4>2
    <3>4. CASE g # h
      <4>1. work'[g] = work[g] /\ Filling(g)
        BY <1>5, <3>1, <3>4
      <4>2. ~SchemaAhead(g)
        BY <2>1, <4>1 DEF SchemaAhead, Filling
      <4>3. past.laid \in {work[g].layout, NoFile}
        BY <1>0, <2>1, <4>1, <4>2 DEF LaidFirst
      <4>4. QED
        BY <3>2, <4>1, <4>3
    <3>5. QED
      BY <3>3, <3>4
  <2>2. QED
    BY <2>1 DEF LaidFirst
<1>13. WholeElse'
  <2> SUFFICES ASSUME ~past'.cut, past'.laid # NoFile, \A g \in Hand : Filling(g)' => work'[g].layout # past'.laid,
                      NEW x \in Range(ViewsOf[past'.laid]) \ removed'
               PROVE  held'[x] # NoFile
    BY DEF WholeElse
  <2>1. CASE past'.laid = j.layout
    <3>1. r.kind = "none"
      <4>1. r.kind = "fill" => Filling(h)' /\ work'[h].layout = j.layout
        BY <1>3 DEF Filling
      <4>2. QED
        BY <1>3, <2>1, <4>1
    <3>2. x \in j.seen \/ x \notin Range(j.todo) \/ x = k
      BY <1>3, <3>1
    <3>3. QED
      BY <1>9, <2>1, <3>2
  <2>2. CASE past'.laid # j.layout
    <3>1. past'.laid = past.laid /\ ~past.cut
      BY <2>2
    <3>2. \A g \in Hand : Filling(g) => work[g].layout # past.laid
      <4>1. \A g \in Hand \ {h} : Filling(g) => Filling(g)' /\ work'[g] = work[g]
        BY DEF GoesOn, Filling
      <4>2. QED
        BY <2>2, <3>1, <4>1
    <3>3. x \notin removed => held[x] # NoFile
      BY <1>0, <3>1, <3>2 DEF WholeElse
    <3>4. x \in removed => held'[x] # NoFile
      OBVIOUS
    <3>5. x \in VaultKey
      BY <1>0, <3>1, KeyFacts DEF Past
    <3>6. QED
      BY <1>8, <3>3, <3>4, <3>5
  <2>3. QED
    BY <2>1, <2>2
<1>14. QED
  BY <1>5, <1>10, <1>11, <1>12, <1>13

LEMMA KeepKeyHolds ==
  ASSUME LayoutsIInv, NEW h \in Hand, KeepKey(h)
  PROVE  LayoutsIInv'
<1>0. LayoutsTypes /\ Exported /\ Owned /\ OneAtATime
  BY DEF LayoutsIInv
<1>1. /\ work[h].kind = "fill" /\ work[h].step = "put" /\ Kept(work[h], Head(work[h].todo))
      /\ GoesTo(h, Further(work[h])) /\ past' = Finishes(past, work[h])
      /\ UNCHANGED <<held, jobs, edits, stops, mine, removed>>
  BY DEF KeepKey
<1>2. Filling(h)
  BY <1>1 DEF Filling
<1>3. /\ work[h] \in Fill /\ Shaped(work[h]) /\ work[h].layout \in Layout /\ past \in Past
  BY <1>0, <1>2, WorkFacts DEF LayoutsTypes
<1>4. PICK r : r = Further(work[h])
  OBVIOUS
<1>5. /\ r \in Job /\ r.kind \in {"none", "fill"} /\ (r.kind = "fill" => Shaped(r) /\ r \in Fill /\ r.drop = work[h].drop)
      /\ (r = NoJob <=> r.kind = "none")
  BY <1>1, <1>3, <1>4, FurtherFacts
<1>6. /\ past' \in Past /\ past'.laid = past.laid /\ past'.replaced = past.replaced /\ past'.crossed = past.crossed
      /\ past'.cut = (past.cut /\ ~(r = NoJob /\ past'.laid = work[h].layout))
  <2>1. PICK q : q = Finishes(past, work[h])
    OBVIOUS
  <2>2. /\ q \in Past /\ q.laid = past.laid /\ q.replaced = past.replaced /\ q.crossed = past.crossed
        /\ q.cut = (past.cut /\ ~(Further(work[h]) = NoJob /\ past.laid = work[h].layout))
    BY <1>3, <2>1, FinishesFacts
  <2>3. QED
    BY <1>1, <1>4, <2>1, <2>2
<1>7. /\ work' \in [Hand -> Job] /\ work'[h] = r /\ (\A g \in Hand \ {h} : GoesOn(g) /\ work'[g] = work[g])
      /\ Exported'
  BY <1>0, <1>1, <1>4, <1>5, GoesToFacts
<1>8. {h} \in SUBSET Hand
  OBVIOUS
<1>9. LayoutsTypes'
  <2>1. /\ held' \in Stands /\ mine' \in Stands /\ removed' \subseteq VaultKey
        /\ jobs' \in 0..MaxJobs /\ edits' \in 0..MaxEdits /\ stops' \in 0..MaxStops
        /\ held'[SchemaKey] # NoFile => held'[SchemaKey].of \in Naming
    BY <1>0, <1>1 DEF LayoutsTypes, Stands
  <2>2. QED
    BY <1>0, <1>5, <1>6, <1>7, <1>8, <2>1, TypesHolds
<1>10. Owned'
  <2>1. \A x \in VaultKey : mine'[x] # NoFile => held'[x] = mine'[x] /\ mine'[x].edit # 0
    BY <1>0, <1>1 DEF Owned, OwnKept
  <2>2. mine'[PreviousKey] = NoFile /\ mine' = mine
    BY <1>0, <1>1 DEF Owned
  <2>3. \A g \in {h} : work'[g].kind = "fill" => \A x \in Range(work'[g].drop) : mine'[x] = NoFile
    BY <1>0, <1>1, <1>5, <1>7 DEF Owned
  <2>4. QED
    BY <1>0, <1>7, <1>8, <2>1, <2>2, <2>3, OwnedHolds
<1>11. ASSUME ~past.crossed
       PROVE  OneLayout' /\ OneOld' /\ SavedFirst' /\ Progressed' /\ LaidFirst' /\ WholeElse'
  <2>1. PICK k : k = Head(work[h].todo)
    OBVIOUS
  <2>2. ~work[h].force /\ (k \in View => held'[k] # NoFile \/ k \in work[h].seen)
    BY <1>1, <2>1, KeyFacts DEF Kept
  <2>3. SchemaSaved'
    BY <1>0, <1>1, <1>6, <1>11 DEF OneAtATime, SavedFirst, SchemaSaved
  <2>4. (\A x \in VaultKey \ {k} : held'[x] = held[x]) /\ held'[k] \in {held[k], Template(work[h].layout)}
        /\ (removed' = removed \/ (removed' = removed \ {k} /\ held'[k] # NoFile))
        /\ past'.laid \in {past.laid, work[h].layout}
    BY <1>1, <1>6
  <2>5. QED
    BY <1>1, <1>4, <1>6, <1>7, <1>11, <2>1, <2>2, <2>3, <2>4, KeyHolds
<1>12. QED
  BY <1>6, <1>7, <1>9, <1>10, <1>11 DEF LayoutsIInv, OneAtATime

LEMMA PutKeyHolds ==
  ASSUME LayoutsIInv, NEW h \in Hand, PutKey(h)
  PROVE  LayoutsIInv'
<1>0. LayoutsTypes /\ Exported /\ Owned /\ OneAtATime
  BY DEF LayoutsIInv
<1>1. PICK k : k = Head(work[h].todo)
  OBVIOUS
<1>2. PICK r : r = Further(work[h])
  OBVIOUS
<1>3. /\ work[h].kind = "fill" /\ work[h].step = "put" /\ ~Kept(work[h], k)
      /\ Stores(h, k, Template(work[h].layout), r)
      /\ mine' = (IF work[h].force THEN [mine EXCEPT ![k] = NoFile] ELSE mine) /\ removed' = removed \ {k}
      /\ past' = Finishes(IF k = SchemaKey THEN SchemaPut(h) ELSE past, work[h])
      /\ UNCHANGED <<jobs, edits, stops>>
  BY <1>1, <1>2 DEF PutKey
<1>4. Filling(h)
  BY <1>3 DEF Filling
<1>5. /\ work[h] \in Fill /\ Shaped(work[h]) /\ work[h].layout \in Layout /\ past \in Past /\ held \in Stands
      /\ mine \in Stands /\ removed \subseteq VaultKey
  BY <1>0, <1>4, WorkFacts DEF LayoutsTypes, Stands
<1>6. /\ r \in Job /\ r.kind \in {"none", "fill"} /\ (r.kind = "fill" => Shaped(r) /\ r \in Fill /\ r.drop = work[h].drop)
      /\ (r = NoJob <=> r.kind = "none") /\ k \in {SchemaKey, WelcomeKey} \cup View
  BY <1>1, <1>2, <1>3, <1>5, FurtherFacts
<1>7. k \in VaultKey /\ k # PreviousKey
  BY <1>6, KeyFacts
<1>8. PICK t \in Text : t = Template(work[h].layout) /\ t.of = work[h].layout /\ t # NoFile
  BY <1>5, NoFileFacts
<1>9. PICK p \in Past : /\ p = (IF k = SchemaKey THEN SchemaPut(h) ELSE past) /\ p.crossed = past.crossed /\ p.cut = past.cut
                        /\ p.laid = (IF k = SchemaKey THEN work[h].layout ELSE past.laid)
                        /\ p.replaced = (IF k # SchemaKey \/ held[SchemaKey] \in {NoFile, t}
                                         THEN past.replaced ELSE held[SchemaKey])
  <2>1. CASE k = SchemaKey
    <3>1. PICK x \in Text \cup {NoFile} : x = IF held[SchemaKey] \in {NoFile, t} THEN past.replaced ELSE held[SchemaKey]
      BY <1>5, KeyFacts DEF Past, Stands
    <3>2. PICK p : p = [past EXCEPT !.laid = work[h].layout, !.replaced = x]
      OBVIOUS
    <3>3. p \in Past /\ p.laid = work[h].layout /\ p.replaced = x /\ p.crossed = past.crossed /\ p.cut = past.cut
      BY <1>5, <3>2 DEF Past
    <3>4. p = SchemaPut(h)
      BY <1>8, <3>1, <3>2 DEF SchemaPut
    <3>5. QED
      BY <2>1, <3>1, <3>3, <3>4
  <2>2. CASE k # SchemaKey
    BY <1>5, <2>2
  <2>3. QED
    BY <2>1, <2>2
<1>10. /\ past' \in Past /\ past'.laid = p.laid /\ past'.replaced = p.replaced /\ past'.crossed = past.crossed
       /\ past'.cut = (past.cut /\ ~(r = NoJob /\ past'.laid = work[h].layout))
  <2>1. PICK q : q = Finishes(p, work[h])
    OBVIOUS
  <2>2. /\ q \in Past /\ q.laid = p.laid /\ q.replaced = p.replaced /\ q.crossed = p.crossed
        /\ q.cut = (p.cut /\ ~(Further(work[h]) = NoJob /\ p.laid = work[h].layout))
    BY <2>1, FinishesFacts
  <2>3. QED
    BY <1>2, <1>3, <1>9, <2>1, <2>2
<1>11. mine[k] = NoFile \/ work[h].force
  <2>1. ~work[h].force => held[k] = NoFile
    BY <1>3 DEF Kept
  <2>2. QED
    BY <1>0, <1>7, <2>1 DEF Owned, OwnKept
<1>12. mine' \in Stands /\ mine'[k] = NoFile /\ \A x \in VaultKey : mine'[x] \in {mine[x], NoFile}
  BY <1>3, <1>5, <1>7, <1>11 DEF Stands
<1>13. /\ LayoutsTypes' /\ Exported' /\ Owned' /\ work'[h] = r /\ \A g \in Hand \ {h} : GoesOn(g)
       /\ held'[k] = t /\ \A x \in VaultKey \ {k} : held'[x] = held[x]
  <2>1. removed' \subseteq VaultKey /\ Stores(h, k, t, r) /\ t \in Text \cup {NoFile}
    BY <1>3, <1>5, <1>8
  <2>2. r.kind = "fill" => \A x \in Range(r.drop) : mine[x] = NoFile /\ x \in VaultKey
    <3>1. \A x \in Range(work[h].drop) : mine[x] = NoFile
      BY <1>0, <1>3 DEF Owned
    <3>2. PICK s \in Seq(View) : s = work[h].drop
      BY <1>5 DEF Fill
    <3>3. Range(s) \subseteq View
      BY DEF Range
    <3>4. QED
      BY <1>6, <3>1, <3>2, <3>3, KeyFacts
  <2>3. k = SchemaKey /\ t # NoFile => t.of \in Naming
    BY <1>5, <1>8 DEF Naming
  <2>4. UNCHANGED <<jobs, edits, stops>> /\ r \in Job /\ r.kind \in {"none", "fill"} /\ (r.kind = "fill" => Shaped(r))
        /\ past' \in Past
    BY <1>3, <1>6, <1>10
  <2>5. QED
    BY <1>4, <1>7, <1>12, <2>1, <2>2, <2>3, <2>4, FillStoresHolds
<1>14. ASSUME ~past.crossed
       PROVE  OneLayout' /\ OneOld' /\ SavedFirst' /\ Progressed' /\ LaidFirst' /\ WholeElse'
  <2>0. SavedFirst
    BY <1>0, <1>14 DEF OneAtATime
  <2>1. SchemaSaved'
    <3>1. held'[PreviousKey] = held[PreviousKey]
      BY <1>7, <1>13, KeyFacts
    <3>2. CASE k # SchemaKey \/ held[SchemaKey] \in {NoFile, t}
      BY <1>9, <1>10, <1>14, <2>0, <3>1, <3>2 DEF SavedFirst, SchemaSaved
    <3>3. CASE k = SchemaKey /\ held[SchemaKey] \notin {NoFile, t}
      <4>1. SchemaAhead(h)
        BY <1>1, <1>3, <1>4, <3>3 DEF SchemaAhead
      <4>2. held[SchemaKey] = work[h].old
        BY <1>8, <2>0, <3>3, <4>1 DEF SavedFirst, AsRead
      <4>3. work[h].force
        BY <1>3, <3>3 DEF Kept
      <4>4. Saves(work[h])
        BY <1>8, <3>3, <4>2, <4>3 DEF Saves
      <4>5. held[PreviousKey] = work[h].old
        BY <1>3, <2>0, <4>1, <4>4 DEF SavedFirst, AsRead
      <4>6. past'.replaced = held[SchemaKey]
        BY <1>9, <1>10, <3>3
      <4>7. QED
        BY <3>1, <4>2, <4>5, <4>6 DEF SchemaSaved
    <3>4. QED
      BY <3>2, <3>3
  <2>2. /\ held'[k] # NoFile /\ held'[k] \in {held[k], Template(work[h].layout)}
        /\ past'.laid \in {past.laid, work[h].layout} /\ (k = SchemaKey => past'.laid = work[h].layout)
    BY <1>8, <1>9, <1>10, <1>13
  <2>3. QED
    BY <1>1, <1>2, <1>3, <1>10, <1>13, <1>14, <2>1, <2>2, KeyHolds
<1>15. QED
  BY <1>10, <1>13, <1>14 DEF LayoutsIInv, OneAtATime

LEMMA RemoveViewHolds ==
  ASSUME LayoutsIInv, NEW h \in Hand, RemoveView(h)
  PROVE  LayoutsIInv'
<1>0. LayoutsTypes /\ Exported /\ Owned /\ OneAtATime
  BY DEF LayoutsIInv
<1>1. /\ work[h].kind = "fill" /\ work[h].step = "remove" /\ UNCHANGED <<jobs, edits, stops, mine, removed>>
  BY DEF RemoveView
<1>2. Filling(h) /\ ~SchemaAhead(h)
  BY <1>1 DEF Filling, SchemaAhead
<1>3. /\ work[h] \in Fill /\ Shaped(work[h]) /\ work[h].layout \in Layout /\ past \in Past /\ mine \in Stands
      /\ removed \subseteq VaultKey
  BY <1>0, <1>2, WorkFacts DEF LayoutsTypes, Stands
<1>4. PICK s \in Seq(View) : /\ s = work[h].drop /\ s # <<>> /\ work[h].force /\ Range(s) \cap Range(ViewsOf[work[h].layout]) = {}
                             /\ work[h].todo = <<>>
  BY <1>1, <1>3 DEF Fill, Shaped
<1>5. PICK k \in View : k = Head(s) /\ k \in Range(s) /\ Tail(s) \in Seq(View) /\ Range(Tail(s)) \subseteq Range(s)
                        /\ Range(s) \subseteq View
  <2>1. Head(s) \in View /\ Tail(s) \in Seq(View) /\ Range(s) = {Head(s)} \cup Range(Tail(s)) /\ Range(s) \subseteq View
    BY <1>4, SequenceRest
  <2>2. QED
    BY <2>1
<1>6. PICK next : next = IF Tail(s) = <<>> THEN NoJob ELSE [work[h] EXCEPT !.drop = Tail(s)]
  OBVIOUS
<1>7. /\ next \in Job /\ next.kind \in {"none", "fill"} /\ (next = NoJob <=> next.kind = "none")
      /\ next.kind = "fill" =>
           /\ next \in Fill /\ Shaped(next) /\ next.step = "remove" /\ next.layout = work[h].layout
           /\ next.old = work[h].old /\ next.force = work[h].force /\ next.seen = work[h].seen
           /\ next.todo = work[h].todo /\ Range(next.drop) \subseteq Range(s)
  <2>1. CASE Tail(s) = <<>>
    BY <1>6, <2>1, NoJobKind
  <2>2. CASE Tail(s) # <<>>
    <3>1. PICK rest \in Seq(View) : rest = Tail(s) /\ rest # <<>> /\ Range(rest) \subseteq Range(s)
      BY <1>5, <2>2
    <3>2. next = [work[h] EXCEPT !.drop = rest]
      BY <1>6, <2>2, <3>1
    <3>3. /\ next \in Fill /\ next.kind = "fill" /\ next.step = "remove" /\ next.layout = work[h].layout
          /\ next.old = work[h].old /\ next.force = work[h].force /\ next.seen = work[h].seen
          /\ next.todo = work[h].todo /\ next.drop = rest
      BY <1>1, <1>3, <3>2 DEF Fill
    <3>4. Shaped(next)
      BY <1>1, <1>3, <1>4, <3>1, <3>3 DEF Shaped
    <3>5. QED
      BY <3>1, <3>3, <3>4, NoJobKind DEF Job
  <2>3. QED
    BY <2>1, <2>2
<1>8. PICK j \in {next, NoJob} : Stores(h, k, NoFile, j)
  BY <1>4, <1>5, <1>6 DEF RemoveView
<1>9. /\ j \in Job /\ j.kind \in {"none", "fill"} /\ (j.kind = "fill" => j = next) /\ (j = NoJob <=> j.kind = "none")
  BY <1>7, <1>8, NoJobKind
<1>10. mine[k] = NoFile /\ \A x \in Range(s) : mine[x] = NoFile
  BY <1>0, <1>1, <1>4, <1>5 DEF Owned
<1>11. k \in VaultKey /\ k # SchemaKey /\ k # PreviousKey
  BY KeyFacts
<1>12. work' \in [Hand -> Job] /\ work'[h] = j
  <2>1. NoFile \in Text \cup {NoFile} /\ j.kind # "export"
    BY <1>9
  <2>2. QED
    BY <1>0, <1>8, <1>9, <1>11, <2>1, StoresFacts
<1>13. /\ past' \in Past /\ past'.laid = past.laid /\ past'.replaced = past.replaced /\ past'.crossed = past.crossed
       /\ past'.cut = (past.cut /\ ~(j = NoJob /\ past.laid = work[h].layout))
  <2>1. PICK c \in BOOLEAN : c = (past.cut /\ ~(j = NoJob /\ past.laid = work[h].layout))
    OBVIOUS
  <2>2. past' = [past EXCEPT !.cut = c]
    BY <1>12, <2>1 DEF RemoveView
  <2>3. QED
    BY <1>3, <2>1, <2>2 DEF Past
<1>14. /\ LayoutsTypes' /\ Exported' /\ Owned' /\ \A g \in Hand \ {h} : GoesOn(g)
       /\ held'[k] = NoFile /\ \A x \in VaultKey \ {k} : held'[x] = held[x]
  <2>1. UNCHANGED <<jobs, edits, stops>> /\ removed' \subseteq VaultKey /\ mine' \in Stands /\ mine'[k] = NoFile
        /\ (\A x \in VaultKey : mine'[x] \in {mine[x], NoFile}) /\ NoFile \in Text \cup {NoFile}
    BY <1>1, <1>3, <1>10
  <2>2. j.kind = "fill" => Shaped(j) /\ \A x \in Range(j.drop) : mine[x] = NoFile /\ x \in VaultKey
    BY <1>5, <1>7, <1>9, <1>10, KeyFacts
  <2>3. past' \in Past
    BY <1>13
  <2>4. QED
    BY <1>2, <1>8, <1>9, <1>11, <2>1, <2>2, <2>3, FillStoresHolds
<1>15. ASSUME ~past.crossed
       PROVE  OneLayout' /\ OneOld' /\ SavedFirst' /\ Progressed' /\ LaidFirst' /\ WholeElse'
  <2>0. OneLayout /\ OneOld /\ SavedFirst /\ Progressed /\ LaidFirst /\ WholeElse
    BY <1>0, <1>15 DEF OneAtATime
  <2>1. ~SchemaAhead(h)'
    <3>1. j.kind = "fill" => j.step = "remove"
      BY <1>7, <1>9
    <3>2. QED
      BY <1>9, <1>12, <3>1 DEF SchemaAhead, Filling
  <2>2. /\ OneLayout' /\ OneOld' /\ \A g \in Hand \ {h} : Filling(g)' => Filling(g) /\ work'[g] = work[g]
        /\ \A g \in Hand \ {h} : SchemaAhead(g)' => SchemaAhead(g) /\ work'[g] = work[g]
    BY <1>0, <1>2, <1>7, <1>9, <1>12, <1>14, <1>15, <2>1, SameLayoutHolds
  <2>3. held'[SchemaKey] = held[SchemaKey] /\ held'[PreviousKey] = held[PreviousKey]
    BY <1>11, <1>14, KeyFacts
  <2>4. past.laid \in {work[h].layout, NoFile}
    BY <1>1, <1>2, <1>4, <2>0 DEF LaidFirst
  <2>5. \A x \in Range(ViewsOf[work[h].layout]) : x \in View /\ held'[x] = held[x]
    BY <1>3, <1>4, <1>5, <1>14, KeyFacts
  <2>6. SavedFirst'
    <3>1. SchemaSaved'
      BY <1>13, <1>15, <2>0, <2>3 DEF SavedFirst, SchemaSaved
    <3>2. ASSUME NEW g \in Hand, SchemaAhead(g)' PROVE AsRead(g)'
      <4>1. SchemaAhead(g) /\ work'[g] = work[g]
        BY <2>1, <2>2, <3>2
      <4>2. QED
        BY <2>0, <2>3, <4>1 DEF SavedFirst, AsRead, Saves, Template
    <3>3. \A g \in Hand : AsRead(g)'
      BY <3>2 DEF AsRead
    <3>4. QED
      BY <3>1, <3>3 DEF SavedFirst
  <2>7. Progressed'
    <3>1. ASSUME NEW g \in Hand, (work[g].kind = "fill" /\ work[g].step \notin {"old", "list"})' PROVE Stays(g)'
      <4>1. /\ work[g].kind = "fill" /\ work[g].step \notin {"old", "list"} /\ Filling(g)
            /\ work'[g].layout = work[g].layout /\ work'[g].seen = work[g].seen /\ work'[g].todo = work[g].todo
        <5>1. CASE g = h
          BY <1>1, <1>2, <1>7, <1>9, <1>12, <3>1, <5>1
        <5>2. CASE g # h
          BY <2>2, <3>1, <5>2 DEF Filling
        <5>3. QED
          BY <5>1, <5>2
      <4>2. work[g].layout = work[h].layout /\ Stays(g)
        BY <1>2, <2>0, <4>1 DEF OneLayout, Progressed
      <4>3. QED
        BY <1>1, <2>5, <4>1, <4>2 DEF Stays
    <3>2. QED
      BY <3>1 DEF Progressed
  <2>8. LaidFirst'
    <3>1. ASSUME NEW g \in Hand, (work[g].kind = "fill" /\ work[g].force /\ work[g].step \in {"put", "remove"}
                                  /\ ~SchemaAhead(g))'
          PROVE  past'.laid \in {work'[g].layout, NoFile}
      <4>1. CASE g = h
        BY <1>7, <1>9, <1>12, <1>13, <2>4, <3>1, <4>1
      <4>2. CASE g # h
        <5>1. Filling(g)'
          BY <3>1 DEF Filling
        <5>2. Filling(g) /\ work'[g].layout = work[h].layout
          BY <1>2, <2>0, <2>2, <4>2, <5>1 DEF OneLayout
        <5>3. QED
          BY <1>13, <2>4, <5>2
      <4>3. QED
        BY <4>1, <4>2
    <3>2. QED
      BY <3>1 DEF LaidFirst
  <2>9. WholeElse'
    <3> SUFFICES ASSUME ~past'.cut, past'.laid # NoFile, \A g \in Hand : Filling(g)' => work'[g].layout # past'.laid,
                        NEW x \in Range(ViewsOf[past'.laid]) \ removed'
                 PROVE  held'[x] # NoFile
      BY DEF WholeElse
    <3>1. past.laid = work[h].layout /\ past'.laid = work[h].layout
      BY <1>13, <2>4
    <3>2. Stays(h)
      BY <1>1, <2>0 DEF Progressed
    <3>3. x \notin Range(work[h].todo) /\ x \notin removed
      BY <1>1, <1>4, EmptyRange
    <3>4. held[x] # NoFile
      BY <3>1, <3>2, <3>3 DEF Stays
    <3>5. QED
      BY <2>5, <3>1, <3>4
  <2>10. QED
    BY <2>2, <2>6, <2>7, <2>8, <2>9
<1>16. QED
  BY <1>13, <1>14, <1>15 DEF LayoutsIInv, OneAtATime

-----------------------------------------------------------------------------
LEMMA LayoutsInitHolds == LayoutsInit => LayoutsIInv
<1> SUFFICES ASSUME LayoutsInit PROVE LayoutsIInv
  OBVIOUS
<1>1. PICK p \in Layout \cup {NoFile} :
       /\ held = [k \in VaultKey |->
                   IF p # NoFile /\ k \in {SchemaKey} \cup Range(ViewsOf[p]) THEN Template(p) ELSE NoFile]
       /\ past = [replaced |-> NoFile, laid |-> p, crossed |-> FALSE, cut |-> FALSE]
  BY DEF LayoutsInit
<1>2. /\ work = [h \in Hand |-> NoJob] /\ mine = [k \in VaultKey |-> NoFile] /\ removed = {}
      /\ jobs = 0 /\ edits = 0 /\ stops = 0
  BY DEF LayoutsInit
<1>3. \A h \in Hand : work[h] = NoJob /\ work[h].kind = "none" /\ ~Filling(h) /\ ~SchemaAhead(h)
  BY <1>2, NoJobKind DEF Filling, SchemaAhead
<1>4. LayoutsTypes
  <2>1. held \in [VaultKey -> Text \cup {NoFile}]
    BY <1>1, NoFileFacts
  <2>2. held[SchemaKey] # NoFile => held[SchemaKey].of \in Naming
    BY <1>1, KeyFacts, NoFileFacts DEF Naming
  <2>3. past \in Past
    BY <1>1 DEF Past
  <2>4. work \in [Hand -> Job]
    BY <1>2, NoJobKind
  <2>5. QED
    BY <1>2, <1>3, <2>1, <2>2, <2>3, <2>4, LayoutsAssumption DEF LayoutsTypes, LayoutsAssumption
<1>5. Exported
  BY <1>3 DEF Exported
<1>6. Owned
  BY <1>2, <1>3, KeyFacts DEF Owned, OwnKept
<1>7. OneAtATime
  <2>1. OneLayout /\ OneOld /\ Progressed /\ LaidFirst
    BY <1>3 DEF OneLayout, OneOld, Progressed, LaidFirst
  <2>2. SavedFirst
    BY <1>1, <1>3 DEF SavedFirst, SchemaSaved, AsRead
  <2>3. WholeElse
    <3> SUFFICES ASSUME past.laid # NoFile, NEW k \in Range(ViewsOf[past.laid]) PROVE held[k] # NoFile
      BY DEF WholeElse
    <3>1. p # NoFile /\ p \in Layout /\ k \in Range(ViewsOf[p])
      BY <1>1
    <3>2. k \in VaultKey /\ Template(p) # NoFile
      BY <3>1, KeyFacts, NoFileFacts
    <3>3. QED
      BY <1>1, <3>1, <3>2
  <2>4. QED
    BY <2>1, <2>2, <2>3 DEF OneAtATime
<1>8. QED
  BY <1>4, <1>5, <1>6, <1>7 DEF LayoutsIInv

LEMMA NextHolds ==
  ASSUME LayoutsIInv, [LayoutsNext]_layoutsVars
  PROVE  LayoutsIInv'
<1>1. CASE People
  BY <1>1, PeopleHolds
<1>2. ASSUME NEW h \in Hand, Asks(h) PROVE LayoutsIInv'
  BY <1>2, AsksHolds
<1>3. ASSUME NEW h \in Hand, Fills(h) PROVE LayoutsIInv'
  BY <1>3, ReadOldHolds, ListKeysHolds, SavePreviousHolds, CompareHolds, KeepKeyHolds, PutKeyHolds, RemoveViewHolds
     DEF Fills
<1>4. ASSUME NEW h \in Hand, Transfers(h) PROVE LayoutsIInv'
  <2>1. CASE work[h].kind = "import" /\ \E k \in work[h].todo : ImportPut(h, k)
    BY <2>1, ImportPutHolds
  <2>2. QED
    BY <1>4, <2>1, TransfersReadHolds DEF Transfers
<1>5. ASSUME NEW h \in Hand, Stop(h) PROVE LayoutsIInv'
  BY <1>5, StopHolds
<1>6. CASE UNCHANGED layoutsVars
  <2>1. UNCHANGED <<held, work, jobs, edits, stops, mine, removed, past>>
    BY <1>6 DEF layoutsVars
  <2>2. LayoutsTypes' /\ Exported' /\ Owned'
    BY <2>1 DEF LayoutsIInv, LayoutsTypes, Shaped, Saves, Template, Exported, Whole, Owned, OwnKept
  <2>3. (OneLayout <=> OneLayout') /\ (OneOld <=> OneOld') /\ (SchemaSaved <=> SchemaSaved') /\ (WholeElse <=> WholeElse')
    BY <2>1 DEF OneLayout, OneOld, SchemaSaved, WholeElse, Filling, SchemaAhead, Template
  <2>4. \A h \in Hand : (AsRead(h) <=> AsRead(h)') /\ (Stays(h) <=> Stays(h)')
    BY <2>1 DEF AsRead, Stays, SchemaAhead, Filling, Saves, Template
  <2>5. (Progressed <=> Progressed') /\ (LaidFirst <=> LaidFirst') /\ (SavedFirst <=> SavedFirst')
    BY <2>1, <2>3, <2>4 DEF Progressed, LaidFirst, SavedFirst, SchemaAhead, Filling
  <2>6. QED
    BY <2>1, <2>2, <2>3, <2>5 DEF LayoutsIInv, OneAtATime
<1>7. QED
  BY <1>1, <1>2, <1>3, <1>4, <1>5, <1>6 DEF LayoutsNext

(* What a switch of layouts replaces is saved and what people write stays theirs, a layout is whole when  *)
(* none is being written, and so is an export, for any layouts, requests, archives, edits and stops.      *)
THEOREM LayoutsKeep == LayoutsSpec => []LayoutsInv
<1>1. LayoutsInit => LayoutsIInv
  BY LayoutsInitHolds
<1>2. LayoutsIInv /\ [LayoutsNext]_layoutsVars => LayoutsIInv'
  BY NextHolds
<1>3. LayoutsIInv => LayoutsInv
  BY Follows
<1>4. QED
  BY <1>1, <1>2, <1>3, PTL DEF LayoutsSpec
=============================================================================
