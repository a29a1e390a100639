---------------------------- MODULE ServerCaches ----------------------------
(***************************************************************************)
(* What one server knows of a vault's storage while it and other servers   *)
(* write there: the listing that a sealed vault keeps for some seconds     *)
(* (_entries and _wrote in backends/sealed.py), the changes the servers    *)
(* tell each other (Publisher and Announcing in changes.py,                *)
(* SubjectVaults.apply and wrote in vault.py), and the index that a search *)
(* brings up to date with the listing.                                     *)
(*                                                                         *)
(* Reading a vault tells other servers nothing, so one server is enough:   *)
(* writes come to it or to another.  Versions of objects are numbered in   *)
(* the order they are stored; being deleted is a version like any other.   *)
(* The generation a reader noted is kept as whether it is still current.   *)
(* Writes come over WebDAV; the inner steps of a sync are VaultIndex's.    *)
(***************************************************************************)
EXTENDS Naturals, Sequences

CONSTANTS
  Writer,       \* writes, one each
  KeyOf,        \* the object each writes
  Capacity,     \* PENDING_CHANGES
  MaxRefused,   \* bound: writes that fail
  NoListing

Key == {KeyOf[w] : w \in Writer}
Role == {"search", "list"}   \* a search and another reader of the listing

ASSUME ServerCachesAssumption ==
  /\ Capacity \in Nat /\ MaxRefused \in Nat
  /\ NoListing \notin [Key -> Nat]

VARIABLES
  store, versions,  \* the version of each object, versions so far
  writing,          \* each write: its step, the version it stored, whether it came to this server
  queue,            \* the changes the other servers have yet to send
  bus,              \* the changes on their way to this one
  hearing,          \* the change it is applying
  listing, young,   \* _listing, and whether it is younger than LISTING_TTL
  stale,            \* the mark of the open vault
  rows, synced,  \* the versions its index has, and whether last_sync is recent
  reading,          \* each reader: its step, what it read, whether the generation it noted still is
  own, heard,       \* the latest versions this server wrote and was told of
  refused

storeVars == <<store, versions>>
busVars == <<queue, bus, hearing>>
listingVars == <<listing, young>>
syncVars == <<stale, rows, synced>>
tellVars == <<own, heard, refused>>
cachesVars == <<storeVars, writing, busVars, listingVars, reading, syncVars, tellVars>>

Versions == [Key -> Nat]
First == [k \in Key |-> 0]
At(f, c) == IF c.version > f[c.key] THEN [f EXCEPT ![c.key] = c.version] ELSE f
Still == [pc |-> "idle", read |-> First, intact |-> FALSE, need |-> First, told |-> First]
Told == [key : Key, version : Nat]
ChangeOf(w) == [key |-> KeyOf[w], version |-> writing[w].version]

CachesInit ==
  /\ store = First /\ versions = 0
  /\ writing \in [Writer -> [pc : {"idle"}, version : {0}, here : BOOLEAN]]
  /\ queue = <<>> /\ bus = {} /\ hearing = {}
  /\ listing = NoListing /\ young = FALSE
  /\ stale = FALSE /\ rows = First /\ synced = FALSE
  /\ reading = [x \in Role |-> Still]
  /\ own = First /\ heard = First /\ refused = 0

-----------------------------------------------------------------------------
(* A write. *)

NextGeneration == reading' = [x \in Role |-> [reading[x] EXCEPT !.intact = FALSE]]

(* _changed: the listing is forgotten, and one being read will not be kept. *)
Forget == listing' = NoListing /\ NextGeneration

Store(w) ==
  /\ writing[w].pc = "idle"
  /\ versions' = versions + 1 /\ store' = [store EXCEPT ![KeyOf[w]] = versions + 1]
  /\ writing' = [writing EXCEPT ![w].pc = IF writing[w].here THEN "patch" ELSE "announce",
                               ![w].version = versions + 1]
  /\ UNCHANGED <<busVars, listingVars, reading, syncVars, tellVars>>

(* Whether a write that raised was stored is unknown. *)
Refuse(w) ==
  /\ writing[w].pc = "idle" /\ refused < MaxRefused /\ refused' = refused + 1
  /\ \/ versions' = versions + 1 /\ store' = [store EXCEPT ![KeyOf[w]] = versions + 1]
     \/ UNCHANGED storeVars
  /\ writing' = [writing EXCEPT ![w].pc = "done"]
  /\ IF writing[w].here THEN Forget ELSE UNCHANGED <<listing, reading>>
  /\ UNCHANGED <<busVars, young, syncVars, own, heard>>

(* _wrote: the cached listing has this process's write at once. *)
Patch(w) ==
  /\ writing[w].pc = "patch"
  /\ listing' = IF listing = NoListing THEN listing ELSE [listing EXCEPT ![KeyOf[w]] = writing[w].version]
  /\ NextGeneration
  /\ writing' = [writing EXCEPT ![w].pc = "wrote"]
  /\ UNCHANGED <<storeVars, busVars, young, syncVars, tellVars>>

(* wrote: the open vault is stale, its listing is not.  The request ends. *)
Wrote(w) ==
  /\ writing[w].pc = "wrote"
  /\ stale' = TRUE /\ own' = At(own, ChangeOf(w))
  /\ writing' = [writing EXCEPT ![w].pc = "done"]
  /\ UNCHANGED <<storeVars, busVars, listingVars, reading, rows, synced, heard, refused>>

-----------------------------------------------------------------------------
(* The changes of the other servers, which a full queue drops, and a bus   *)
(* may lose, delay and reorder.                                            *)

Announce(w) ==
  /\ writing[w].pc = "announce"
  /\ queue' = IF Len(queue) = Capacity THEN queue ELSE Append(queue, ChangeOf(w))
  /\ writing' = [writing EXCEPT ![w].pc = "done"]
  /\ UNCHANGED <<storeVars, bus, hearing, listingVars, reading, syncVars, tellVars>>

Send ==
  /\ queue # <<>> /\ queue' = Tail(queue)
  /\ bus' \in {bus, bus \cup {Head(queue)}}
  /\ UNCHANGED <<storeVars, writing, hearing, listingVars, reading, syncVars, tellVars>>

(* apply marks the vault: first the listing goes, then the index is stale. *)
Hear ==
  /\ hearing = {}
  /\ \E c \in bus : bus' = bus \ {c} /\ hearing' = {c}
  /\ Forget
  /\ UNCHANGED <<storeVars, writing, queue, young, syncVars, tellVars>>

Heard ==
  /\ \E c \in hearing : heard' = At(heard, c)
  /\ hearing' = {} /\ stale' = TRUE
  /\ UNCHANGED <<storeVars, writing, queue, bus, listingVars, reading, rows, synced, own, refused>>

-----------------------------------------------------------------------------
(* Reading the listing. *)

Reads(x, to) == reading' = [reading EXCEPT ![x] = to]
readsNothingElse == <<storeVars, writing, busVars, tellVars>>

(* A search takes the mark; without one it syncs only now and then. *)
BeginSearch ==
  /\ reading["search"].pc = "idle"
  /\ stale' = FALSE
  /\ Reads("search", [Still EXCEPT !.pc = IF synced /\ ~stale THEN "answer" ELSE "list",
                                   !.need = own, !.told = heard])
  /\ UNCHANGED <<readsNothingElse, listingVars, rows, synced>>

BeginList ==
  /\ reading["list"].pc = "idle"
  /\ Reads("list", [Still EXCEPT !.pc = "list"])
  /\ UNCHANGED <<readsNothingElse, listingVars, syncVars>>

\* Mutant: a listing does not age.
CachedForGood == listing # NoListing

Cached == listing # NoListing /\ young

UseListing(x) ==
  /\ reading[x].pc = "list" /\ Cached
  /\ Reads(x, [reading[x] EXCEPT !.pc = "apply", !.read = listing])
  /\ UNCHANGED <<readsNothingElse, listingVars, syncVars>>

NoteGeneration(x) ==
  /\ reading[x].pc = "list" /\ ~Cached
  /\ Reads(x, [reading[x] EXCEPT !.pc = "read", !.intact = TRUE])
  /\ UNCHANGED <<readsNothingElse, listingVars, syncVars>>

ReadListing(x) ==
  /\ reading[x].pc = "read"
  /\ Reads(x, [reading[x] EXCEPT !.pc = "keep", !.read = store])
  /\ UNCHANGED <<readsNothingElse, listingVars, syncVars>>

\* Mutant: a listing is kept though the store was written while it was read.
KeepAnyListing(x) ==
  /\ reading[x].pc = "keep"
  /\ listing' = reading[x].read /\ young' = TRUE
  /\ Reads(x, [reading[x] EXCEPT !.pc = "apply", !.intact = FALSE])
  /\ UNCHANGED <<readsNothingElse, syncVars>>

(* A listing is kept only if nothing was written or forgotten while it was read. *)
KeepListing(x) ==
  /\ reading[x].pc = "keep"
  /\ IF reading[x].intact THEN listing' = reading[x].read /\ young' = TRUE ELSE UNCHANGED listingVars
  /\ Reads(x, [reading[x] EXCEPT !.pc = "apply", !.intact = FALSE])
  /\ UNCHANGED <<readsNothingElse, syncVars>>

ApplyListing ==
  /\ reading["search"].pc = "apply"
  /\ rows' = reading["search"].read /\ synced' = TRUE
  /\ Reads("search", [reading["search"] EXCEPT !.pc = "answer"])
  /\ UNCHANGED <<readsNothingElse, listingVars, stale>>

EndSearch ==
  /\ reading["search"].pc = "answer" /\ Reads("search", Still)
  /\ UNCHANGED <<readsNothingElse, listingVars, syncVars>>

EndList ==
  /\ reading["list"].pc = "apply" /\ Reads("list", Still)
  /\ UNCHANGED <<readsNothingElse, listingVars, syncVars>>

(* LISTING_TTL and SYNC_THROTTLE_SECONDS go by. *)
Age ==
  /\ young /\ young' = FALSE
  /\ UNCHANGED <<readsNothingElse, listing, reading, syncVars>>

Unthrottle ==
  /\ synced /\ synced' = FALSE
  /\ UNCHANGED <<readsNothingElse, listingVars, reading, stale, rows>>

-----------------------------------------------------------------------------
SearchStep ==
  BeginSearch \/ UseListing("search") \/ NoteGeneration("search") \/ ReadListing("search")
  \/ KeepListing("search") \/ ApplyListing \/ EndSearch

CachesNext ==
  \/ \E w \in Writer : Store(w) \/ Refuse(w) \/ Patch(w) \/ Wrote(w) \/ Announce(w)
  \/ Send \/ Hear \/ Heard \/ Age \/ Unthrottle
  \/ BeginSearch \/ BeginList \/ ApplyListing \/ EndSearch \/ EndList
  \/ \E x \in Role : UseListing(x) \/ NoteGeneration(x) \/ ReadListing(x) \/ KeepListing(x)

(* Somebody searches, and time passes. *)
CachesFairness == WF_cachesVars(SearchStep) /\ WF_cachesVars(Age) /\ WF_cachesVars(Unthrottle)

CachesSpec == CachesInit /\ [][CachesNext]_cachesVars /\ CachesFairness

-----------------------------------------------------------------------------
CachesTypeOK ==
  /\ store \in Versions /\ versions \in Nat
  /\ writing \in [Writer -> [pc : {"idle", "patch", "wrote", "announce", "done"}, version : Nat,
                           here : BOOLEAN]]
  /\ queue \in Seq(Told) /\ bus \subseteq Told /\ hearing \subseteq Told
  /\ listing \in Versions \cup {NoListing} /\ young \in BOOLEAN
  /\ stale \in BOOLEAN /\ rows \in Versions /\ synced \in BOOLEAN
  /\ reading \in [Role -> [pc : {"idle", "list", "read", "keep", "apply", "answer"},
                           read : Versions, intact : BOOLEAN, need : Versions, told : Versions]]
  /\ own \in Versions /\ heard \in Versions /\ refused \in Nat

Answers == reading["search"].pc = "answer"

(* A search has what its own server had written when it began, though a listing read before the write
   ends after it and the cached listing is patched, not read anew. *)
OwnWritesShown == Answers => \A k \in Key : rows[k] >= reading["search"].need[k]

(* A search has what its server had been told of when it began, without waiting for the listing to
   expire or for the next sync. *)
HeardShown == Answers => \A k \in Key : rows[k] >= reading["search"].told[k]

(* A search has what its server had written and what it had been told of. *)
CachesInv == CachesTypeOK /\ OwnWritesShown /\ HeardShown

(* A change that was dropped, lost or never announced is found all the same: once the writes end,
   the index ends up as the storage is. *)
CachesConverge == <>[](rows = store)
=============================================================================
