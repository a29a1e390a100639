# A verification project for mindin

mindin keeps a vault of markdown notes (on disk, in an S3 bucket, or sealed on
a vault server), indexes it in SQLite and serves it to agents over MCP and to
editors over WebDAV. This directory holds TLA+ models of the parts where
several clients, servers, processes and people meet, TLC runs that check them,
and TLAPS proofs. `PROJECT.json` lists the components, the runs, the source
lines every definition stands for, the hazards, the theorems and the findings.

Contents: [the system](#the-system), [modules](#modules),
[runs and bounds](#runs-and-bounds), [fairness](#fairness),
[findings](#findings), [proofs](#proofs),
[what is only model-checked](#what-is-only-model-checked),
[what is not modelled](#what-is-not-modelled), [what is left](#what-is-left).

## The system

| Component | State | Operations | Meets | Correct when |
|---|---|---|---|---|
| Note handlers (`notes.py`, `tasks.py`) | none of their own: what a handler has read | append, write (with and without etag), set_status, park, close, move, delete, log_append, backlog_add, open_task, claim, release | read and write a storage backend, then the index | no answered edit is lost or doubled, a claim changes by command only, what a call had read and is gone stays gone, every call ends |
| Storage backends (`backends/`) | objects and their versions; `CHECKED_WRITES`, one lock per process; the listing cache of a sealed vault; whether an S3 server takes conditional requests | get, put, put_checked, delete, delete_checked, move, list | every writer below | a checked write never replaces what the caller has not read; a listing never shows less than this process wrote |
| Vault and index (`vault.py`, `index.py`) | rows, last_sync, schema and schema_version, the stale mark | sync, upsert, remove, rebuild, reload_schema, mark_stale, catch_up | every tool call syncs first; WebDAV and the change bus mark it | rows and schema follow the storage |
| WebDAV (`dav.py`) | none | PUT, DELETE, MKCOL, MOVE, COPY | writes the backend without a version, then marks the vault | nothing half moved or half deleted |
| Open vaults (`vault.py`) | the table of open vaults, holds, snapshot timers | acquire, release, discard, evict, sweep, snapshot, restore | every request of a server | no vault is closed under a request, a deleted vault does not come back |
| Change bus (`changes.py`) | a bounded queue | publish, drain, close, apply | other servers' vaults | a missed change costs time, never correctness |
| Vectors (`vectors.py`, `embed_worker.py`, `embedding.py`) | lease, generation, worker process | refresh, take and release the lease, spawn, idle exit | the index's rows | one embedder at a time, the lease outlives none, a lost worker is replaced |
| Accounts and members (`auth/hosted_store.py`, `hosted_members.py`) | accounts, vaults, keys, members, invitations | invite, accept, remove, hand over, delete | SQLite transactions | every vault has an owner, who was removed reaches nothing |
| OAuth, device flow, keys (`auth/hosted.py`, `device.py`, `hosted_keys.py`) | codes, tokens, device rows, keys | authorize, exchange, refresh, revoke, poll, approve, deny | browser and client race | one code, one token; a denied device gets none |
| Sign-in (`auth/login*.py`, `identities.py`) | ceremonies, identities, sessions, hit counters | start, callback, complete, attach, remove a way in | the provider, the same browser's other requests | nobody signs in as another, nobody is locked out |
| Requests (`auth/hosted.py`, `hosted_vaults.py`, `server.py`, `dav.py`) | what a request has read so far | authenticate, choose the vault, check the scope, act | all of the above, while they change | a request acts on what its credential reaches |
| Keys, deletion, snapshots (`auth/hosted_keys.py`, `hosted_deletion.py`, `hosted_snapshots.py`) | data keys, sealed objects, snapshots | create, rewrap, shred, delete vault and account, save, restore | each other, killed in between | nothing readable is left of what was deleted |
| Shared vaults (`shared.py`, `auth/hosted_history.py`) | the change history | write with before-image, restore | the backend | every change is recorded once, with its before-image |
| Layouts, import, export (`provision.py`, `auth/hosted_vault_pages.py`) | schema, views, the saved previous schema | initialize, switch, import, export | people who edit the same files | what a person wrote is not lost |
| Lifecycle (`schema.py`, `notes.py`, `tasks.py`, `vault.py`) | the layout in effect | create, close, park_stale, lint | the tools | what the tools write lints clean |
| The user's machine (`hooks.py`, `changelog.py`, `places.py`, `credentials.py`, `install_signal.py`, `proxy.py`) | small JSON and TOML files, one connection | hooks, commands, requests | two sessions, two terminals | nothing remembered is dropped, nobody waits for ever |
| Search, pages, CLI output | – | | | I/O and pure functions |

What is hard here is concurrency without transactions: a handler is a handful
of separate storage requests, the storage guards single requests at best, and
threads, servers and machines interleave between them. The vault server runs
tool calls and WebDAV requests on worker threads; the folder of a local vault
is shared by one stdio server per MCP client, and a bucket by several machines.
`sqlite3` begins a transaction at the first write, so in the account store too
a check and the write that relies on it are apart.

The parts meet as follows. A request is let in by a credential (`Grants`,
`Access`) that rests on a membership (`Membership`) and, for people, on a
sign-in (`SignIn`). It opens the vault on its server (`OpenVaults`), whose
index is restored from a sealed copy (`Snapshots`), syncs it with the storage
(`VaultIndex`) through the listing a sealed vault keeps (`ServerCaches`), and
runs a handler (`NoteStore`), in a shared vault with a record of the change
(`SharedHistory`). Other servers hear of it over the change bus
(`ServerCaches`). WebDAV writes the same storage (`DavTree`).

## Modules

| Module | Models | Source |
|---|---|---|
| `NoteStore` | the note handlers step by step over a backend | notes.py, tasks.py, backends/, the PUT of dav.py |
| `NoteBook` | what the handlers promise: every call is one step | notes.py, tasks.py, read as whole calls |
| `VaultIndex` | Index.sync, Vault.sync and what disturbs them | index.py, vault.py |
| `OpenVaults` | the open vaults of several servers, the data key, deletion, rewrap, sweep | vault.py, hosted_keys.py, hosted_vault_pages.py |
| `Snapshots` | the sealed copies of an index | vault.py, hosted_snapshots.py |
| `ServerCaches` | the listing cache, the change bus, a search's sync | backends/sealed.py, changes.py, vault.py |
| `Membership` | accounts, vaults, members, invitations | hosted_store.py, hosted_vaults.py, hosted_vault_pages.py, hosted_shared_pages.py, hosted_keys.py |
| `Grants` | codes, tokens, device codes, keys and what ends them | hosted.py, hosted_web.py, device.py, hosted_store.py |
| `SignIn` | ceremonies, ways in, sessions | login.py, login_email.py, login_oidc.py, login_passkey.py, identities.py |
| `Layouts` | layouts, import, export | provision.py, presets.py, hosted_vault_pages.py, hosted_transfer.py |
| `Access` | how a request comes to act on a vault | hosted.py, hosted_vaults.py, login_forwarded.py, server.py, dav.py |
| `Support` | support access of the staff | hosted_access.py, hosted_store.py |
| `RateLimits` | the limits on sign-ins, of one server and of several | hosted_web.py |
| `Lifecycle` | schema, lint, the tools' frontmatter, park_stale | schema.py, frontmatter.py, notes.py, tasks.py, vault.py |
| `SharedHistory` | a shared vault's changes and restores | shared.py, hosted_history.py |
| `DavTree` | folders over WebDAV | dav.py |
| `Vectors`, `EmbedWorker` | embedding under a lease; the shared worker process | vectors.py; embed_worker.py, embedding.py |
| `ChangeLog`, `StopHook` | the month's page; the hooks | changelog.py, notes.py; hooks.py |
| `LocalConfig`, `InstallSignal` | config and credentials; the install signal | cli.py, places.py, credentials.py, login.py; install_signal.py |
| `Upstream` | the stdio proxy's one connection | proxy.py, remote.py |
| `MC…` | values for the runs; each is named after what it instantiates | – |
| `…Proofs` | theorems, see [Proofs](#proofs) | – |

`PROJECT.json`'s "map" has the exact lines.

**How the modules are written.** An operation is a program counter in a record
per actor, and an action for each stretch of code between two points where
something else can run: a storage request, a transaction, an `await`. What a
handler has read and still uses is in that record. Constants that name a bound
are called `Max…`, and the guards use nothing else to cut behaviours.

**NoteStore.** A note is a set of lines, each the edit of one call, and a
claim. `h[c]` is the handler client `c` runs: its program counter, what it has
read (`snap`, `held`), where it writes (`tgt`), its attempt, the names it lost.
Each action is one storage request, or the compare and the write of a local
folder, which are two file operations with `CHECKED_WRITES` around them. A
`Backend` record says which: `atomic` (one conditional request), `digests`
(the version is a digest of the text, so equal texts have equal versions),
`raises` (deleting what is missing raises), `move`. A conflict sends the
handler back to its first step with one attempt less (`Retries`), as the loops
of rewrite, close, backlog_add and claim_note do. `acked` is history: the lines
of calls that stored successfully, less those a later call meant to discard.
`Crash` kills a process and all its handlers. `Founds` names the calls that may
make a note where there is none: one that had found it gone, a filing or an
archiving under a free name, a move at its target, a PUT; `NothingRevived` says
that no other does, where every write is `Guarded`. On a local folder on which
notes are moved, deleted or PUT it promises nothing, for it would be false
([finding 2](#findings)); there `notes_checked`, whose calls are all versioned,
is the run that checks it, and in `notes_mixed` the sealed store.

**NoteBook** is the abstract specification: a call asks, and then takes effect
or fails in one step. `Book` in NoteStore is the refinement mapping: the
archived copy that a close may still take back is not in the book, and a call
takes effect with its conditional write or, for a close that archives, with
the delete of its source.

**VaultIndex.** `store` and `row` per note, `recent` (is last_sync less than 20
seconds old), the vault's `stale` mark, `schema` and `schemaVersion`, the
`index` object's languages and version. A tool call syncs (take the mark, list,
compare, drop rows, fetch, write rows with the *listed* version, set last_sync),
reloads the schema when the listing shows another version, and then acts.
WebDAV writes and marks; the layout page writes the schema and reloads it;
`Elsewhere` is any other writer. When a reload finds other languages it closes
the index under every thread that is syncing with it (`old`), as reload_schema
does. `due` has the notes that an answered write touched last, `owes` those a
call begun since must show. `listed` is history: a call on its own has listed
the storage since the start, and none overlapped another since; a restart
forgets the mark while the index file keeps last_sync (`index.py:441`,
`index.py:454`). With `Digests` false the storage is that of a vault server,
where every write has a version of its own; with `Digests` true it is a folder or a bucket,
whose versions are digests of the text. A listing is one step: every property
relates a path to itself, so a listing spread over time adds nothing for it.
Two details are coarser than the code: the delete and insert of a row are one
SQLite transaction, and the new Index's own dropping of rows is one step with
rebuild's.

**OpenVaults.** One vault on several servers: the table (`table`), the gate
that serializes opening and closing, holds, the key row and the keys of the
sealed objects, the local indexes. Requests acquire, read, write and release;
a request for any vault evicts the idle ones first (`_acquire`,
`vault.py:447`: nothing else does, no timer), the server discards a vault it
erases, sweeps indexes, and restarts; a command rewraps the key. `Busy` are the
servers that keep getting requests. `Opened`, `Closed`, `Erased` are history.

**Snapshots.** The content of the index and of the stored copy as numbers of
changes; the worker's queue, timers, the interval, the deletion of the vault
and the server's end, each between the steps of a copy being stored (seal,
put, check that the vault is still there, take the copy back).

**ServerCaches.** The listing cache with its generation, patches and time of
keeping; the publisher's bounded queue, a bus that drops and delays, `apply`
of a write with what it drops of the listing and marks at the index; searches
that list, or use what is kept, and sync. A vault that is gone is announced in
OpenVaults; the changes "schema" and "all" are in neither.

**Membership, Grants, SignIn.** The account store. In Membership an operation
is a check and a write on one of several processes, and `overlapped` remembers
whether two were ever under way at once. In Grants every grant (request, code,
token pair, device code, key) has a number, `of` names what it was made from,
and `ended` what was done to it. In SignIn a ceremony is a row which whoever
takes it deletes, and the provider's answer arrives between two steps.

**Access.** A request reads its credential, the vault by its address, the
membership and the account row by row; `Moments` is history, what the
credential would have reached at each moment since the request began.

**The others.** `Support` (grants of support access and the staff's logged
commands, while the vault changes hands), `RateLimits` (hits in slots and
counters shared by servers whose clocks differ by `Ahead`), `Layouts` (jobs
that write, switch, import and export entry by entry between the edits of
people, and may stop), `Lifecycle` (one vault of few notes under each of six
schemas), `SharedHistory` (read the before-image, write, store blobs, add the
row), `DavTree` (paths as sequences of characters because which path begins
with which matters), `Vectors` (lease, batches, generation, and the matrix that
the threads of a process share: a search reads the generation, then the rows,
then assigns keys, matrix and generation, each a step, and `crossed` remembers
that two of a process did so at once), `EmbedWorker` (sockets, the spawn lock,
versions), `ChangeLog` (a page as a sequence of prose, markers and block, in a
bucket that compares and writes in one request or in a folder where a writer
compares first and writes then, `inOneRequest`), `StopHook`, `LocalConfig`,
`InstallSignal` (files read whole and written whole by processes nothing keeps
apart), `Upstream` (one task that owns a connection, requests that wait for it
with events).

## Runs and bounds

| Run | Instance | Shows |
|---|---|---|
| `notes_checked` | 3 clients of one server, one versioned call each (append, log, write, write with etag, set_status, close of a note and of an archived one, park, backlog_add, open_task, claim, forced claim, release); a folder, a bucket, sealed storage; 1 crash | `AckedKept` no answered edit is lost, `OneCopy` none is doubled, `InOneStep` every call is one step of the book, `NothingRevived` what a close archived does not come back |
| `notes_mixed` | 2 clients, 2 calls each of close, delete, write with etag, WebDAV PUT, move, claim, forced claim, release; a folder and sealed storage | on sealed storage `ClaimsByCommand` and `NothingRevived`; on both `CallsEnd` under fairness |
| `notes_two_processes` | 2 servers on one folder, an append each | violation: see [findings](#findings) |
| `notes_deleted` | 1 server on a folder, an append and a delete | violation: see [findings](#findings) |
| `index` | one note, two schemas in two languages, another server, fresh versions; `part` "turns": tool calls in turns, 1 WebDAV thread, 2 writes, 1 failed request, 1 restart; "overlap": 2 tool threads, 1 web thread with the layout page, 1 write | `ShownInTurn`, `RowTrue`, and `RowsFollow`, `SettlesInTurns` under fairness |
| `index_shown` | 2 tool threads, 1 WebDAV thread, 1 write | violation: see [findings](#findings) |
| `accounts` | 2 accounts, 2 addresses, 3 vaults, 2 processes; 2 handlers, 3 grants; 2 persons, 2 browsers, 4 ways in of three kinds, 2 ceremonies, registration closed; 3 layouts, 2 notes, 2 requests, 2 jobs, 1 edit by hand, 1 stop | `MembershipInv`, `NobodyLosesAVault`, `GrantsInv`, `SignInInv`, `LayoutsInv` |
| `vaults` | 2 servers, of which 1 is sure of further requests, 2 requests, 1 deletion, 1 restart, 2 master keys | `VaultsInv`, `KeysInv`, `HousekeepingSpares`, and `IndexesGo` under fairness |
| `caches` | a copy's index with 2 changes, 1 failure, 1 kill; 2 servers with a writer each, a queue of 1, 1 refused announcement | `SnapshotsInv`, `CachesInv`, and `SavedSoon`, `CachesConverge` under fairness |
| `files` | 2 authors, 2 paths, 2 texts, 3 changes, 1 stop; a WebDAV request on 5 files and 2 folders beside another writer's write and a failure; 2 processes that embed 2 notes one at a time, 2 syncs, and either 1 fault and no search or 2 threads of one process that search; 2 clients of 2 releases, 3 workers, 2 requests each, 1 kill | `HistoryInv`, `DavInv`, `VectorsInv`, `WorkerInv`, and `AllEmbedded` under fairness |
| `requests` | 2 vaults (1 shared), 2 accounts, one credential of each of five kinds, a request with one of 4 tools, 2 changes under it; 2 owners, 2 desks, 2 days, 2 hand-overs; 3 servers, one of them 1 ahead, of which at most 2 share the counts, 5 hits, limit 2 in a window of 2; 3 notes, 6 layouts, 2 days, 3 calls | `AccessInv`, `SupportInv`, `RatesInv`, `LifecycleInv` |
| `machine` | 2 writers of a page in a bucket and in a folder, 3 writes, 2 edits by hand; 2 sessions, 3 hooks; 2 commands at a time of 3, 1 kill; 2 senders, 2 days; 3 requests over 3 connections | `PagesInv`, `StopInv`, `ConfigInv`, `SignalInv`, `UpstreamInv` |

A run of several parts (`index`, `accounts`, `caches`, `files`, `requests`, `machine`)
has a variable `part`: a behaviour is one part's, and the others stay at their
beginning. Nothing is lost by that, for no part reads another's state; in `index` and in
the two parts of `Vectors` the parts are bounds on one module's behaviours.

Most invariants are conjunctions of named parts:

| Invariant | Parts |
|---|---|
| `VaultsInv` | `OneObject`: a server has one object of the vault open, not closed under a call |
| `KeysInv` | `OneKey`: what is sealed is sealed under the key of the row; `KeyGone`: no vault, no key |
| `HousekeepingSpares` | `KeyStays`, `IndexStays`: a rewrap and a sweep take nothing of a vault nobody deletes |
| `SnapshotsInv` | `SavedLast`: a server that ends in order leaves the last state; `NoneLeftBehind`: a deleted vault leaves no copy |
| `CachesInv` | `OwnWritesShown`, `HeardShown`: a search has what its server wrote or was told of before it began |
| `MembershipInv` | `OwnersExist`; `AddressesUniqueInTurn`, as long as no operations overlap |
| `GrantsInv` | `OneSuccessor`: a code, refresh token or device is exchanged once; `EndedForGood` |
| `SignInInv` | `WaysOfTheirOwn`, `AWayIn`, `WorksOnce` |
| `LayoutsInv` | `SchemaSaved`, `LayoutWhole`, `OwnKept`, `ExportWhole` |
| `AccessInv` | `ActsAsAllowed`, `NoOtherVault`, `WritesSigned` |
| `SupportInv` | `SupportIsTheOwners`, `LooksAreLogged` |
| `RatesInv` | `OwnLimit`, `SlotLimit`, `BurstLimit`: what a window takes, of one server and of several |
| `LifecycleInv` | `LintClean`: what the tools write lints clean; `ParkSettles`: parking twice parks nothing new |
| `HistoryInv` | `RowsHaveBlobs`, `ReplacedTextKept` |
| `DavInv` | `FilesKept`, `TargetIsSource`, `OthersUntouched` |
| `VectorsInv` | `MatrixCurrent`, unless two threads of a process read the matrix at once; `OneEmbeds` |
| `WorkerInv` | `NoneHidden`, `OneLossSurvived` |
| `PagesInv` | `ProseKept`, `OneBlock`, `OlderOnlyWhenOvertaken` |
| `StopInv` | `AskedOnce`, `ReposKept`, `PagesFollow` |
| `ConfigInv` | `BucketHasKeys`, `SignedInKept`, `DefaultHeld`, `ServerSignedIn` |
| `SignalInv` | `OnceADay`, `NewInstall` |
| `UpstreamInv` | `NobodyForgotten`, `FindsWhatIsThere`, `RepeatedOverNewOnes` |

**Why the bounds are enough.** A race here is one actor acting between two
steps of another; two actors have it, and a third makes a first retry run into
a second rival. The code makes 4 attempts at a rewrite and 3 at a claim;
`Attempts` is 3 and `ClaimAttempts` 2, which loses no behaviour but the later
attempts: a rewrite has at most two rivals in time here, and a claim whose
rival claims and releases does give up (`notes_mixed`). Each title has three
names, so that the first free one and one lost to a rival both happen. One note
is enough in VaultIndex, where no property relates two notes; two schema texts
in two languages give a plain reload and a rebuild. One failure or kill at any
step is what the recovery code is written for. Where a theorem states the same
property the bounds do not matter for it.

In `notes_checked` claims are taken and released only where versions are not
reused: a digest comes back with the text it is of, and with it a claim that
was taken and released meanwhile (see [findings](#findings)).

**Symmetry** is used for the actors (`notes_checked`, `accounts`, `machine`)
and for accounts and addresses, and only in runs that check no liveness. A set of
actors is permuted in one step with the others that stand for the same ones.

**Deadlock** is not checked: a client, a server or a command with nothing more
to do stops.

The two searching threads need no failure beside them, and two embedding
processes no search: what a search relies on is the generation, which every
write moves. Without the exception for loads that cross TLC finds them in the
part with two threads, and without `listed` it finds a restart in `index`.

## Fairness

Weak fairness only, and of steps that the code goes on to make by itself:

- NoteStore: `WF(Continue(c))`, a thread that runs a handler keeps running it.
  A handler never waits for another but at `CHECKED_WRITES`, which its holder
  leaves in its next step.
- VaultIndex: the threads, `Tick` (time passes) and `Search(t)`: that rows
  and schema follow the storage is a claim about a vault somebody uses.
- OpenVaults: a request's own steps from its lookup on, its end, the sweep,
  which runs on a timer, and eviction on the servers that keep getting requests
  (`Busy`), for only a request evicts. `IndexesGo` is about those servers: one
  that missed the change "gone" and gets no request keeps the vault open, and
  its sweep spares the index.
- Snapshots: the worker, `Settle`, the interval running out and the timer that
  then calls, and a server's leaving a vault (by eviction or its end).
- ServerCaches: a search's steps, the listing's growing old, and the end of the
  pause after a failed announcement.
- Vectors: that the lease of a process that died runs out, and the embedding
  loop of each process.

Nothing is assumed of failures, crashes, lost messages or other writers.

## Findings

The three violation runs check what the documentation says:

1. `notes_two_processes`: *two stdio servers on one folder lose an answered
   edit.* The compare and the write of a local folder are guarded by a lock of
   one process (`backends/local.py:131`); CHANGES.md:74 says that two writes to
   one note at the same moment both land.
2. `notes_deleted`: *on a local folder a deleted note is written back.* delete
   takes no lock (`backends/local.py:146`), so it may fall between the compare
   and the write of an append in the same server (`backends/local.py:131`);
   both answer success, and the note is there again with the text the append
   had read. The docstring of rewrite (`notes.py:95`) says that it writes only
   over the version it read.
3. `index_shown`: *a search shows what a WebDAV request deleted before it
   began.* Of two overlapping tool calls the first has fetched the note when it
   is deleted and the vault marked; the second takes the mark (`vault.py:109`),
   lists and finds no row to drop; the first then writes the row, and the
   second answers. CHANGES.md:81 says that an edit shows at once. What holds is
   `ShownInTurn`: once a call on its own has listed the storage since the start,
   and until calls overlap again, each shows it. A
   restart is the other exception: the mark is lost with the process, last_sync
   stays in the index file (`index.py:441`), and for up to 20 seconds searches
   use the rows of before.

The following came up while modelling. The properties of the runs leave them
out (by a bound, by a history variable such as `overlapped`, `late` or
`kills`, or by a hypothesis), and no run shows them.

*Notes.* On a local folder a move, a PUT or another server's write falls
between a comparison and a write as a delete does. write_file with an etag
reads the claim apart from the version (`notes.py:183`): a claim that comes or
goes around that read is changed by the write. Where versions are digests a
claim taken and released meanwhile brings the version back, and the write the
claim. close's rollback deletes whatever the copy holds by then, an answered
append to it too (`notes.py:329`). A server killed inside close leaves the note
and its copy (`OneCopy` is about behaviours without a crash).

*Index.* With two tool calls at once a schema edit can go unnoticed until the
next one (`vault.py:113`: one thread loads the old schema, another adopts the
new one, the first adopts the old and settles the newer version;
docs/reference/schema.md:96 says that a running server picks an edited schema up
on its next refresh), and rows may keep the stems of the old languages, written
through an index that a reload had closed (`vault.py:87`). Where
versions are digests the index can keep a text a note had in passing
(`index.py:435`).

*Open vaults.* A request that opens the vault between the destruction of its
key and the deletion of its row makes a new key: the deletion fails, and the
vault stays listed with the new key. An object put back into the table after a
discard (`vault.py:426`) is one nobody finds by its subject. An object opened
on the erasing server itself between discard and shredding stays until it is
idle. A server killed between storing a copy and checking that the vault is
still there leaves the copy. A vault evicted after the pools were shut down is
not copied.

*Accounts.* When operations overlap, an address may come to name two vaults of an
account (CHANGES.md:71), a second hand-over by an owner who no longer is one
drops the owner in between, and an account deletion may take a vault that was
handed over to somebody meanwhile. A key or token issued by a request that was
under way when its member was removed stays, and works again when the member
comes back. Revoking a refreshed pair's old access token leaves the pair that
replaced it. A support grant given by who owned the vault just before cannot be
ended by the new owner.

*Layouts.* A request stopped after it stored the schema leaves views missing,
and the page then says the vault already uses the layout; stopped before it
removed the old layout's views, it leaves them for good. Stopped between saving
the previous schema and storing the new one, it overwrites the older saved one.
What a person writes between a compare and the unconditional write after it is
lost. Two first layouts at once mix. A vault is visible before its layout is,
and another request's opening gives it the built-in one.

*Shared vaults.* The mark that says a change restored another goes to the
newest row of the path, which may be another author's. A MOVE over a note
keeps nothing of the note (`shared.py:183`; docs/explanation/shared-vaults.md:17 says that every
change is kept). A delete that found no before-image records nothing.

*Caches.* Two threads of a server that write the same key at once may leave the
listing with the earlier one (`sealed.py:120`); `CachesInv` is about one writer
of each key. A copy may be stored more than once in an interval, by evictions.

*WebDAV.* MOVE of a file onto itself deletes it on sealed storage; MOVE or COPY
of a folder onto its parent deletes the source; a note written into a folder
while it is moved goes with the source's remains (`dav.py:419`).

*Vectors.* Two searches of one process that read the matrix at once take turns
at its attributes, which nothing locks (`vectors.py:246`), so that the older
reading may stay under the newer generation until the next vectors are written.
A process with another model drops vectors without taking the lease.
A worker that dies while it is being started is an error that nothing retries;
two releases of mindin stop each other's worker in turn.

*The user's machine.* The hooks of a remote vault keep repositories, asked
prompts and the date of the last page in one JSON file that each reads whole
and writes whole; overlapping hooks lose each other's change, and ask twice.
config.toml is written so too, and a vault that is forgotten leaves the folders
that point at it. Somebody who opts out while a sender is under way gets a new
install id. An overlapping writer may put an older block of the page back; the
next day's write sets it right. On a local folder what somebody writes into the
page between a writer's comparison and its write is lost, as the two are
processes of their own. write_page returns before it sets the status when the
generated block is the one the page has (`changelog.py:142`): such a page stays
active after its month, where docs/reference/command-line.md:95 says that the
status follows the calendar. Forgetting a repository is one step in StopHook;
the code reads the rows, looks at the folder and then deletes
(`changelog.py:154`).

## Proofs

Eight modules hold theorems; what they state holds for every value of the
constants: any number of clients, servers, requests, vaults, crashes. Each is
proved from an inductive invariant that TLC checked on an instance first. An
assumption of a module (`NoteStoreAssumption` and so on) is about its constants,
mostly their types, and is evaluated by TLC in every run of the module. Those that
say more are few: the notes of a vault are finite (`Vectors`); no server's url
is the word that stands for no vault, a folder or a bucket (`LocalConfig`); a
schema, the saved one, the welcome note, views and notes have different keys, and
an archive has texts under keys of the vault (`Layouts`); a preset satisfies the
check of a schema file (`tests/test_presets.py:40`) and every path is in a folder
(`Lifecycle`); the servers are finitely many and a clock is ahead by at most
`MaxAhead` (`RateLimits`). What a theorem supposes beyond
that stands before its `=>`.

### NoteStoreProofs

- `TypeCorrect`: `Spec => []TypeOK`. The invariant is `TypeInv`, TypeOK and the
  shape of a handler at each program counter (`Shaped`): what it has read, and
  that its target is a path, depends on where it is.
- `AckedEditsKept`: `Sheltered => (Spec => []AckedKept)`.
- `EditsOnce`: `Sheltered => (Spec => []OneCopy)`.
- `HandlersAreOneStep`: `Sheltered => (Spec /\ []ClaimsHeld => InOneStep)`, and
  `CallsAreOneStep`: `Sheltered /\ ClaimsApart => (Spec => InOneStep)`. The
  handlers implement NoteBook.
- `ClaimsKept`: `OneProcessEach /\ ArchiveApart => (Spec /\ []ClaimsHeld =>
  ClaimsByCommand)`.
- `GoneStaysGone`: `OneProcessEach /\ ArchiveApart => (Spec => NothingRevived)`.

`Sheltered` is `Conditional` (no call is a move, delete or PUT, which take no
version), `OneProcessEach` (a folder is used by one process; finding 1) and
`ArchiveApart` (no call names an archive path: close's rollback deletes
whatever the copy holds). `ClaimsHeld` says that what a handler read of a claim
apart from the version is the claim of the note it then replaces; it is a
hypothesis because it may fail (see the findings), and `ClaimsApart`, that no
claimed note is written with an etag or opened, is enough for it.
`OneProcessEach` holds on a vault server, whose store compares and writes in
one request; nothing in the code keeps a caller from a move, a WebDAV write or
a path of the archive. `ClaimsKept` and `GoneStaysGone` are about the calls that
take no version too. `NothingRevived` and `ClaimsByCommand` say nothing of a
folder with moves, deletes or PUTs (`Guarded`), where findings 1 and 2 are; what
`GoneStaysGone` allows to make a note is `Founds`, which a call that had read the
note is never in.

*Why an edit is kept.* AckedKept alone is not inductive. A write is safe only
if what the handler read is still stored, which holds where the compare and the
write are one request, and between `Check` and `Write` because the handler
holds the lock (`Locked`, `Window`). A close may delete its source because the
copy holds the source's lines and nobody else writes the copy (`Copied`,
`Own`). `IInv` joins these.

*Why a call is one step.* The book is what is stored, less the copies in
flight. `BookInv` adds `Admitted` (a handler goes on only with a note it may
act on, so that what the book would refuse is never written) and `Verbatim` (a
copy is exactly what its close read, less the claim). Every action is then one
step of the book or none: asking (`BeginAsks`), taking effect (`PutInPlace`,
`PutFiles` for a new note, `SourceArchives` for a close), failing (`CallFails`,
`CrashKills`), or nothing the book sees (`QuietBook`, `EntersBook`,
`CopyStutters`, `UndoBook`).

*Why no edit is doubled.* `EditsNew`: an edit that a call has yet to write is
in no note and in nothing a handler read. So a put adds to one note a line no
other has; and when a close deletes its source, its copy, which had the same
lines and did not count, takes its place.

*The action properties* need less: `GuardInv` keeps `Admitted` whatever calls
run, and, where the store guards every write, that a put finds what its handler
read.

### VaultIndexProofs

- `IndexTypeCorrect`: `Spec => []TypeOK`.
- `RowsTrue`: `~Digests => (Spec => []RowTrue)`. Where every write has a version
  of its own, a row that carries the version of the stored note carries its
  text, however many threads sync at once, whoever else writes, and whatever
  fails or restarts. With digests this is false (see the findings), so the
  hypothesis is needed.
- `WritesFound`: `OneTool => (Spec => []ShownInTurn)`, where `OneTool == ~Digests
  /\ ~Pages /\ \E t : Tool = {t}`: one thread runs the tool calls, any number
  write over WebDAV; from the first listing after a start on. With a second
  thread that syncs it is false at the call that overlaps: `index_shown` shows
  how.

A sync writes the *listed* version with the text it fetched later, so the two
may belong to different writes. That is harmless as long as the listed version
is then no longer stored, and never stored again. `FetchedTrue` says the first
(fetched in the version listed, it is the note), `Unseen` and `Counted` the
second: what a call has yet to store has a stamp that no stored object, no row
and no listing has.

For `WritesFound` (`ShownIInv`) each note that an answered write left as it is
is followed to its row: it has the row, or the mark is up, or the sync under way
listed it as it is and has yet to read it or to write what it read. The mark
comes down only where the one thread begins a sync whose listing is still to
come, and nobody closes the index under that thread (`Alone`).

### OpenVaultsProofs

- `OneObjectOpen`: `IsFiniteSet(Request) => (VaultsSpec => []VaultsInv)`.
- `OneKeyEach`: `IsFiniteSet(Request) => (VaultsSpec => []KeysInv)`.
- `HousekeepingHarmless`: `IsFiniteSet(Request) /\ (\A s \in Server : Current[s] =
  RewrapTo) => (VaultsSpec => HousekeepingSpares)`.

Whoever opens the vault has the gate, and the table is empty meanwhile; an
object belongs to one server, and was never closed unless somebody discarded
it; the count of an object is the number of calls that hold it, which is why
requests are finite. While nobody has begun a deletion, everything that names a
key names the row's; a key row implies the vault's row. A rewrap does not put
an older key in the place of a newer one, because servers wrap new keys with
the master key the command wraps with: the last hypothesis, and the order in
which docs/how-to/back-up-and-rotate.md:16 sets the two.

### StorageProofs

- `CopiesKept`: `SnapshotsSpec => []SnapshotsInv`.
- `WritesShown`: `CachesSpec /\ OneWriterHere => []CachesInv`.
- `LayoutsKeep`: `LayoutsSpec => []LayoutsInv`.

*Copies.* While nothing disturbs them (no failure, kill or deletion), what the
timer believes stored is not newer than what is stored, and that not newer than
the index; content that is not stored is in use, leaving, queued or at the
worker, so it will be. After a deletion emptied the copies, only a copy the
worker still has to check can be there.

*Caches.* A listing that is kept, or that was read and is still intact, has
what was written here, what was told of, and what was patched in but is not yet
marked at the index; and while nothing marks the vault stale, what a search
must have is already in the index. `OneWriterHere`: an object that this server
writes is written by one writer, since a listing is patched in the order
requests go on, not the order they wrote in.

*Layouts.* Of any number of requests that write layouts, import and export:
what stays where an export listed it was read, or is yet to be read from there
(`Exported`); what people wrote is no template and nothing that a layout is
about to remove is theirs (`Owned`). The rest holds until two different layouts
ran at once or an edit of the schema came between the reading and the replacing
of it (`crossed`, where `LayoutsInv` promises nothing of it either): all that
are being written are one layout, about one old schema (`OneLayout`, `OneOld`);
the schema stored is the one that was read or the new one, and is saved before
it is replaced (`SavedFirst`); what a layout found there or put is there but
for what people removed (`Progressed`); a forced layout past its schema has the
vault to itself (`LaidFirst`); and a layout is whole when none of its kind is
being written and none was cut off (`WholeElse`).

### AccountProofs

- `VaultsHaveOwners`: `MembershipSpec => []MembershipInv`, and
  `VaultsEndByTheirOwners`: `MembershipSpec => NobodyLosesAVault`.
- `WaysInStay`: `IsFiniteSet(Way) => (SignInSpec => []SignInInv)`.
- `GrantsEnd`: `GrantsSpec => []GrantsInv`.

*Membership.* `OwnersExist` holds whatever overlaps, because each write checks
the rows it refers to once more. While nothing overlaps at most one operation
is under way, and what its check found (`JobTrue`) still holds at its write.

*Sign-in.* A browser's session, and the ceremony the server proves for it, are
of the person in front of it (`Seated`), since a browser changes hands only
when nobody is signed in. The check in Attach that who began is still signed in
makes the added way theirs. A ceremony has a row, or one request has taken it,
or it is used (`Once`). A way is removed only when there are more than one,
which is why ways are finite.

*Grants.* Descent is by age, with all ancestors (`Descent`); an open grant has
no descendants and nobody has taken it, and one that is taken is in one hand
and childless (`Taken`): so exchanges are unique however requests cross. While
none do, what the handler under way read still holds (`StillTrue`), and
whatever was ended, or descends from it, is `Spent`: closed, without access
token, or a denied device.

### RequestProofs

- `RequestsAllowed`: `AccessSpec => []AccessInv`.
- `SupportIsTold`: `SupportSpec => []SupportInv`.
- `LimitsKept`: `RateSpec => []RatesInv`.
- `ToolsAndLintAgree`: `LifecycleSpec => []LifecycleInv`.

*Access.* A request's record says what held at one moment or another since it
began, and a change only appends a moment: so each thing it read was true at
some moment it may rest on. The second pass of a WebDAV request keeps what the
first was allowed.

*Support.* A page's owner is the owner still if the vault was not handed over
since, and a command is logged from when it is let in.

*The limits.* A server that counts by itself remembers each hit it let through
as long as the window has it (`OwnHits`), so a window's hits are among those it
counts before the next. Where servers share the counts, a row and the hits that
were found to fit and are on their way to it stay within the limit and one hit
of each other server (`Room`): the one that reads the row last finds it below the
limit, and there is one hit on its way per server. `Asked` bounds a row by the
requests that asked, for the type. What was let through in a slot is its row, until
the row is forgotten (`Recorded`); after that only those already on their way
add to it, as no clock is a window behind (`SlotKept`). A burst lies in two
slots. From the first hit that fits in the second on, the hits taken and those
that may yet be are bounded by what its server read of both rows, and a row
is at most the limit and one hit of each other server: hence
`(Limit + Others) * length`. When the first row is forgotten, whoever forgot it is
past the burst, and each other server has one hit left (`Burst`).
`BurstLimit` is about clocks that agree: a server that is behind goes on in a
slot that another has already weighed, or forgotten.

*Tools and lint.* The layout in effect is sufficient whatever is in the schema
file, which is why each tool finds the folder and the words it writes, and each
tool's note is shown to have no problem in it. A parking run rests on
`Unwritten`: of a note nobody wrote since, what the run read is what there is, or
the run has parked it; and when it is through, what it left is nothing it parks.

### FileProofs

- `HistoryKeeps`: `HistorySpec => []HistoryInv`.
- `WorkerReached`: `EmbedSpec => []WorkerInv`.
- `VectorsCurrent`: `VectorsSpec => []VectorsInv`.
- `TreesKeepFiles`: `DavSpec => []DavInv`.

*History.* That a replaced text is kept is proved as more than that: every text
ever written is in the blobs, was cut, or is in the hands of a request about to
store it.

*The worker.* Whoever holds the spawn lock is the one at a step under it
(`LockHeld`), and has looked again: it is at the worker the path names, or no
worker stays (`LookedAgain`). A worker that counts itself idle has accepted
nobody (`IdleAlone`). Where all clients want one version, nobody stops a
worker, so that one who started a worker finds it, a worker that leaves has no
connection, and a client lost a worker only to a kill (`Alike`): hence one loss
is survived.

*Vectors.* Nobody has read a generation that is yet to come (`Behind`), and the
rows of a search were read after its generation (`ReadAfter`), so rows read
before a generation never count as of it. A search that reads while no other of
its process does leaves the generation of the matrix behind until all of it is
assigned (`Alone`); of searches that cross nothing is promised. Who embeds has the lease, and a
lease that is late is one whose owner is gone, unless one ran out under its
owner (`OwnersEmbed`, `LateLost`).

*Folders over WebDAV.* While nobody else writes, a request that carries one tree
to another is at all times halfway (`Halfway`): the source is as it was but for
what was moved, the target empty but for what has arrived, and each key yet to
be handled is still there, so that none ends the request. `FilesKept` needs no
more after a storage failure. The argument rests on keys as sequences: of two
prefixes of a key one is a prefix of the other (`PrefixesMeet`), so no key is in
both trees, and moving a name to another tree can be undone (`MovedBack`), so no
two files go to one place. `DavAssumption` asks that each key of a tree has its
like in any other tree, as storage takes every name.

### MachineProofs

- `RequestsServed`: `UpstreamSpec => []UpstreamInv`.
- `SignalOnce`: `SignalSpec => []SignalInv`.
- `ConfigRemembered`: `ConfigSpec => []ConfigInv`.
- `HooksRemember`: `StopSpec => []StopInv`.
- `PagesKeepProse`: `ChangeLogSpec => []PagesInv`.

*The connection.* While an event is not set, the task was asked for a connection
or is making the first one, so no event is replaced before it is set; a request
was carried out over fewer connections than it will have used.

*The signal.* Between lock and send there is one process, where there are file
locks (`OneInside`). Unless the id was forgotten under somebody's hands: who is
about to forget the ledger has forgotten the id, and nobody is on its way
(`SignalForgotten`); the id there is, and those about to be sent, were not given
up (`Current`); a signal that went is of a former install or of a day the
ledger has, and of an earlier day for whoever has passed the mark and not sent
(`LedgerAhead`).

*Config and credentials.* Each file is written whole from what was read of it.
So, unless another command came between, what a command has in hand is the file
with its own change (`InHand`). `setup s3` goes on to the config when the keys
are stored (`KeysFirst`), whatever overlaps; a server the config names is
signed in to, or a setup is about to be (`SignedInOrAbout`).

*The hooks.* Nothing is remembered of what has yet to come (`NothingToCome`);
unless a save was lost, the last message a session was asked about is the one
remembered, in the memory and in what the session's own hook read
(`Remembered`); a local vault's rows keep the repos that were met, and once
anybody knows the day as marked, each due repo has its page or a hook is yet to
write it (`Covered`).

*The pages.* While the markers stand, a body is prose around one block
(`BlockAt`), and splicing changes nothing but its text (`SpliceReplaces`, from
what `SelectInSeq` and `SubSeq` give at each position). Once somebody took a marker
away the shape is lost for good; what is above the first begin marker then still
stays there through any splice and any further removal (`IsAbove`). On a folder
the text that a writer compared and has yet to write is whole in the same sense
(`Whole`, `Ready`), but for what somebody writes meanwhile, which the property
leaves out. A block under
way has no more than there is to say, and no less than the page ever had unless
its writer was overtaken (`UnderWay`).

## What is only model-checked

- Liveness: `CallsEnd`, `RowsFollow`, `SettlesInTurns`, `IndexesGo`, `SavedSoon`,
  `CachesConverge` and `AllEmbedded` rest on fairness, which is out of the prover's reach.

## What is not modelled

- Search: ranking over one SQLite database, pure queries.
- The S3 server that refuses conditional requests (check, then write, without
  a lock), the half-written file of `write_bytes`, a PUT with a condition, which
  behaves as an etag write, the rotation of a full log page. The row updates of
  one handler are one step.
- What the change bus says of schemas ("schema", "all") and Vault.catch_up.
- Cryptography, the parsing of keys, tokens, frontmatter and archives, the
  text of pages, mails and tools, terminal output.
- The providers' protocols (OAuth, OIDC, passkeys), client registration,
  metadata documents, expiry by time but for rate limits, leases and support
  access, a suspended account.
- `Listing` is one step in Layouts and VaultIndex; the sealed listing's up to
  five seconds of age are in ServerCaches alone.
- `PROJECT.json` has the rest under "components", with the reason.

## What is left

Every safety property of the passing runs has a theorem. Open are what two
overlapping tool calls make of the schema (`SettlesInTurns` is about turns), the
catch_up of a server that hears of a schema, a bound for
bursts of servers whose clocks differ, where only each slot is bounded
(`SlotLimit`), listings with more than one writer on a server
(`OneWriterHere`), and search.
