----------------------------- MODULE OpenVaults -----------------------------
(***************************************************************************)
(* One hosted vault on the servers that serve it: the table of open vaults *)
(* (SubjectVaults in vault.py), the data key that opening it makes         *)
(* (VaultKeys in hosted_keys.py), deleting it (delete_vault, erase) and the*)
(* sweep that removes the local indexes of deleted vaults.                 *)
(*                                                                         *)
(* The table and the locks are kept per vault, and vaults share nothing    *)
(* here, so there is one.  A Vault object is named by the request that     *)
(* opened it.  A data key is a number, new ones are the next number, and of*)
(* the files only the keys they are sealed under are kept.  Time is left   *)
(* to chance: a vault that no request holds may be idle for long enough.   *)
(***************************************************************************)
EXTENDS Naturals, FiniteSets

CONSTANTS
  Server,
  Request,      \* requests that pass the guard and open the vault
  Eraser,       \* the server whose page deletes the vault
  Busy,         \* the servers that other vaults are asked for on again and again
  Master,       \* ids of master keys
  Current,      \* the master key each server wraps with
  RewrapTo,     \* the master key of the rewrap command
  MaxErases,    \* bound: deletions begun
  MaxRestarts,  \* bound: servers killed
  None

ASSUME OpenVaultsAssumption ==
  /\ Eraser \in Server
  /\ Current \in [Server -> Master] /\ RewrapTo \in Master
  /\ MaxErases \in Nat /\ MaxRestarts \in Nat
  /\ None \notin Request \cup Server
ASSUME BusyAssumption == Busy \subseteq Server
ASSUME NoneAssumption == None \notin [key : Nat, master : Master]

VARIABLES
  created, listed, \* whether the vault was ever made, and whether its row stands
  wrapped,      \* its row of data keys: the key and the master key it is wrapped under
  minted,       \* data keys made
  sealedUnder,  \* the keys that the files in its storage are sealed under
  table,        \* _open: the Vault object in the table of each server
  known,        \* whether _subjects has it
  holds,        \* _in_use
  gate,         \* _opening: the request that has the vault's gate
  index,        \* whether its local index file is there
  pc, at, uses, \* where a request is, on which server, and the object it was handed
  dataKey,      \* the data key of the object a request opened
  closed,       \* the objects that were closed
  discarded,    \* the servers that discarded it since they started
  erase, erases, \* where the deletion is, deletions begun
  gone,         \* the servers a "gone" change is on its way to
  sweep,        \* what the sweep of each server has read
  rewrap,       \* what the rewrap command has read
  restarts

keyVars == <<wrapped, minted, sealedUnder>>
tableVars == <<table, known, holds, gate, closed, discarded>>
requestVars == <<pc, at, uses, dataKey>>
eraseVars == <<erase, erases, gone>>
tendVars == <<sweep, rewrap, restarts>>
vaultsVars == <<created, listed, keyVars, tableVars, index, requestVars, eraseVars, tendVars>>

RequestPC == {"idle", "lookup", "gate", "find", "key", "mint", "provision", "open", "using", "done"}
ErasePC == {"idle", "shred", "files", "index", "rows", "publish"}
SweepPC == {"idle", "live", "opened", "remove"}
Wrapping == [key : Nat, master : Master]

Swept == [pc |-> "idle", live |-> FALSE]

VaultsInit ==
  /\ \/ created = FALSE /\ wrapped = None /\ minted = 0
     \/ created = TRUE /\ minted = 1 /\ \E m \in Master : wrapped = [key |-> 1, master |-> m]
  /\ listed = created /\ sealedUnder = 1..minted
  /\ table = [s \in Server |-> None] /\ known = [s \in Server |-> FALSE]
  /\ holds = [s \in Server |-> 0] /\ gate = [s \in Server |-> None]
  /\ index = [s \in Server |-> FALSE]
  /\ pc = [r \in Request |-> "idle"] /\ at = [r \in Request |-> None]
  /\ uses = [r \in Request |-> None]
  /\ dataKey = [r \in Request |-> 0] /\ closed = {} /\ discarded = {}
  /\ erase = "idle" /\ erases = 0 /\ gone = {}
  /\ sweep = [s \in Server |-> Swept] /\ rewrap = None /\ restarts = 0

-----------------------------------------------------------------------------
(* Opening the vault. *)

CreateVault ==
  /\ ~created
  /\ created' = TRUE /\ listed' = TRUE
  /\ UNCHANGED <<keyVars, tableVars, index, requestVars, eraseVars, tendVars>>

Goes(r, to) == pc' = [pc EXCEPT ![r] = to]

(* The guard lets a request in while the vault's row stands, on any server. *)
Admit(r, s) ==
  /\ pc[r] = "idle" /\ listed
  /\ at' = [at EXCEPT ![r] = s] /\ Goes(r, "lookup")
  /\ UNCHANGED <<created, listed, keyVars, tableVars, index, uses, dataKey, eraseVars, tendVars>>

(* _take, under the table's lock: the open object, held once more. *)
Takes(r, s) ==
  /\ table[s] # None
  /\ uses' = [uses EXCEPT ![r] = table[s]]
  /\ holds' = [holds EXCEPT ![s] = @ + 1]
  /\ Goes(r, "using")

LookUp(r) ==
  LET s == at[r] IN
  /\ pc[r] = "lookup"
  /\ \/ Takes(r, s)
     \/ table[s] = None /\ Goes(r, "gate") /\ UNCHANGED <<uses, holds>>
  /\ UNCHANGED <<created, listed, at, keyVars, table, known, gate, closed, discarded, index, dataKey,
                 eraseVars, tendVars>>

\* Mutant: the table is not looked at again behind the gate.
OpensAgain(r) ==
  LET s == at[r] IN
  /\ pc[r] = "gate" /\ gate[s] = None
  /\ gate' = [gate EXCEPT ![s] = r] /\ Goes(r, "find")
  /\ UNCHANGED <<created, listed, at, uses, keyVars, table, known, holds, closed, discarded, index, dataKey,
                 eraseVars, tendVars>>

(* Behind the gate the table is read again: another request may have opened it. *)
PassGate(r) ==
  LET s == at[r] IN
  /\ pc[r] = "gate" /\ gate[s] = None
  /\ \/ Takes(r, s) /\ UNCHANGED gate
     \/ table[s] = None /\ gate' = [gate EXCEPT ![s] = r] /\ Goes(r, "find") /\ UNCHANGED <<uses, holds>>
  /\ UNCHANGED <<created, listed, at, keyVars, table, known, closed, discarded, index, dataKey,
                 eraseVars, tendVars>>

(* Without a row the opening fails, and the gate is free again. *)
FindRow(r) ==
  /\ pc[r] = "find"
  /\ \/ listed /\ Goes(r, "key") /\ UNCHANGED gate
     \/ ~listed /\ Goes(r, "done") /\ gate' = [gate EXCEPT ![at[r]] = None]
  /\ UNCHANGED <<created, listed, at, keyVars, table, known, holds, closed, discarded, index, uses, dataKey,
                 eraseVars, tendVars>>

ReadKey(r) ==
  /\ pc[r] = "key"
  /\ \/ wrapped # None /\ dataKey' = [dataKey EXCEPT ![r] = wrapped.key] /\ Goes(r, "provision")
     \/ wrapped = None /\ Goes(r, "mint") /\ UNCHANGED dataKey
  /\ UNCHANGED <<created, listed, at, keyVars, tableVars, index, uses, eraseVars, tendVars>>

(* The row of whoever inserts first stands, and the row is what is read. *)
Inserted(r) ==
  IF wrapped = None THEN [key |-> minted + 1, master |-> Current[at[r]]] ELSE wrapped

(* A key row refers to the vault's row: without it the insert fails. *)
MintKey(r) ==
  /\ pc[r] = "mint"
  /\ \/ /\ listed
        /\ wrapped' = Inserted(r) /\ minted' = minted + 1
        /\ dataKey' = [dataKey EXCEPT ![r] = Inserted(r).key]
        /\ Goes(r, "provision") /\ UNCHANGED gate
     \/ /\ ~listed
        /\ gate' = [gate EXCEPT ![at[r]] = None]
        /\ Goes(r, "done") /\ UNCHANGED <<wrapped, minted, dataKey>>
  /\ UNCHANGED <<created, listed, at, sealedUnder, table, known, holds, closed, discarded, index, uses,
                 eraseVars, tendVars>>

(* An empty vault gets its first files; objects of other keys do not show. *)
Provision(r) ==
  /\ pc[r] = "provision"
  /\ sealedUnder' = sealedUnder \cup {dataKey[r]}
  /\ Goes(r, "open")
  /\ UNCHANGED <<created, listed, at, wrapped, minted, tableVars, index, uses, dataKey, eraseVars, tendVars>>

(* The new object is put into the table, held, and the gate opens. *)
Opened(r) ==
  LET s == at[r] IN
  /\ pc[r] = "open"
  /\ table' = [table EXCEPT ![s] = r] /\ known' = [known EXCEPT ![s] = TRUE]
  /\ uses' = [uses EXCEPT ![r] = r] /\ holds' = [holds EXCEPT ![s] = @ + 1]
  /\ gate' = [gate EXCEPT ![s] = None]
  /\ Goes(r, "using")
  /\ UNCHANGED <<created, listed, at, keyVars, closed, discarded, index, dataKey, eraseVars, tendVars>>

(* A tool call writes a note and refreshes the index, making its file. *)
Use(r) ==
  /\ pc[r] = "using"
  /\ sealedUnder' = sealedUnder \cup {dataKey[uses[r]]}
  /\ index' = [index EXCEPT ![at[r]] = TRUE]
  /\ UNCHANGED <<created, listed, wrapped, minted, tableVars, requestVars, eraseVars, tendVars>>

(* The object goes back into the table, whatever the table has by now. *)
Finish(r) ==
  LET s == at[r] IN
  /\ pc[r] = "using"
  /\ holds' = [holds EXCEPT ![s] = @ - 1]
  /\ table' = [table EXCEPT ![s] = uses[r]]
  /\ uses' = [uses EXCEPT ![r] = None]
  /\ Goes(r, "done")
  /\ UNCHANGED <<created, listed, at, keyVars, known, gate, closed, discarded, index, dataKey,
                 eraseVars, tendVars>>

\* Mutant: the server goes on to know a vault it has closed.
EvictKeepingSubject(s) ==
  /\ table[s] # None /\ holds[s] = 0
  /\ closed' = closed \cup {table[s]} /\ table' = [table EXCEPT ![s] = None]
  /\ UNCHANGED <<created, listed, keyVars, known, holds, gate, discarded, index, requestVars, eraseVars,
                 tendVars>>

(* A request to any vault of the server closes this one when it was idle   *)
(* for long (_evict, called by _acquire): without a request nothing does.  *)
Evict(s) ==
  /\ table[s] # None /\ holds[s] = 0
  /\ closed' = closed \cup {table[s]}
  /\ table' = [table EXCEPT ![s] = None] /\ known' = [known EXCEPT ![s] = FALSE]
  /\ UNCHANGED <<created, listed, keyVars, holds, gate, discarded, index, requestVars, eraseVars, tendVars>>

-----------------------------------------------------------------------------
(* Deleting the vault, from a page on the server Eraser.  What of it fails *)
(* leaves the vault listed, to be deleted once more.                       *)

Discards(s) ==
  /\ table' = [table EXCEPT ![s] = None] /\ known' = [known EXCEPT ![s] = FALSE]
  /\ closed' = closed \cup ({table[s]} \ {None})
  /\ discarded' = discarded \cup {s}

Discard ==
  /\ erase = "idle" /\ listed /\ erases < MaxErases
  /\ Discards(Eraser)
  /\ erase' = "shred" /\ erases' = erases + 1
  /\ UNCHANGED <<created, listed, keyVars, holds, gate, index, requestVars, gone, tendVars>>

Shred ==
  /\ erase = "shred"
  /\ wrapped' = None /\ erase' = "files"
  /\ UNCHANGED <<created, listed, minted, sealedUnder, tableVars, index, requestVars, erases, gone, tendVars>>

EmptyStorage ==
  /\ erase = "files"
  /\ sealedUnder' = {} /\ erase' = "index"
  /\ UNCHANGED <<created, listed, wrapped, minted, tableVars, index, requestVars, erases, gone, tendVars>>

RemoveIndex ==
  /\ erase = "index"
  /\ index' = [index EXCEPT ![Eraser] = FALSE] /\ erase' = "rows"
  /\ UNCHANGED <<created, listed, keyVars, tableVars, requestVars, erases, gone, tendVars>>

\* Mutant: the row goes and the key that a request made anew stays.
DropRowsKeepingKey ==
  /\ erase = "rows"
  /\ listed' = FALSE /\ erase' = "publish"
  /\ UNCHANGED <<created, keyVars, tableVars, index, requestVars, erases, gone, tendVars>>

(* A key made since the shredding refers to the row: it cannot go. *)
DropRows ==
  /\ erase = "rows"
  /\ \/ wrapped = None /\ listed' = FALSE /\ erase' = "publish"
     \/ wrapped # None /\ erase' = "idle" /\ UNCHANGED listed
  /\ UNCHANGED <<created, keyVars, tableVars, index, requestVars, erases, gone, tendVars>>

(* The change reaches the other servers later, or none when the queue is full. *)
PublishGone ==
  /\ erase = "publish" /\ erase' = "idle"
  /\ gone' \in {gone, gone \cup (Server \ {Eraser})}
  /\ UNCHANGED <<created, listed, keyVars, tableVars, index, requestVars, erases, tendVars>>

HearGone(s) ==
  /\ s \in gone /\ gone' = gone \ {s}
  /\ Discards(s)
  /\ index' = [index EXCEPT ![s] = FALSE]
  /\ UNCHANGED <<created, listed, keyVars, holds, gate, requestVars, erase, erases, tendVars>>

-----------------------------------------------------------------------------
(* The sweep of a server: files found, then live vaults, then open ones.   *)

SweepFind(s) ==
  /\ sweep[s].pc = "idle" /\ index[s]
  /\ sweep' = [sweep EXCEPT ![s] = [pc |-> "live", live |-> FALSE]]
  /\ UNCHANGED <<created, listed, keyVars, tableVars, index, requestVars, eraseVars, rewrap, restarts>>

SweepLive(s) ==
  /\ sweep[s].pc = "live"
  /\ sweep' = [sweep EXCEPT ![s] = [pc |-> "opened", live |-> listed /\ wrapped # None]]
  /\ UNCHANGED <<created, listed, keyVars, tableVars, index, requestVars, eraseVars, rewrap, restarts>>

SweepOpened(s) ==
  /\ sweep[s].pc = "opened"
  /\ sweep' = [sweep EXCEPT ![s] = IF sweep[s].live \/ known[s] THEN Swept ELSE [@ EXCEPT !.pc = "remove"]]
  /\ UNCHANGED <<created, listed, keyVars, tableVars, index, requestVars, eraseVars, rewrap, restarts>>

SweepRemove(s) ==
  /\ sweep[s].pc = "remove"
  /\ sweep' = [sweep EXCEPT ![s] = Swept] /\ index' = [index EXCEPT ![s] = FALSE]
  /\ UNCHANGED <<created, listed, keyVars, tableVars, requestVars, eraseVars, rewrap, restarts>>

-----------------------------------------------------------------------------
(* The command that wraps every data key anew, while the servers run. *)

RewrapRead ==
  /\ rewrap = None /\ wrapped # None /\ wrapped.master # RewrapTo
  /\ rewrap' = wrapped
  /\ UNCHANGED <<created, listed, keyVars, tableVars, index, requestVars, eraseVars, sweep, restarts>>

\* Mutant: the row is written whatever key it has by now.
RewrapAnyRow ==
  /\ rewrap # None /\ rewrap' = None
  /\ wrapped' = IF wrapped = None THEN None ELSE [rewrap EXCEPT !.master = RewrapTo]
  /\ UNCHANGED <<created, listed, minted, sealedUnder, tableVars, index, requestVars, eraseVars, sweep,
                 restarts>>

(* Only the row still wrapped under the master key that was read is updated. *)
RewrapWrite ==
  /\ rewrap # None /\ rewrap' = None
  /\ wrapped' = IF wrapped # None /\ wrapped.master = rewrap.master
                  THEN [rewrap EXCEPT !.master = RewrapTo] ELSE wrapped
  /\ UNCHANGED <<created, listed, minted, sealedUnder, tableVars, index, requestVars, eraseVars, sweep,
                 restarts>>

(* A server is killed and started again: the row, the files and the local  *)
(* index stay, and a deletion it was about stops where it was.             *)
Restart(s) ==
  /\ restarts < MaxRestarts /\ restarts' = restarts + 1
  /\ table' = [table EXCEPT ![s] = None] /\ known' = [known EXCEPT ![s] = FALSE]
  /\ holds' = [holds EXCEPT ![s] = 0] /\ gate' = [gate EXCEPT ![s] = None]
  /\ pc' = [r \in Request |-> IF at[r] = s /\ pc[r] # "idle" THEN "done" ELSE pc[r]]
  /\ uses' = [r \in Request |-> IF at[r] = s THEN None ELSE uses[r]]
  /\ discarded' = discarded \ {s} /\ gone' = gone \ {s}
  /\ erase' = IF s = Eraser THEN "idle" ELSE erase
  /\ sweep' = [sweep EXCEPT ![s] = Swept]
  /\ UNCHANGED <<created, listed, at, keyVars, closed, index, dataKey, erases, rewrap>>

-----------------------------------------------------------------------------
Request1(r) ==
  \/ \E s \in Server : Admit(r, s)
  \/ LookUp(r) \/ PassGate(r) \/ FindRow(r) \/ ReadKey(r) \/ MintKey(r)
  \/ Provision(r) \/ Opened(r) \/ Use(r) \/ Finish(r)

Sweeps(s) == SweepFind(s) \/ SweepLive(s) \/ SweepOpened(s) \/ SweepRemove(s)

VaultsNext ==
  \/ CreateVault
  \/ \E r \in Request : Request1(r)
  \/ Discard \/ Shred \/ EmptyStorage \/ RemoveIndex \/ DropRows \/ PublishGone
  \/ RewrapRead \/ RewrapWrite
  \/ \E s \in Server : Evict(s) \/ HearGone(s) \/ Sweeps(s) \/ Restart(s)

(* A call ends, what was opened goes on, and each server's sweep comes     *)
(* again and again.  A vault that is idle is closed only where requests to *)
(* other vaults go on coming.                                              *)
VaultsFairness ==
  /\ \A r \in Request : WF_vaultsVars(LookUp(r) \/ PassGate(r) \/ FindRow(r) \/ ReadKey(r) \/ MintKey(r)
                                        \/ Provision(r) \/ Opened(r))
  /\ \A r \in Request : WF_vaultsVars(Finish(r))
  /\ \A s \in Busy : WF_vaultsVars(Evict(s))
  /\ \A s \in Server : WF_vaultsVars(Sweeps(s))

VaultsSpec == VaultsInit /\ [][VaultsNext]_vaultsVars /\ VaultsFairness

-----------------------------------------------------------------------------
VaultsTypeOK ==
  /\ created \in BOOLEAN /\ listed \in BOOLEAN
  /\ wrapped \in Wrapping \cup {None} /\ minted \in Nat /\ sealedUnder \subseteq Nat
  /\ table \in [Server -> Request \cup {None}] /\ known \in [Server -> BOOLEAN]
  /\ holds \in [Server -> Nat] /\ gate \in [Server -> Request \cup {None}]
  /\ index \in [Server -> BOOLEAN]
  /\ pc \in [Request -> RequestPC] /\ at \in [Request -> Server \cup {None}]
  /\ uses \in [Request -> Request \cup {None}]
  /\ dataKey \in [Request -> Nat]
  /\ closed \subseteq Request /\ discarded \subseteq Server
  /\ erase \in ErasePC /\ erases \in Nat /\ gone \subseteq Server
  /\ sweep \in [Server -> [pc : SweepPC, live : BOOLEAN]]
  /\ rewrap \in Wrapping \cup {None} /\ restarts \in Nat

Holders(s) == {r \in Request : pc[r] = "using" /\ at[r] = s}

(* Until a deletion takes the vault out of a server's table, all calls that run there use the one
   object in the table, it is not closed under them, and they are counted: two objects would be two
   indexes and two listing caches of one vault. *)
OneObject ==
  \A s \in Server \ discarded :
    /\ holds[s] = Cardinality(Holders(s))
    /\ \A r \in Holders(s) : uses[r] = table[s] /\ uses[r] \notin closed

(* The calls on a server share the one object in its table, counted and open. *)
VaultsInv == VaultsTypeOK /\ OneObject

(* However many servers open a new vault at once, everything in its storage is sealed under the one
   key in its row: until somebody deletes it, none of its files is unreadable. *)
OneKey == erases = 0 /\ sealedUnder # {} => wrapped # None /\ sealedUnder = {wrapped.key}

(* A vault whose row is gone has no key left, so that nothing of it can be read again, whoever was
   opening it while it was deleted. *)
KeyGone == created /\ ~listed => wrapped = None

(* A vault has one key, from its first file to the end of its row, and none after. *)
KeysInv == OneKey /\ KeyGone

(* A new key only ever comes where there is none, and wrapping a key anew leaves it the key it is. *)
KeyStays ==
  wrapped' \notin {wrapped, None} =>
    IF wrapped = None THEN wrapped'.key > minted ELSE wrapped'.key = wrapped.key

(* The sweep, which compares what it read at three moments, spares the vaults nobody began to delete. *)
IndexStays == \A s \in Server : SweepRemove(s) => erases > 0

(* Housekeeping takes nothing from a vault that lives: rewrapping never brings a destroyed key back nor
   replaces the key that files are sealed under, and the sweep never removes the vault's index. *)
HousekeepingSpares == [][KeyStays /\ IndexStays]_vaultsVars

(* Of a deleted vault no server to which requests still come keeps the local index (words of its notes)
   for good, though a request on its way makes the file again and the change that tells the other
   servers can be lost; and any server keeps it only while it has the vault for an open one. *)
IndexesGo == (created /\ ~listed) ~> [](\A s \in Server : index[s] => s \notin Busy /\ known[s])
=============================================================================
