------------------------------- MODULE DavTree -------------------------------
(***************************************************************************)
(* Folders over WebDAV (dav.py): PUT, MKCOL, DELETE, COPY and MOVE of      *)
(* files and of whole trees, on a storage that knows keys only, as the     *)
(* sealed one of a hosted vault does: a folder is the keys that begin with *)
(* its path, and perhaps a marker.  A tree is listed, then handled key by  *)
(* key; storage may fail at any of them, and others write in between.      *)
(*                                                                         *)
(* Keys are sequences of characters, as which begins with which is the     *)
(* point.  One client; preconditions and answers are left out but for a    *)
(* destination that exists and may not be overwritten.                     *)
(***************************************************************************)
EXTENDS Naturals, Sequences, SequencesExt

CONSTANTS
  File,         \* keys of files
  Folder,       \* keys of folders: they end with a slash
  MaxTransfers,  \* bound: requests
  MaxWrites,    \* bound: writes by others
  MaxFailures,  \* bound: failures of storage
  Missing, Marker, Theirs   \* what a key may hold but the first text of a file

Path == File \cup Folder

(* What a key in the tree from is called in the tree to. *)
Moved(k, from, to) == to \o SubSeq(k, Len(from) + 1, Len(k))

(* Of any key there is its like in any other tree: storage takes every name. *)
ASSUME DavAssumption ==
  /\ Path \subseteq Seq(STRING) \ {<<>>}
  /\ \A k \in File : Last(k) # "/"
  /\ \A k \in Folder : Last(k) = "/"
  /\ \A from, to \in Folder : ~IsPrefix(from, to) =>
       /\ \A k \in File : IsPrefix(from, k) => Moved(k, from, to) \in File
       /\ \A k \in Folder : IsPrefix(from, k) => Moved(k, from, to) \in Folder
  /\ {MaxTransfers, MaxWrites, MaxFailures} \subseteq Nat

VARIABLES
  stored,    \* what each key holds: a text, the marker of a folder, or nothing
  dav,       \* the request: what it is at, its trees, and the keys it has still to handle
  before,    \* what was stored when it began
  disturbed, broken,   \* whether somebody else has written since, and storage failed
  requests, writes, failures

davVars == <<stored, dav, before, disturbed, broken, requests, writes, failures>>

NoRequest == [step |-> "done", op |-> "none", from |-> <<>>, to |-> <<>>, keys |-> {}, at |-> <<>>]

-----------------------------------------------------------------------------
Present(k) == stored[k] # Missing
Listed(prefix) == {k \in Path : Present(k) /\ IsPrefix(prefix, k)}
AsFile(k) == IF Last(k) = "/" THEN Front(k) ELSE k
AsFolder(k) == AsFile(k) \o <<"/">>

(* _lookup: a file of that key, a folder's marker, or keys below it. *)
IsFile(k) == k \in File /\ Present(k)
IsDir(k) == ~IsFile(k) /\ Listed(AsFolder(k)) # {}

(* Where a key of the source goes. *)
Target(k) == Moved(k, dav.from, dav.to)

(* Any of the keys, each file with a text of its own: what earlier requests may have left. *)
DavInit ==
  /\ \E keys \in SUBSET Path :
       stored = [k \in Path |-> IF k \notin keys THEN Missing ELSE IF k \in Folder THEN Marker ELSE k]
  /\ dav = NoRequest /\ before = stored /\ disturbed = FALSE /\ broken = FALSE
  /\ requests = 0 /\ writes = 0 /\ failures = 0

-----------------------------------------------------------------------------
Doing(step) == dav.step = step
Goes(step) == dav' = [dav EXCEPT !.step = step]
Stores(k, what) == stored' = [stored EXCEPT ![k] = what]
Quiet == UNCHANGED <<before, disturbed, broken, requests, writes, failures>>

NewRequest(op, from, to, step) ==
  /\ Doing("done") /\ requests < MaxTransfers /\ requests' = requests + 1
  /\ before' = stored /\ disturbed' = FALSE /\ broken' = FALSE
  /\ dav' = [step |-> step, op |-> op, from |-> from, to |-> to, keys |-> {}, at |-> <<>>]
  /\ UNCHANGED <<stored, writes, failures>>

DeleteTree == \E k \in Folder : IsDir(k) /\ NewRequest("delete", k, k, "list")

\* Mutant: a tree is carried over what is there, which is not deleted first.
TransferOver ==
  \E op \in {"move", "copy"} :
    \/ \E from, to \in File : IsFile(from) /\ NewRequest(op, from, to, "file")
    \/ \E from, to \in Folder : IsDir(from) /\ ~IsPrefix(from, to) /\ NewRequest(op, from, to, "entries")

(* _transfer: a file, or a tree to a place that is not in it; a tree that is there is deleted first. *)
Transfer ==
  \E op \in {"move", "copy"} :
    \/ \E from, to \in File : IsFile(from) /\ NewRequest(op, from, to, "file")
    \/ \E from, to \in Folder :
         /\ IsDir(from) /\ ~IsPrefix(from, to)
         /\ NewRequest(op, from, to, IF Listed(to) # {} \/ IsFile(AsFile(to)) THEN "clear" ELSE "entries")

-----------------------------------------------------------------------------
(* _delete_tree, of the destination or of the source: a list, then its files before its markers, and the *)
(* marker of the folder itself, which may not be there.                                                  *)
Lists(keys, step) == dav' = [dav EXCEPT !.keys = keys, !.step = step] /\ UNCHANGED stored /\ Quiet

ListTree ==
  \/ Doing("clear") /\ Lists(Listed(dav.to) \cup {dav.to}, "clearing")
  \/ Doing("list") /\ Lists(Listed(dav.from) \cup {dav.from}, "deleting")

(* A file that somebody else has deleted meanwhile ends the request: NotFound. *)
DeleteNext ==
  /\ dav.step \in {"clearing", "deleting"}
  /\ \E k \in dav.keys :
       /\ k \in Folder => dav.keys \subseteq Folder
       /\ IF Present(k) \/ k \in Folder
          THEN Stores(k, Missing) /\ dav' = [dav EXCEPT !.keys = @ \ {k}]
          ELSE Goes("done") /\ UNCHANGED stored
  /\ Quiet

Deleted ==
  /\ dav.keys = {}
  /\ \/ Doing("clearing") /\ Goes("entries")
     \/ Doing("deleting") /\ Goes("done")
  /\ UNCHANGED stored /\ Quiet

(* _transfer_tree: the list of the source, and a marker for the target. *)
ListEntries ==
  /\ Doing("entries")
  /\ dav' = [dav EXCEPT !.step = "transfer", !.keys = Listed(dav.from) \ {dav.from}]
  /\ Stores(dav.to, Marker) /\ Quiet

TransferFolder ==
  /\ Doing("transfer")
  /\ \E k \in dav.keys \cap Folder : Stores(Target(k), Marker) /\ dav' = [dav EXCEPT !.keys = @ \ {k}]
  /\ Quiet

(* _transfer_file: a copy is a read and a write, a move deletes the source after them. *)
TransferFile ==
  /\ \E k \in (IF Doing("file") THEN {dav.from} ELSE IF Doing("transfer") THEN dav.keys \cap File ELSE {}) :
       LET next == IF Doing("file") THEN "done" ELSE "transfer" IN
       IF Present(k)
       THEN /\ Stores(IF Doing("file") THEN dav.to ELSE Target(k), stored[k])
            /\ dav' = IF dav.op = "move" THEN [dav EXCEPT !.keys = @ \ {k}, !.at = k, !.step = "drop"]
                                         ELSE [dav EXCEPT !.keys = @ \ {k}, !.step = next]
       ELSE Goes("done") /\ UNCHANGED stored
  /\ Quiet

DropSource ==
  /\ Doing("drop")
  /\ IF Present(dav.at)
     THEN /\ Stores(dav.at, Missing)
          /\ dav' = [dav EXCEPT !.at = <<>>, !.step = IF dav.from = dav.at THEN "done" ELSE "transfer"]
     ELSE Goes("done") /\ UNCHANGED stored
  /\ Quiet

(* After the last entry a move deletes what is left of the source: whatever is there by then. *)
Transferred ==
  /\ Doing("transfer") /\ dav.keys = {}
  /\ Goes(IF dav.op = "move" THEN "list" ELSE "done") /\ UNCHANGED stored /\ Quiet

-----------------------------------------------------------------------------
StorageFails ==
  /\ failures < MaxFailures /\ ~Doing("done") /\ Goes("done")
  /\ failures' = failures + 1 /\ broken' = TRUE /\ UNCHANGED <<stored, before, disturbed, requests, writes>>

(* A tool, or another client, writes a file, makes a folder or deletes a file: one call of storage (PUT,
   MKCOL, DELETE). *)
OthersWrite ==
  /\ writes < MaxWrites /\ ~Doing("done") /\ writes' = writes + 1 /\ disturbed' = TRUE
  /\ \/ \E k \in File, text \in {Theirs, Missing} : Stores(k, text)
     \/ \E k \in Folder : ~IsDir(k) /\ Stores(k, Marker)
  /\ UNCHANGED <<dav, before, broken, requests, failures>>

DavNext ==
  \/ DeleteTree \/ Transfer \/ ListTree \/ DeleteNext \/ Deleted \/ ListEntries
  \/ TransferFolder \/ TransferFile \/ DropSource \/ Transferred \/ StorageFails \/ OthersWrite

DavSpec == DavInit /\ [][DavNext]_davVars

-----------------------------------------------------------------------------
DavTypeOK ==
  /\ stored \in [Path -> File \cup {Theirs, Marker, Missing}]
  /\ dav \in
       [step : {"done", "list", "deleting", "clear", "clearing", "entries", "transfer", "file", "drop"},
        op : {"none", "delete", "move", "copy"}, keys : SUBSET Path,
        from : Path \cup {<<>>}, to : Path \cup {<<>>}, at : Path \cup {<<>>}]
  /\ before \in [Path -> File \cup {Theirs, Marker, Missing}]
  /\ disturbed \in BOOLEAN /\ broken \in BOOLEAN
  /\ requests \in 0..MaxTransfers /\ writes \in 0..MaxWrites /\ failures \in 0..MaxFailures

(* A tree is what begins with its name, a file is itself. *)
Under(root, k) == IF root \in Folder THEN IsPrefix(root, k) ELSE k = root
Related(a, b) == Under(a, b) \/ Under(b, a)
Transfers == dav.op \in {"move", "copy"} /\ ~Related(dav.from, dav.to) /\ ~disturbed
Below(k) == {f \in File : Under(k, f) /\ before[f] # Missing}

(* A file that is moved or copied, alone or in a tree, is at its old place or at its new one at every
   moment and wherever storage fails: for trees of which neither is in the other, and while nobody else
   writes. *)
FilesKept == Transfers => \A f \in Below(dav.from) : before[f] \in {stored[f], stored[Target(f)]}

(* One that has ended without a failure has made the target what the source was, and nothing else. *)
TargetIsSource ==
  Transfers /\ Doing("done") /\ ~broken =>
    /\ \A f \in File : Under(dav.to, f) => stored[f] = before[Moved(f, dav.to, dav.from)]
    /\ \A f \in Below(dav.from) : stored[f] = IF dav.op = "move" THEN Missing ELSE before[f]

(* What lies outside the trees of a request stays as it was, also next to a folder whose name begins like
   its own. *)
OthersUntouched ==
  ~disturbed /\ dav.op # "none" =>
    \A k \in Path : ~Under(dav.from, k) /\ ~Under(dav.to, k) => stored[k] = before[k]
(* A request on a tree loses no file, ends with the target as the source was, and touches nothing else. *)
DavInv == DavTypeOK /\ FilesKept /\ TargetIsSource /\ OthersUntouched
=============================================================================
