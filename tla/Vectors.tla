------------------------------- MODULE Vectors -------------------------------
(***************************************************************************)
(* The meaning vectors of a vault index (vectors.py): notes are embedded   *)
(* by a thread of one of the processes that share the index, a batch at a  *)
(* time under a lease in the database, and a search reads the vectors into *)
(* a matrix its process keeps until their generation changes.              *)
(*                                                                         *)
(* Each statement of a transaction runs with the others; a read outside    *)
(* one is a step of its own, and so is each assignment to the object that  *)
(* the searching threads of a process share without a lock.                *)
(* Texts, chunks and numbers are left out: the vectors of a note are those *)
(* of one version of it.  All processes embed with one model.              *)
(***************************************************************************)
EXTENDS Naturals, FiniteSets

CONSTANTS
  Process,      \* processes that share the index
  Searcher,     \* the threads that search
  RunsIn,       \* the process of each
  Note,
  BatchSize,    \* NOTES_PER_BATCH
  MaxSyncs,     \* bound: changes of notes
  MaxFaults,    \* bound: processes killed, embedders that fail, and leases that run out
  Nobody        \* also the owner of a lease whose process is gone

ASSUME VectorsAssumption ==
  /\ RunsIn \in [Searcher -> Process] /\ Nobody \notin Process
  /\ IsFiniteSet(Note) /\ BatchSize \in Nat \ {0} /\ {MaxSyncs, MaxFaults} \subseteq Nat

NoVersion == 0
Version == 0..2      \* of a note; it may come back to a version it had

VARIABLES
  syncs, version,   \* the notes in the index: their version, or none
  embedded,    \* the version the vectors of each note are of
  generation,  \* vectors_generation
  lease,       \* embed_lease: whose, and whether its time has run out
  embedding,   \* what the thread of each process is at, and with which notes
  search,      \* what each search is at: the generation and the vectors it has read
  matrix,      \* of each process, what its searches share: _generation, _rows and _matrix
  crossed,     \* the last search to read a matrix anew began while another one of its process did
  faults, overrun   \* overrun: a lease ran out while its owner was embedding

vectorsVars == <<syncs, version, embedded, generation, lease, embedding, search, matrix, crossed, faults, overrun>>
indexVars == <<syncs, version, embedded, generation>>
searchVars == <<search, matrix, crossed>>

NoLease == [held |-> FALSE, by |-> Nobody, late |-> FALSE]
Resting == [step |-> "none", batch |-> {}, read |-> [n \in Note |-> NoVersion]]
NoRows == [n \in Note |-> NoVersion]
Answering == [step |-> "none", of |-> 0, rows |-> NoRows]
NoMatrix == [of |-> 0, rows |-> NoRows, vectors |-> NoRows]

VectorsInit ==
  /\ syncs = 0 /\ version = [n \in Note |-> NoVersion] /\ embedded = [n \in Note |-> NoVersion] /\ generation = 1
  /\ lease = NoLease /\ embedding = [p \in Process |-> Resting]
  /\ search = [t \in Searcher |-> Answering] /\ matrix = [p \in Process |-> NoMatrix]
  /\ crossed = [p \in Process |-> FALSE] /\ faults = 0 /\ overrun = FALSE

-----------------------------------------------------------------------------
Stale == {n \in Note : embedded[n] \notin {NoVersion, version[n]}}
Pending == {n \in Note : version[n] # NoVersion /\ embedded[n] # version[n]}
NeedsWork == Stale \cup Pending # {}

At(p, step) == embedding[p].step = step
Moves(p, step) == embedding' = [embedding EXCEPT ![p].step = step]
Rests(p) == embedding' = [embedding EXCEPT ![p] = Resting]

(* A sync writes a note's row, a new version or none: Indexer.sync, which knows nothing of vectors. *)
Sync(n) ==
  /\ syncs < MaxSyncs /\ syncs' = syncs + 1
  /\ \E v \in Version \ {version[n]} : version' = [version EXCEPT ![n] = v]
  /\ UNCHANGED <<embedded, generation, lease, embedding, searchVars, faults, overrun>>

(* refresh: one thread of a process at a time. *)
Refresh(p) ==
  /\ At(p, "none") /\ NeedsWork
  /\ Moves(p, "drop")
  /\ UNCHANGED <<indexVars, lease, searchVars, faults, overrun>>

(* _drop_stale: vectors of versions that are gone, in one transaction. *)
DropStale(p) ==
  /\ At(p, "drop") /\ Moves(p, "lease")
  /\ embedded' = [n \in Note |-> IF n \in Stale THEN NoVersion ELSE embedded[n]]
  /\ generation' = generation + Cardinality(Stale)
  /\ UNCHANGED <<syncs, version, lease, searchVars, faults, overrun>>

\* Mutant: a lease is never taken over.
TakeLeaseNeverLate(p) ==
  /\ At(p, "lease")
  /\ IF lease.held /\ lease.by # p
     THEN Moves(p, "release") /\ UNCHANGED lease
     ELSE Moves(p, "pending") /\ lease' = [held |-> TRUE, by |-> p, late |-> FALSE]
  /\ UNCHANGED <<indexVars, searchVars, faults, overrun>>

(* _take_lease, for each batch anew. *)
TakeLease(p) ==
  /\ At(p, "lease")
  /\ IF lease.held /\ lease.by # p /\ ~lease.late
     THEN Moves(p, "release") /\ UNCHANGED lease
     ELSE Moves(p, "pending") /\ lease' = [held |-> TRUE, by |-> p, late |-> FALSE]
  /\ UNCHANGED <<indexVars, searchVars, faults, overrun>>

(* _pending: a batch of the notes without vectors of their version. *)
ReadPending(p) ==
  /\ At(p, "pending")
  /\ \/ Pending = {} /\ Moves(p, "release")
     \/ \E batch \in SUBSET Pending :
          /\ batch # {} /\ Cardinality(batch) <= BatchSize
          /\ Cardinality(batch) < BatchSize => batch = Pending
          /\ embedding' = [embedding EXCEPT ![p] = [step |-> "embed", batch |-> batch,
              read |-> [n \in Note |-> IF n \in batch THEN version[n] ELSE NoVersion]]]
  /\ UNCHANGED <<indexVars, lease, searchVars, faults, overrun>>

\* Mutant: vectors are written and the generation stays.
WriteKeepingGeneration(p) ==
  LET current == {n \in embedding[p].batch : version[n] = embedding[p].read[n]} IN
  /\ At(p, "embed") /\ embedding' = [embedding EXCEPT ![p] = [Resting EXCEPT !.step = "lease"]]
  /\ embedded' = [n \in Note |-> IF n \in current THEN version[n] ELSE embedded[n]]
  /\ UNCHANGED <<syncs, version, generation, lease, searchVars, faults, overrun>>

(* _embed: the embedder's answer is written for the notes that have not changed meanwhile. *)
Write(p) ==
  LET current == {n \in embedding[p].batch : version[n] = embedding[p].read[n]} IN
  /\ At(p, "embed") /\ embedding' = [embedding EXCEPT ![p] = [Resting EXCEPT !.step = "lease"]]
  /\ embedded' = [n \in Note |-> IF n \in current THEN version[n] ELSE embedded[n]]
  /\ generation' = generation + Cardinality(current)
  /\ UNCHANGED <<syncs, version, lease, searchVars, faults, overrun>>

EmbedderFails(p) ==
  /\ faults < MaxFaults /\ faults' = faults + 1
  /\ At(p, "embed") /\ Moves(p, "release")
  /\ UNCHANGED <<indexVars, lease, searchVars, overrun>>

(* _release_lease: its own only, also when the lease was refused. *)
ReleaseLease(p) ==
  /\ At(p, "release") /\ Rests(p)
  /\ lease' = IF lease.held /\ lease.by = p THEN NoLease ELSE lease
  /\ UNCHANGED <<indexVars, searchVars, faults, overrun>>

(* LEASE_SECONDS have passed since the last batch was begun. *)
LeaseRunsOut ==
  /\ lease.held /\ ~lease.late /\ lease' = [lease EXCEPT !.late = TRUE]
  /\ lease.by # Nobody => faults < MaxFaults
  /\ faults' = IF lease.by = Nobody THEN faults ELSE faults + 1
  /\ overrun' = (overrun \/ lease.by # Nobody)
  /\ UNCHANGED <<indexVars, embedding, searchVars>>

(* A process is killed, and one with another pid takes its place. *)
Killed(p) ==
  /\ faults < MaxFaults /\ faults' = faults + 1
  /\ Rests(p) /\ lease' = IF lease.held /\ lease.by = p THEN [lease EXCEPT !.by = Nobody] ELSE lease
  /\ search' = [t \in Searcher |-> IF RunsIn[t] = p THEN Answering ELSE search[t]]
  /\ matrix' = [matrix EXCEPT ![p] = NoMatrix] /\ crossed' = [crossed EXCEPT ![p] = FALSE]
  /\ UNCHANGED <<indexVars, overrun>>

-----------------------------------------------------------------------------
(* _load_matrix: the generation first, then the vectors, which are put where every search of the       *)
(* process looks, one attribute after the other.                                                       *)

Loads(t) == search[t].step # "none"
Assigns(t, from, to) == search[t].step = from /\ search' = [search EXCEPT ![t].step = to]

ReadGeneration(t) ==
  /\ ~Loads(t) /\ matrix[RunsIn[t]].of # generation
  /\ search' = [search EXCEPT ![t] = [step |-> "rows", of |-> generation, rows |-> NoRows]]
  /\ crossed' = [crossed EXCEPT ![RunsIn[t]] = \E u \in Searcher \ {t} : RunsIn[u] = RunsIn[t] /\ Loads(u)]
  /\ UNCHANGED <<indexVars, lease, embedding, matrix, faults, overrun>>

ReadRows(t) ==
  /\ search[t].step = "rows"
  /\ search' = [search EXCEPT ![t] = [step |-> "read", of |-> search[t].of, rows |-> embedded]]
  /\ UNCHANGED <<indexVars, lease, embedding, matrix, crossed, faults, overrun>>

(* _rows, the keys and headings. *)
AssignRows(t) ==
  /\ Assigns(t, "read", "vectors")
  /\ matrix' = [matrix EXCEPT ![RunsIn[t]].rows = search[t].rows]
  /\ UNCHANGED <<indexVars, lease, embedding, crossed, faults, overrun>>

(* _matrix. *)
AssignMatrix(t) ==
  /\ Assigns(t, "vectors", "generation")
  /\ matrix' = [matrix EXCEPT ![RunsIn[t]].vectors = search[t].rows]
  /\ UNCHANGED <<indexVars, lease, embedding, crossed, faults, overrun>>

(* _generation; the search goes on to its answer. *)
AssignGeneration(t) ==
  /\ search[t].step = "generation"
  /\ matrix' = [matrix EXCEPT ![RunsIn[t]].of = search[t].of]
  /\ search' = [search EXCEPT ![t] = Answering]
  /\ UNCHANGED <<indexVars, lease, embedding, crossed, faults, overrun>>

LoadMatrix(t) ==
  ReadGeneration(t) \/ ReadRows(t) \/ AssignRows(t) \/ AssignMatrix(t) \/ AssignGeneration(t)

-----------------------------------------------------------------------------
Embeds(p) ==
  \/ Refresh(p) \/ DropStale(p) \/ TakeLease(p) \/ ReadPending(p) \/ Write(p) \/ ReleaseLease(p)

VectorsNext ==
  \/ \E n \in Note : Sync(n)
  \/ LeaseRunsOut
  \/ \E p \in Process : Embeds(p) \/ EmbedderFails(p) \/ Killed(p)
  \/ \E t \in Searcher : LoadMatrix(t)

(* A thread that runs goes on, time passes, and the index is used again and again: each use
   refreshes it.  Nothing makes notes change, processes die or embedders fail. *)
VectorsFairness == WF_vectorsVars(LeaseRunsOut /\ lease.by = Nobody) /\ \A p \in Process : WF_vectorsVars(Embeds(p))

VectorsSpec == VectorsInit /\ [][VectorsNext]_vectorsVars /\ VectorsFairness

-----------------------------------------------------------------------------
VectorsTypeOK ==
  /\ syncs \in 0..MaxSyncs /\ version \in [Note -> Version] /\ embedded \in [Note -> Version] /\ generation \in Nat
  /\ lease \in [held : BOOLEAN, by : Process \cup {Nobody}, late : BOOLEAN]
  /\ embedding \in [Process -> [step : {"none", "drop", "lease", "pending", "embed", "release"},
                                batch : SUBSET Note, read : [Note -> Version]]]
  /\ search \in [Searcher -> [step : {"none", "rows", "read", "vectors", "generation"}, of : Nat, rows : [Note -> Version]]]
  /\ matrix \in [Process -> [of : Nat, rows : [Note -> Version], vectors : [Note -> Version]]]
  /\ crossed \in [Process -> BOOLEAN]
  /\ faults \in 0..MaxFaults /\ overrun \in BOOLEAN

(* A matrix that counts as current holds the vectors there are, and the keys that go with them: whatever
   was written while it was read, by a thread of this process or by another process, makes the next search
   read it again.  That is so of a matrix that was read by one search at a time: two that read it at once
   take turns at its attributes, and the older reading may stay under the newer generation. *)
MatrixCurrent == \A p \in Process :
  matrix[p].of = generation /\ ~crossed[p] => matrix[p].rows = embedded /\ matrix[p].vectors = embedded

(* Two processes embed at once only when the lease of one has run out under it: one that was refused
   the lease does not give away another's. *)
OneEmbeds == overrun \/ Cardinality({p \in Process : embedding[p].step \in {"pending", "embed"}}) <= 1

(* A current matrix has the vectors there are, and the lease is one process's at a time. *)
VectorsInv == VectorsTypeOK /\ MatrixCurrent /\ OneEmbeds

(* When notes stop changing, all of them come to have the vectors of their version, also when the
   process that held the lease died with it or the embedder failed in between. *)
AllEmbedded == <>[](\A n \in Note : embedded[n] = version[n])
=============================================================================
