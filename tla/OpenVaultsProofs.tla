-------------------------- MODULE OpenVaultsProofs --------------------------
(* Theorems about OpenVaults, for any number of servers, requests, master keys, deletions and restarts.    *)
EXTENDS OpenVaults, FiniteSetTheorems, TLAPS

Opening == {"find", "key", "mint", "provision", "open"}
Handed == {"using", "done"}

(* Where a request is, it has a server, and while it uses an object it has that. *)
Shape ==
  \A r \in Request :
    /\ pc[r] # "idle" => at[r] \in Server
    /\ pc[r] = "using" <=> uses[r] # None
    /\ at[r] = None <=> pc[r] = "idle"

(* The calls that run on a server are counted. *)
Counts == \A s \in Server : holds[s] = Cardinality(Holders(s))

(* An object is one that a request has opened, on the server that it serves. *)
Objects ==
  /\ \A s \in Server : table[s] # None => pc[table[s]] \in Handed /\ at[table[s]] = s
  /\ \A r \in Request : uses[r] # None => pc[uses[r]] \in Handed /\ at[uses[r]] = at[r]
  /\ \A r \in closed : pc[r] \in Handed

(* Whoever opens the vault has its gate. *)
Gated == \A r \in Request : pc[r] \in Opening => gate[at[r]] = r

(* Where nobody discarded the vault, the open object is in the table and is not closed, and none is there *)
(* while a request opens one.                                                                             *)
Shared ==
  \A s \in Server \ discarded :
    /\ \A r \in Holders(s) : uses[r] = table[s]
    /\ table[s] \notin closed
    /\ \A r \in Request : pc[r] \in Opening /\ at[r] = s => table[s] = None

TableInv == Shape /\ Counts /\ Objects /\ Gated /\ Shared

(* A key stands for a row that stands. *)
KeyListed == wrapped # None => listed

(* Until somebody deletes the vault, whatever names a key names that of the row, and the sweep knows that *)
(* the vault lives.                                                                                       *)
IsKey(k) == wrapped # None /\ wrapped.key = k
Unerased ==
  erases = 0 =>
    /\ erase = "idle"
    /\ \A k \in sealedUnder : IsKey(k)
    /\ \A r \in Request : pc[r] \in {"provision", "open"} => IsKey(dataKey[r])
    /\ \A s \in Server : table[s] # None => IsKey(dataKey[table[s]])
    /\ \A r \in Request : uses[r] # None => IsKey(dataKey[uses[r]])
    /\ rewrap # None => IsKey(rewrap.key)
SweepKnows ==
  erases = 0 => \A s \in Server :
    /\ index[s] \/ sweep[s].pc = "live" => wrapped # None
    /\ sweep[s].pc = "opened" => sweep[s].live
    /\ sweep[s].pc # "remove"

(* The rewrap command never finds another key under the master key it read. *)
Rewraps ==
  rewrap # None =>
    /\ rewrap.master # RewrapTo
    /\ wrapped # None /\ wrapped.master = rewrap.master => wrapped.key = rewrap.key
-----------------------------------------------------------------------------
LEMMA TypesInit == VaultsInit => VaultsTypeOK
<1> SUFFICES ASSUME VaultsInit PROVE VaultsTypeOK
  OBVIOUS
<1>1. wrapped \in Wrapping \cup {None} /\ minted \in Nat
  BY DEF VaultsInit, Wrapping
<1>2. sealedUnder \subseteq Nat
  BY <1>1 DEF VaultsInit
<1>3. Swept \in [pc : SweepPC, live : BOOLEAN]
  BY DEF Swept, SweepPC
<1>4. QED
  BY <1>1, <1>2, <1>3 DEF VaultsInit, VaultsTypeOK, RequestPC, ErasePC

(* Taking the open object. *)
LEMMA TakesTypes ==
  ASSUME VaultsTypeOK, NEW r \in Request, NEW s \in Server, Takes(r, s)
  PROVE  /\ uses' \in [Request -> Request \cup {None}] /\ holds' \in [Server -> Nat]
         /\ pc' \in [Request -> RequestPC]
<1>1. table[s] \in Request /\ holds[s] + 1 \in Nat
  BY DEF VaultsTypeOK, Takes
<1>2. QED
  BY <1>1 DEF VaultsTypeOK, Takes, Goes, RequestPC

LEMMA RequestTypes ==
  ASSUME VaultsTypeOK, Shape, Counts, IsFiniteSet(Request), NEW r \in Request, Request1(r)
  PROVE  VaultsTypeOK'
<1> USE OpenVaultsAssumption
    DEF VaultsTypeOK, Goes, RequestPC, keyVars, tableVars, requestVars, eraseVars, tendVars
<1>0. pc[r] # "idle" => at[r] \in Server
  BY DEF Shape
<1>1. CASE \E s \in Server : Admit(r, s)
  BY <1>1 DEF Admit
<1>2. CASE LookUp(r)
  <2>1. CASE Takes(r, at[r])
    BY <1>0, <1>2, <2>1, TakesTypes DEF LookUp
  <2>2. CASE ~Takes(r, at[r])
    BY <1>2, <2>2 DEF LookUp
  <2>3. QED
    BY <2>1, <2>2
<1>3. CASE PassGate(r)
  <2>1. CASE Takes(r, at[r]) /\ UNCHANGED gate
    BY <1>0, <1>3, <2>1, TakesTypes DEF PassGate
  <2>2. CASE ~(Takes(r, at[r]) /\ UNCHANGED gate)
    BY <1>0, <1>3, <2>2 DEF PassGate
  <2>3. QED
    BY <2>1, <2>2
<1>4. CASE FindRow(r)
  BY <1>0, <1>4 DEF FindRow
<1>5. CASE ReadKey(r)
  BY <1>5 DEF ReadKey, Wrapping
<1>6. CASE MintKey(r)
  <2>1. CASE listed
    <3>1. Inserted(r) \in Wrapping /\ Inserted(r).key \in Nat /\ minted + 1 \in Nat
      BY <1>0, <1>6 DEF MintKey, Inserted, Wrapping
    <3>2. wrapped' = Inserted(r) /\ minted' = minted + 1 /\ dataKey' = [dataKey EXCEPT ![r] = Inserted(r).key]
          /\ pc' = [pc EXCEPT ![r] = "provision"] /\ UNCHANGED gate
      BY <1>6, <2>1 DEF MintKey
    <3>3. dataKey' \in [Request -> Nat] /\ pc' \in [Request -> RequestPC] /\ wrapped' \in Wrapping \cup {None}
          /\ minted' \in Nat
      BY <3>1, <3>2
    <3>4. QED
      BY <1>6, <3>2, <3>3 DEF MintKey
  <2>2. CASE ~listed
    <3>1. gate' = [gate EXCEPT ![at[r]] = None] /\ pc' = [pc EXCEPT ![r] = "done"]
          /\ UNCHANGED <<wrapped, minted, dataKey>>
      BY <1>6, <2>2 DEF MintKey
    <3>2. gate' \in [Server -> Request \cup {None}] /\ pc' \in [Request -> RequestPC]
      BY <3>1
    <3>3. QED
      BY <1>6, <3>1, <3>2 DEF MintKey
  <2>3. QED
    BY <2>1, <2>2
<1>7. CASE Provision(r)
  <2>1. dataKey[r] \in Nat
    OBVIOUS
  <2>2. sealedUnder' \subseteq Nat
    BY <1>7, <2>1 DEF Provision
  <2>3. QED
    BY <1>7, <2>2 DEF Provision
<1>8. CASE Opened(r)
  <2>1. holds' \in [Server -> Nat] /\ table' \in [Server -> Request \cup {None}]
    BY <1>0, <1>8 DEF Opened
  <2>2. known' \in [Server -> BOOLEAN] /\ gate' \in [Server -> Request \cup {None}]
    BY <1>8 DEF Opened
  <2>3. uses' \in [Request -> Request \cup {None}] /\ pc' \in [Request -> RequestPC]
    BY <1>8 DEF Opened
  <2>4. QED
    BY <1>8, <2>1, <2>2, <2>3 DEF Opened
<1>9. CASE Use(r)
  <2>1. uses[r] \in Request
    BY <1>9 DEF Use, Shape
  <2>2. dataKey[uses[r]] \in Nat
    BY <2>1
  <2>3. sealedUnder' \subseteq Nat /\ index' \in [Server -> BOOLEAN]
    BY <1>9, <2>2 DEF Use
  <2>4. QED
    BY <1>9, <2>3 DEF Use
<1>10. CASE Finish(r)
  <2> DEFINE s == at[r]
  <2>1. s \in Server /\ r \in Holders(s) /\ Holders(s) \subseteq Request
    BY <1>0, <1>10 DEF Finish, Holders
  <2>2. holds[s] \in Nat \ {0}
    <3>1. IsFiniteSet(Holders(s))
      BY <2>1, FS_Subset
    <3>2. Cardinality(Holders(s)) \in Nat /\ Cardinality(Holders(s)) # 0
      BY <2>1, <3>1, FS_EmptySet, FS_CardinalityType
    <3>3. QED
      BY <2>1, <3>2 DEF Counts
  <2>3. holds' \in [Server -> Nat] /\ table' \in [Server -> Request \cup {None}]
    <3>1. holds[s] - 1 \in Nat /\ uses[r] \in Request \cup {None}
      BY <2>2
    <3>2. holds' = [holds EXCEPT ![s] = holds[s] - 1] /\ table' = [table EXCEPT ![s] = uses[r]]
      BY <1>10 DEF Finish
    <3>3. QED
      BY <3>1, <3>2
  <2>4. uses' \in [Request -> Request \cup {None}] /\ pc' \in [Request -> RequestPC]
    BY <1>10 DEF Finish
  <2>5. QED
    BY <1>10, <2>3, <2>4 DEF Finish
<1>11. QED
  BY <1>1, <1>2, <1>3, <1>4, <1>5, <1>6, <1>7, <1>8, <1>9, <1>10 DEF Request1

(* What the table of a server loses when the vault is discarded there. *)
LEMMA DiscardsTypes ==
  ASSUME VaultsTypeOK, NEW s \in Server, Discards(s)
  PROVE  /\ table' \in [Server -> Request \cup {None}] /\ known' \in [Server -> BOOLEAN]
         /\ closed' \subseteq Request /\ discarded' \subseteq Server
<1>1. {table[s]} \ {None} \subseteq Request
  BY DEF VaultsTypeOK
<1>2. QED
  BY <1>1 DEF VaultsTypeOK, Discards

LEMMA EraseTypes ==
  ASSUME VaultsTypeOK, Shape,
         CreateVault \/ Discard \/ Shred \/ EmptyStorage \/ RemoveIndex \/ DropRows \/ PublishGone
         \/ \E s \in Server : HearGone(s)
  PROVE  VaultsTypeOK' /\ UNCHANGED <<requestVars, holds, gate>>
<1> USE OpenVaultsAssumption DEF VaultsTypeOK, ErasePC, keyVars, tableVars, requestVars, eraseVars, tendVars
<1>1. CASE CreateVault
  BY <1>1 DEF CreateVault
<1>2. CASE Discard
  BY <1>2, DiscardsTypes DEF Discard
<1>3. CASE Shred \/ EmptyStorage \/ RemoveIndex
  BY <1>3 DEF Shred, EmptyStorage, RemoveIndex
<1>4. CASE DropRows
  BY <1>4 DEF DropRows
<1>5. CASE PublishGone
  BY <1>5 DEF PublishGone
<1>6. CASE \E s \in Server : HearGone(s)
  <2>1. PICK s \in Server : HearGone(s)
    BY <1>6
  <2>2. index' \in [Server -> BOOLEAN] /\ gone' \subseteq Server
    BY <2>1 DEF HearGone
  <2>3. QED
    BY <2>1, <2>2, DiscardsTypes DEF HearGone
<1>7. QED
  BY <1>1, <1>2, <1>3, <1>4, <1>5, <1>6

LEMMA TendTypes ==
  ASSUME VaultsTypeOK, Shape, RewrapRead \/ RewrapWrite \/ (\E s \in Server : Sweeps(s)) \/ (\E s \in Server : Evict(s))
  PROVE  VaultsTypeOK' /\ UNCHANGED <<requestVars, holds, gate>>
<1> USE OpenVaultsAssumption DEF VaultsTypeOK, SweepPC, keyVars, tableVars, requestVars, eraseVars, tendVars
<1>1. CASE RewrapRead
  BY <1>1 DEF RewrapRead
<1>2. CASE RewrapWrite
  <2>1. [rewrap EXCEPT !.master = RewrapTo] \in Wrapping
    BY <1>2 DEF RewrapWrite, Wrapping
  <2>2. QED
    BY <1>2, <2>1 DEF RewrapWrite
<1>3. ASSUME NEW s \in Server, Sweeps(s) PROVE sweep' \in [Server -> [pc : SweepPC, live : BOOLEAN]]
  <2>1. CASE SweepFind(s)
    BY <2>1 DEF SweepFind
  <2>2. CASE SweepLive(s)
    BY <2>2 DEF SweepLive
  <2>3. CASE SweepOpened(s)
    BY <2>3 DEF SweepOpened, Swept
  <2>4. CASE SweepRemove(s)
    BY <2>4 DEF SweepRemove, Swept
  <2>5. QED
    BY <1>3, <2>1, <2>2, <2>3, <2>4 DEF Sweeps
<1>4. CASE \E s \in Server : Sweeps(s)
  <2>1. PICK s \in Server : Sweeps(s)
    BY <1>4
  <2>2. sweep' \in [Server -> [pc : SweepPC, live : BOOLEAN]]
    BY <1>3, <2>1
  <2>3. index' \in [Server -> BOOLEAN]
    BY <2>1 DEF Sweeps, SweepFind, SweepLive, SweepOpened, SweepRemove
  <2>4. QED
    BY <2>1, <2>2, <2>3 DEF Sweeps, SweepFind, SweepLive, SweepOpened, SweepRemove
<1>5. CASE \E s \in Server : Evict(s)
  BY <1>5 DEF Evict
<1>6. QED
  BY <1>1, <1>2, <1>4, <1>5

LEMMA RestartTypes ==
  ASSUME VaultsTypeOK, Shape, NEW s \in Server, Restart(s)
  PROVE  VaultsTypeOK'
<1> USE DEF VaultsTypeOK, keyVars
<1>1. /\ table' \in [Server -> Request \cup {None}] /\ known' \in [Server -> BOOLEAN]
      /\ holds' \in [Server -> Nat] /\ gate' \in [Server -> Request \cup {None}]
  BY DEF Restart
<1>2. pc' \in [Request -> RequestPC] /\ uses' \in [Request -> Request \cup {None}]
  BY DEF Restart, RequestPC
<1>3. sweep' \in [Server -> [pc : SweepPC, live : BOOLEAN]]
  BY DEF Restart, Swept, SweepPC
<1>4. erase' \in ErasePC /\ restarts' \in Nat /\ discarded' \subseteq Server /\ gone' \subseteq Server
  BY DEF Restart, ErasePC
<1>5. QED
  BY <1>1, <1>2, <1>3, <1>4 DEF Restart

-----------------------------------------------------------------------------
(* The table, the calls on it and the objects they use. *)
Table == <<pc, at, uses, table, holds, gate, closed, discarded>>

LEMMA TableInit == VaultsInit => TableInv
<1> SUFFICES ASSUME VaultsInit PROVE TableInv
  OBVIOUS
<1>1. \A r \in Request : pc[r] = "idle" /\ at[r] = None /\ uses[r] = None
  BY DEF VaultsInit
<1>2. Shape /\ Gated
  BY <1>1 DEF Shape, Gated, Opening
<1>3. Objects
  BY <1>1 DEF VaultsInit, Objects
<1>4. \A s \in Server : Holders(s) = {}
  BY <1>1 DEF Holders
<1>5. Counts
  BY <1>4, FS_EmptySet DEF VaultsInit, Counts
<1>6. Shared
  BY <1>1, <1>4 DEF VaultsInit, Shared
<1>7. QED
  BY <1>2, <1>3, <1>5, <1>6 DEF TableInv

(* What the lemmas on single steps are given. *)
LEMMA TableTypes == VaultsTypeOK =>
  /\ pc \in [Request -> RequestPC] /\ at \in [Request -> Server \cup {None}] /\ uses \in [Request -> Request \cup {None}]
  /\ table \in [Server -> Request \cup {None}] /\ holds \in [Server -> Nat] /\ gate \in [Server -> Request \cup {None}]
  /\ closed \subseteq Request /\ discarded \subseteq Server
BY DEF VaultsTypeOK

LEMMA TableStutters == ASSUME TableInv, UNCHANGED Table PROVE TableInv'
BY DEF TableInv, Table, Shape, Counts, Objects, Gated, Shared, Holders

(* A request is let in. *)
LEMMA AdmitHolds ==
  ASSUME VaultsTypeOK, TableInv, NEW r \in Request, NEW s \in Server, Admit(r, s) PROVE TableInv'
<1> USE OpenVaultsAssumption, TableTypes
<1>1. /\ pc[r] = "idle" /\ pc' = [pc EXCEPT ![r] = "lookup"] /\ at' = [at EXCEPT ![r] = s] /\ uses[r] = None
      /\ UNCHANGED <<uses, table, holds, gate, closed, discarded>>
  BY DEF Admit, Goes, tableVars, TableInv, Shape
<1>2. \A q \in Request : pc[q] \in Handed => q # r
  BY <1>1 DEF Handed
<1>3. Shape'
  BY <1>1 DEF TableInv, Shape
<1>4. \A t \in Server : Holders(t)' = Holders(t)
  BY <1>1 DEF Holders
<1>5. Objects'
  BY <1>1, <1>2 DEF TableInv, Objects
<1>6. Gated' /\ Shared' /\ Counts'
  BY <1>1, <1>4 DEF TableInv, Gated, Shared, Counts, Opening
<1>7. QED
  BY <1>3, <1>5, <1>6 DEF TableInv

(* A request goes on opening the vault. *)
LEMMA OnHolds ==
  ASSUME VaultsTypeOK, TableInv, NEW r \in Request, pc[r] \in Opening, NEW to \in Opening,
         pc' = [pc EXCEPT ![r] = to], UNCHANGED <<at, uses, table, holds, gate, closed, discarded>>
  PROVE  TableInv'
<1> USE OpenVaultsAssumption, TableTypes
<1>1. Shape' /\ Gated'
  BY DEF TableInv, Shape, Gated, Opening
<1>2. \A t \in Server : Holders(t)' = Holders(t)
  BY DEF Holders, Opening
<1>3. Objects'
  BY DEF TableInv, Objects, Opening, Handed
<1>4. Shared' /\ Counts'
  BY <1>2 DEF TableInv, Shared, Counts
<1>5. QED
  BY <1>1, <1>3, <1>4 DEF TableInv

(* It gives up, or has never begun. *)
LEMMA FailHolds ==
  ASSUME VaultsTypeOK, TableInv, NEW r \in Request, pc[r] \in Opening,
         pc' = [pc EXCEPT ![r] = "done"], gate' = [gate EXCEPT ![at[r]] = None],
         UNCHANGED <<at, uses, table, holds, closed, discarded>>
  PROVE  TableInv'
<1> USE OpenVaultsAssumption, TableTypes
<1>1. at[r] \in Server
  BY DEF TableInv, Shape, Opening
<1>2. Shape'
  BY DEF TableInv, Shape, Opening
<1>3. Gated'
  BY <1>1 DEF TableInv, Shape, Gated, Opening
<1>4. \A t \in Server : Holders(t)' = Holders(t)
  BY DEF Holders, Opening
<1>5. Objects'
  BY DEF TableInv, Objects, Opening, Handed
<1>6. Shared' /\ Counts'
  BY <1>4 DEF TableInv, Shared, Counts, Opening
<1>7. QED
  BY <1>2, <1>3, <1>5, <1>6 DEF TableInv

(* It gets behind the gate, the table being empty. *)
LEMMA GateHolds ==
  ASSUME VaultsTypeOK, TableInv, NEW r \in Request, pc[r] = "gate",
         gate[at[r]] = None, table[at[r]] = None,
         pc' = [pc EXCEPT ![r] = "find"], gate' = [gate EXCEPT ![at[r]] = r],
         UNCHANGED <<at, uses, table, holds, closed, discarded>>
  PROVE  TableInv'
<1> USE OpenVaultsAssumption, TableTypes
<1>1. at[r] \in Server
  BY DEF TableInv, Shape
<1>2. Shape'
  BY DEF TableInv, Shape
<1>3. Gated'
  BY <1>1 DEF TableInv, Shape, Gated, Opening
<1>4. \A t \in Server : Holders(t)' = Holders(t)
  BY DEF Holders
<1>5. Objects'
  BY DEF TableInv, Objects, Handed
<1>6. Shared' /\ Counts'
  BY <1>4 DEF TableInv, Shared, Counts, Opening
<1>7. QED
  BY <1>2, <1>3, <1>5, <1>6 DEF TableInv

LEMMA OneMore == ASSUME NEW S, NEW x, IsFiniteSet(S), x \notin S PROVE Cardinality(S \cup {x}) = Cardinality(S) + 1
BY FS_AddElement

LEMMA OneLess == ASSUME NEW S, NEW x, IsFiniteSet(S), x \in S PROVE Cardinality(S \ {x}) = Cardinality(S) - 1
BY FS_RemoveElement

(* One more call, or one less. *)
LEMMA CountsMore ==
  ASSUME VaultsTypeOK, Counts, IsFiniteSet(Request), NEW r \in Request, NEW s \in Server, at[r] = s,
         pc[r] # "using", pc' = [pc EXCEPT ![r] = "using"], holds' = [holds EXCEPT ![s] = @ + 1], UNCHANGED at
  PROVE  Counts'
<1> USE TableTypes
<1>1. Holders(s)' = Holders(s) \cup {r} /\ r \notin Holders(s) /\ \A t \in Server \ {s} : Holders(t)' = Holders(t)
  BY DEF Holders
<1>2. IsFiniteSet(Holders(s))
  BY FS_Subset DEF Holders
<1>3. Cardinality(Holders(s)') = Cardinality(Holders(s)) + 1
  <2>1. Cardinality(Holders(s) \cup {r}) = Cardinality(Holders(s)) + 1
    BY ONLY <1>1, <1>2, OneMore
  <2>2. QED
    BY ONLY <1>1, <2>1
<1>4. QED
  BY <1>1, <1>3 DEF Counts

LEMMA CountsLess ==
  ASSUME VaultsTypeOK, Counts, IsFiniteSet(Request), NEW r \in Request, NEW s \in Server, at[r] = s,
         pc[r] = "using", pc' = [pc EXCEPT ![r] = "done"], holds' = [holds EXCEPT ![s] = @ - 1], UNCHANGED at
  PROVE  Counts'
<1> USE TableTypes
<1>1. Holders(s)' = Holders(s) \ {r} /\ r \in Holders(s) /\ \A t \in Server \ {s} : Holders(t)' = Holders(t)
  BY DEF Holders
<1>2. IsFiniteSet(Holders(s))
  BY FS_Subset DEF Holders
<1>3. Cardinality(Holders(s)') = Cardinality(Holders(s)) - 1
  <2>1. Cardinality(Holders(s) \ {r}) = Cardinality(Holders(s)) - 1
    BY ONLY <1>1, <1>2, OneLess
  <2>2. QED
    BY ONLY <1>1, <2>1
<1>4. QED
  BY <1>1, <1>3 DEF Counts

(* It takes the object that is open. *)
LEMMA TakesHolds ==
  ASSUME VaultsTypeOK, TableInv, IsFiniteSet(Request), NEW r \in Request, pc[r] \in {"lookup", "gate"},
         Takes(r, at[r]), UNCHANGED <<at, table, gate, closed, discarded>>
  PROVE  TableInv'
<1> USE OpenVaultsAssumption, TableTypes
<1> DEFINE s == at[r]
<1>1. s \in Server /\ table[s] \in Request
  BY DEF TableInv, Shape, Takes
<1>2. uses' = [uses EXCEPT ![r] = table[s]] /\ pc' = [pc EXCEPT ![r] = "using"] /\ holds' = [holds EXCEPT ![s] = @ + 1]
  BY DEF Takes, Goes
<1>3. Shape'
  BY <1>1, <1>2 DEF TableInv, Shape
<1>4. Gated'
  BY <1>2 DEF TableInv, Gated, Opening
<1>5. Counts'
  BY <1>1, <1>2, CountsMore DEF TableInv
<1>6. Objects'
  BY <1>1, <1>2 DEF TableInv, Objects, Handed
<1>7. Holders(s)' = Holders(s) \cup {r} /\ \A t \in Server \ {s} : Holders(t)' = Holders(t)
  BY <1>2 DEF Holders
<1>8. Shared'
  BY <1>1, <1>2, <1>7 DEF TableInv, Shared, Opening, Holders
<1>9. QED
  BY <1>3, <1>4, <1>5, <1>6, <1>8 DEF TableInv

(* It has opened the vault: nobody uses another object, and its own was never closed. *)
LEMMA OpenedHolds ==
  ASSUME VaultsTypeOK, TableInv, IsFiniteSet(Request), NEW r \in Request, Opened(r) PROVE TableInv'
<1> USE OpenVaultsAssumption, TableTypes
<1> DEFINE s == at[r]
<1>1. /\ pc[r] = "open" /\ pc' = [pc EXCEPT ![r] = "using"] /\ table' = [table EXCEPT ![s] = r]
      /\ uses' = [uses EXCEPT ![r] = r] /\ holds' = [holds EXCEPT ![s] = @ + 1]
      /\ gate' = [gate EXCEPT ![s] = None] /\ UNCHANGED <<at, closed, discarded>>
  BY DEF Opened, Goes
<1>2. s \in Server /\ gate[s] = r /\ r \notin closed
  BY <1>1 DEF TableInv, Shape, Gated, Objects, Opening, Handed
<1>3. Shape'
  BY <1>1, <1>2 DEF TableInv, Shape
<1>4. Gated'
  BY <1>1, <1>2 DEF TableInv, Gated, Opening
<1>5. Counts'
  BY <1>1, <1>2, CountsMore DEF TableInv
<1>6. Objects'
  BY <1>1, <1>2 DEF TableInv, Objects, Handed
<1>7. \A t \in Server \ {s} : Holders(t)' = Holders(t) /\ table'[t] = table[t]
  BY <1>1, <1>2 DEF Holders
<1>8. s \notin discarded => Holders(s)' = {r}
  <2>1. ASSUME s \notin discarded, NEW q \in Holders(s) PROVE FALSE
    BY <1>1, <1>2, <2>1 DEF TableInv, Shared, Shape, Holders, Opening
  <2>2. QED
    BY <1>1, <2>1 DEF Holders
<1>9. s \notin discarded => \A q \in Request : pc[q] \in Opening /\ at[q] = s => q = r
  BY <1>2 DEF TableInv, Gated
<1>10. Shared'
  <2>1. ASSUME NEW t \in Server \ discarded
        PROVE  /\ \A q \in Holders(t)' : uses'[q] = table'[t]
               /\ table'[t] \notin closed'
               /\ \A q \in Request : pc'[q] \in Opening /\ at'[q] = t => table'[t] = None
    <3>1. CASE t = s
      BY <1>1, <1>2, <1>8, <1>9, <3>1 DEF Opening
    <3>2. CASE t # s
      BY <1>1, <1>7, <3>2 DEF TableInv, Shared, Opening, Holders
    <3>3. QED
      BY <3>1, <3>2
  <2>2. QED
    BY <1>1, <2>1 DEF Shared
<1>11. QED
  BY <1>3, <1>4, <1>5, <1>6, <1>10 DEF TableInv

(* Its call is over: the object goes back into the table. *)
LEMMA FinishHolds ==
  ASSUME VaultsTypeOK, TableInv, IsFiniteSet(Request), NEW r \in Request, Finish(r) PROVE TableInv'
<1> USE OpenVaultsAssumption, TableTypes
<1> DEFINE s == at[r]
<1>1. /\ pc[r] = "using" /\ pc' = [pc EXCEPT ![r] = "done"] /\ table' = [table EXCEPT ![s] = uses[r]]
      /\ uses' = [uses EXCEPT ![r] = None] /\ holds' = [holds EXCEPT ![s] = @ - 1]
      /\ UNCHANGED <<at, gate, closed, discarded>>
  BY DEF Finish, Goes
<1>2. s \in Server /\ uses[r] \in Request /\ r \in Holders(s)
  BY <1>1 DEF TableInv, Shape, Holders
<1>3. Shape'
  BY <1>1, <1>2 DEF TableInv, Shape
<1>4. Gated'
  BY <1>1, <1>2 DEF TableInv, Gated, Opening
<1>5. Counts'
  BY <1>1, <1>2, CountsLess DEF TableInv
<1>6. Objects'
  BY <1>1, <1>2 DEF TableInv, Objects, Handed
<1>7. \A t \in Server : Holders(t)' \subseteq Holders(t) \ {r}
  BY <1>1, <1>2 DEF Holders
<1>8. s \notin discarded => table'[s] = table[s]
  BY <1>1, <1>2 DEF TableInv, Shared
<1>9. \A t \in Server \ discarded : table'[t] = table[t]
  BY <1>1, <1>8
<1>10. Shared'
  BY <1>1, <1>7, <1>9 DEF TableInv, Shared, Opening, Holders
<1>11. QED
  BY <1>3, <1>4, <1>5, <1>6, <1>10 DEF TableInv

(* The vault is closed because nobody uses it. *)
LEMMA EvictHolds ==
  ASSUME VaultsTypeOK, TableInv, IsFiniteSet(Request), NEW s \in Server, Evict(s) PROVE TableInv'
<1> USE OpenVaultsAssumption, TableTypes
<1>1. /\ table[s] \in Request /\ holds[s] = 0 /\ closed' = closed \cup {table[s]} /\ table' = [table EXCEPT ![s] = None]
      /\ UNCHANGED <<pc, at, uses, holds, gate, discarded>>
  BY DEF Evict, requestVars
<1>2. Holders(s) = {}
  BY <1>1, FS_Subset, FS_EmptySet DEF TableInv, Counts, Holders
<1>3. Shape' /\ Gated' /\ Counts'
  BY <1>1 DEF TableInv, Shape, Gated, Counts, Holders
<1>4. Objects'
  BY <1>1 DEF TableInv, Objects
<1>5. \A t \in Server \ {s} : table[t] # table[s]
  BY <1>1 DEF TableInv, Objects
<1>6. \A t \in Server : Holders(t)' = Holders(t)
  BY <1>1 DEF Holders
<1>7. Shared'
  BY <1>1, <1>2, <1>5, <1>6 DEF TableInv, Shared, Opening
<1>8. QED
  BY <1>3, <1>4, <1>7 DEF TableInv

(* A server discards the vault: what is promised of it there ends. *)
LEMMA DiscardsHolds ==
  ASSUME VaultsTypeOK, TableInv, NEW s \in Server, Discards(s), UNCHANGED <<pc, at, uses, holds, gate>> PROVE TableInv'
<1> USE OpenVaultsAssumption, TableTypes
<1>1. Shape' /\ Gated' /\ Counts'
  BY DEF TableInv, Shape, Gated, Counts, Holders
<1>2. /\ table' = [table EXCEPT ![s] = None] /\ closed' = closed \cup ({table[s]} \ {None})
      /\ discarded' = discarded \cup {s}
  BY DEF Discards
<1>3. Objects'
  BY <1>2 DEF TableInv, Objects
<1>4. \A t \in Server \ {s} : table[t] = None \/ table[t] # table[s]
  BY DEF TableInv, Objects
<1>5. Shared'
  BY <1>2, <1>4 DEF TableInv, Shared, Holders
<1>6. QED
  BY <1>1, <1>3, <1>5 DEF TableInv

(* A server is started again: nothing of it is left. *)
LEMMA RestartHolds ==
  ASSUME VaultsTypeOK, TableInv, NEW s \in Server, Restart(s) PROVE TableInv'
<1> USE OpenVaultsAssumption, TableTypes
<1>1. /\ table' = [table EXCEPT ![s] = None] /\ holds' = [holds EXCEPT ![s] = 0] /\ gate' = [gate EXCEPT ![s] = None]
      /\ discarded' = discarded \ {s} /\ UNCHANGED <<at, closed>>
      /\ \A r \in Request : /\ pc'[r] = IF at[r] = s /\ pc[r] # "idle" THEN "done" ELSE pc[r]
                            /\ uses'[r] = IF at[r] = s THEN None ELSE uses[r]
  BY DEF Restart
<1>2. Shape'
  BY <1>1 DEF TableInv, Shape
<1>3. Gated'
  BY <1>1 DEF TableInv, Shape, Gated, Opening
<1>4. Objects'
  BY <1>1 DEF TableInv, Objects, Handed
<1>5. Holders(s)' = {} /\ \A t \in Server \ {s} : Holders(t)' = Holders(t)
  BY <1>1 DEF Holders
<1>6. Counts'
  BY <1>1, <1>5, FS_EmptySet DEF TableInv, Counts
<1>7. \A r \in Request : pc'[r] \in Opening => at[r] # s /\ pc'[r] = pc[r]
  BY <1>1 DEF TableInv, Shape, Opening
<1>8. Shared'
  BY <1>1, <1>5, <1>7 DEF TableInv, Shared, Holders
<1>9. QED
  BY <1>2, <1>3, <1>4, <1>6, <1>8 DEF TableInv

LEMMA RequestHolds ==
  ASSUME VaultsTypeOK, TableInv, IsFiniteSet(Request), NEW r \in Request, Request1(r) PROVE TableInv'
<1>1. CASE \E s \in Server : Admit(r, s)
  BY <1>1, AdmitHolds
<1>2. CASE LookUp(r)
  <2>1. CASE Takes(r, at[r])
    BY <1>2, <2>1, TakesHolds DEF LookUp
  <2>2. CASE ~Takes(r, at[r])
    <3>1. /\ pc[r] = "lookup" /\ pc' = [pc EXCEPT ![r] = "gate"]
          /\ UNCHANGED <<at, uses, table, holds, gate, closed, discarded>>
      BY <1>2, <2>2 DEF LookUp, Goes
    <3>2. Shape' /\ Gated'
      BY <3>1, TableTypes DEF TableInv, Shape, Gated, Opening
    <3>3. \A s \in Server : Holders(s)' = Holders(s)
      BY <3>1, TableTypes DEF Holders
    <3>4. Counts' /\ Shared' /\ Objects'
      BY <3>1, <3>3, TableTypes DEF TableInv, Counts, Shared, Objects, Opening, Handed
    <3>5. QED
      BY <3>2, <3>4 DEF TableInv
  <2>3. QED
    BY <2>1, <2>2
<1>3. CASE PassGate(r)
  <2>1. CASE Takes(r, at[r]) /\ UNCHANGED gate
    BY <1>3, <2>1, TakesHolds DEF PassGate
  <2>2. CASE ~(Takes(r, at[r]) /\ UNCHANGED gate)
    BY <1>3, <2>2, GateHolds DEF PassGate, Goes
  <2>3. QED
    BY <2>1, <2>2
<1>4. CASE FindRow(r)
  BY <1>4, OnHolds, FailHolds DEF FindRow, Goes, Opening
<1>5. CASE ReadKey(r)
  BY <1>5, OnHolds DEF ReadKey, Goes, Opening, tableVars
<1>6. CASE MintKey(r)
  BY <1>6, OnHolds, FailHolds DEF MintKey, Goes, Opening
<1>7. CASE Provision(r)
  BY <1>7, OnHolds DEF Provision, Goes, Opening, tableVars
<1>8. CASE Opened(r)
  BY <1>8, OpenedHolds
<1>9. CASE Use(r)
  BY <1>9, TableStutters DEF Use, Table, tableVars, requestVars
<1>10. CASE Finish(r)
  BY <1>10, FinishHolds
<1>11. QED
  BY <1>1, <1>2, <1>3, <1>4, <1>5, <1>6, <1>7, <1>8, <1>9, <1>10 DEF Request1

LEMMA StepHolds ==
  ASSUME IsFiniteSet(Request), VaultsTypeOK, TableInv, [VaultsNext]_vaultsVars PROVE VaultsTypeOK' /\ TableInv'
<1>0. Shape /\ Counts
  BY DEF TableInv
<1>1. CASE UNCHANGED vaultsVars
  BY <1>1, TableStutters
     DEF vaultsVars, VaultsTypeOK, Table, keyVars, tableVars, requestVars, eraseVars, tendVars
<1>2. CASE \E r \in Request : Request1(r)
  BY <1>0, <1>2, RequestTypes, RequestHolds
<1>3. CASE CreateVault \/ Shred \/ EmptyStorage \/ RemoveIndex \/ DropRows \/ PublishGone
  <2>1. UNCHANGED Table
    BY <1>3 DEF Table, CreateVault, Shred, EmptyStorage, RemoveIndex, DropRows, PublishGone, tableVars, requestVars
  <2>2. QED
    BY <1>0, <1>3, <2>1, EraseTypes, TableStutters
<1>4. CASE Discard
  BY <1>0, <1>4, EraseTypes, DiscardsHolds, OpenVaultsAssumption DEF Discard, requestVars
<1>5. CASE \E s \in Server : HearGone(s)
  BY <1>0, <1>5, EraseTypes, DiscardsHolds DEF HearGone, requestVars
<1>6. CASE \E s \in Server : Evict(s)
  BY <1>0, <1>6, TendTypes, EvictHolds
<1>7. CASE RewrapRead \/ RewrapWrite \/ \E s \in Server : Sweeps(s)
  <2>1. UNCHANGED Table
    BY <1>7 DEF Table, RewrapRead, RewrapWrite, Sweeps, SweepFind, SweepLive, SweepOpened, SweepRemove,
                tableVars, requestVars
  <2>2. QED
    BY <1>0, <1>7, <2>1, TendTypes, TableStutters
<1>8. CASE \E s \in Server : Restart(s)
  BY <1>0, <1>8, RestartTypes, RestartHolds
<1>9. QED
  BY <1>1, <1>2, <1>3, <1>4, <1>5, <1>6, <1>7, <1>8 DEF VaultsNext

(* Until a deletion takes the vault out of a server's table, the calls that run there use one object, the   *)
(* one in the table, counted and not closed under them: the gate and the second look behind it, in _take   *)
(* and acquire of SubjectVaults (vault.py).                                                                *)
THEOREM OneObjectOpen == IsFiniteSet(Request) => (VaultsSpec => []VaultsInv)
<1> SUFFICES ASSUME IsFiniteSet(Request) PROVE VaultsSpec => []VaultsInv
  OBVIOUS
<1> DEFINE Inv == VaultsTypeOK /\ TableInv
<1>1. VaultsInit => Inv
  BY TypesInit, TableInit
<1>2. Inv /\ [VaultsNext]_vaultsVars => Inv'
  BY StepHolds
<1>3. Inv => VaultsInv
  <2> SUFFICES ASSUME VaultsTypeOK, TableInv PROVE VaultsInv
    OBVIOUS
  <2>1. \A s \in Server : holds[s] = Cardinality(Holders(s))
    BY DEF TableInv, Counts
  <2>2. \A s \in Server \ discarded : \A r \in Holders(s) : uses[r] = table[s] /\ uses[r] \notin closed
    BY DEF TableInv, Shared
  <2>3. QED
    BY <2>1, <2>2 DEF VaultsInv, OneObject
<1> HIDE DEF Inv
<1>4. QED
  BY <1>1, <1>2, <1>3, PTL DEF VaultsSpec

-----------------------------------------------------------------------------
(* The keys, and what the sweep knows. *)
KeyInv == KeyListed /\ Unerased /\ SweepKnows
Keys == <<listed, wrapped, sealedUnder, index, pc, uses, dataKey, table, erase, erases, sweep, rewrap>>

LEMMA KeyInit == VaultsInit => KeyInv
<1> SUFFICES ASSUME VaultsInit PROVE KeyInv
  OBVIOUS
<1>1. KeyListed
  BY DEF VaultsInit, KeyListed
<1>2. \A k \in sealedUnder : IsKey(k)
  <2>1. ASSUME NEW k \in sealedUnder PROVE minted = 1 /\ k = 1
    BY <2>1 DEF VaultsInit
  <2>2. ASSUME minted = 1 PROVE wrapped # None /\ wrapped.key = 1
    <3>1. PICK m \in Master : wrapped = [key |-> 1, master |-> m]
      BY <2>2 DEF VaultsInit
    <3>2. [key |-> 1, master |-> m] \in [key : Nat, master : Master]
      OBVIOUS
    <3>3. QED
      BY <3>1, <3>2, NoneAssumption
  <2>3. QED
    BY <2>1, <2>2 DEF IsKey
<1>3. Unerased
  BY <1>2 DEF VaultsInit, Unerased
<1>4. SweepKnows
  BY DEF VaultsInit, SweepKnows, Swept
<1>5. QED
  BY <1>1, <1>3, <1>4 DEF KeyInv

LEMMA KeyTypes == VaultsTypeOK =>
  /\ pc \in [Request -> RequestPC] /\ uses \in [Request -> Request \cup {None}] /\ dataKey \in [Request -> Nat]
  /\ table \in [Server -> Request \cup {None}] /\ index \in [Server -> BOOLEAN]
  /\ sweep \in [Server -> [pc : SweepPC, live : BOOLEAN]] /\ erases \in Nat
  /\ wrapped \in Wrapping \cup {None} /\ rewrap \in Wrapping \cup {None} /\ minted \in Nat
BY DEF VaultsTypeOK

LEMMA KeyStutters == ASSUME KeyInv, UNCHANGED Keys PROVE KeyInv'
BY DEF KeyInv, Keys, KeyListed, Unerased, SweepKnows, IsKey

(* Calls that leave the row of keys, the deletion and the housekeeping alone. *)
LEMMA CallKeeps ==
  ASSUME KeyInv, UNCHANGED <<listed, wrapped, erase, erases, sweep, rewrap>>,
         erases = 0 =>
           /\ \A k \in sealedUnder' : IsKey(k)
           /\ \A r \in Request : pc'[r] \in {"provision", "open"} => IsKey(dataKey'[r])
           /\ \A s \in Server : table'[s] # None => IsKey(dataKey'[table'[s]])
           /\ \A r \in Request : uses'[r] # None => IsKey(dataKey'[uses'[r]])
           /\ \A s \in Server : index'[s] => wrapped # None
  PROVE  KeyInv'
BY DEF KeyInv, KeyListed, Unerased, SweepKnows, IsKey

LEMMA TakesKey ==
  ASSUME VaultsTypeOK, KeyInv, NEW r \in Request, NEW s \in Server, Takes(r, s),
         UNCHANGED <<listed, wrapped, erase, erases, sweep, rewrap, sealedUnder, table, index, dataKey>>
  PROVE  KeyInv'
<1> USE KeyTypes
<1>1. erases = 0 => IsKey(dataKey[table[s]])
  BY DEF Takes, KeyInv, Unerased
<1>2. pc' = [pc EXCEPT ![r] = "using"] /\ uses' = [uses EXCEPT ![r] = table[s]]
  BY DEF Takes, Goes
<1>3. erases = 0 => \A q \in Request : uses'[q] # None => IsKey(dataKey[uses'[q]])
  BY <1>1, <1>2 DEF KeyInv, Unerased
<1>4. erases = 0 => \A q \in Request : pc'[q] \in {"provision", "open"} => IsKey(dataKey[q])
  BY <1>2 DEF KeyInv, Unerased
<1>5. QED
  BY <1>3, <1>4, CallKeeps DEF KeyInv, Unerased, SweepKnows

LEMMA RequestKey ==
  ASSUME VaultsTypeOK, TableInv, KeyInv, NEW r \in Request, Request1(r) PROVE KeyInv'
<1> USE KeyTypes, OpenVaultsAssumption
<1>0. pc[r] # "idle" => at[r] \in Server
  BY DEF TableInv, Shape
<1>1. CASE \E s \in Server : Admit(r, s)
  <2>1. pc' = [pc EXCEPT ![r] = "lookup"]
        /\ UNCHANGED <<listed, wrapped, sealedUnder, index, uses, dataKey, table, erase, erases, sweep, rewrap>>
    BY <1>1 DEF Admit, Goes, keyVars, tableVars, eraseVars, tendVars
  <2>2. QED
    BY <2>1, CallKeeps DEF KeyInv, Unerased, SweepKnows
<1>2. CASE LookUp(r) \/ PassGate(r)
  <2>0. UNCHANGED <<listed, wrapped, sealedUnder, index, dataKey, table, erase, erases, sweep, rewrap>>
    BY <1>2 DEF LookUp, PassGate, keyVars, eraseVars, tendVars
  <2>1. CASE Takes(r, at[r])
    BY <1>0, <1>2, <2>0, <2>1, TakesKey DEF LookUp, PassGate
  <2>2. CASE ~Takes(r, at[r])
    <3>1. pc' \in {[pc EXCEPT ![r] = "gate"], [pc EXCEPT ![r] = "find"]} /\ UNCHANGED uses
      BY <1>2, <2>2 DEF LookUp, PassGate, Goes
    <3>2. QED
      BY <2>0, <3>1, CallKeeps DEF KeyInv, Unerased, SweepKnows
  <2>3. QED
    BY <2>1, <2>2
<1>3. CASE FindRow(r)
  <2>1. pc' \in {[pc EXCEPT ![r] = "key"], [pc EXCEPT ![r] = "done"]}
        /\ UNCHANGED <<listed, wrapped, sealedUnder, index, uses, dataKey, table, erase, erases, sweep, rewrap>>
    BY <1>3 DEF FindRow, Goes, keyVars, eraseVars, tendVars
  <2>2. QED
    BY <2>1, CallKeeps DEF KeyInv, Unerased, SweepKnows
<1>4. CASE ReadKey(r)
  <2>1. UNCHANGED <<listed, wrapped, sealedUnder, index, uses, table, erase, erases, sweep, rewrap>>
    BY <1>4 DEF ReadKey, keyVars, tableVars, eraseVars, tendVars
  <2>2. CASE wrapped # None
    <3>1. pc[r] = "key" /\ dataKey' = [dataKey EXCEPT ![r] = wrapped.key] /\ pc' = [pc EXCEPT ![r] = "provision"]
      BY <1>4, <2>2 DEF ReadKey, Goes
    <3>2. dataKey'[r] = wrapped.key /\ \A q \in Request \ {r} : dataKey'[q] = dataKey[q]
      BY <3>1
    <3>3. \A s \in Server : table[s] # r
      BY <3>1 DEF TableInv, Objects, Handed
    <3>4. \A q \in Request : uses[q] # r
      BY <3>1 DEF TableInv, Objects, Handed
    <3>5. QED
      BY <2>1, <2>2, <3>1, <3>2, <3>3, <3>4, CallKeeps DEF KeyInv, Unerased, SweepKnows, IsKey
  <2>3. CASE wrapped = None
    <3>1. pc' = [pc EXCEPT ![r] = "mint"] /\ UNCHANGED dataKey
      BY <1>4, <2>3 DEF ReadKey, Goes
    <3>2. QED
      BY <2>1, <3>1, CallKeeps DEF KeyInv, Unerased, SweepKnows
  <2>4. QED
    BY <2>2, <2>3
<1>5. CASE MintKey(r)
  <2>1. UNCHANGED <<listed, sealedUnder, index, uses, table, erase, erases, sweep, rewrap>> /\ pc[r] = "mint"
    BY <1>5 DEF MintKey, eraseVars, tendVars
  <2>2. CASE listed
    <3>1. wrapped' = Inserted(r) /\ dataKey' = [dataKey EXCEPT ![r] = Inserted(r).key]
          /\ pc' = [pc EXCEPT ![r] = "provision"]
      BY <1>5, <2>2 DEF MintKey, Goes
    <3>2. dataKey'[r] = wrapped'.key /\ \A q \in Request \ {r} : dataKey'[q] = dataKey[q]
      BY <3>1
    <3>3. wrapped' # None /\ (wrapped # None => wrapped' = wrapped)
      <4>1. [key |-> minted + 1, master |-> Current[at[r]]] \in [key : Nat, master : Master]
        BY <1>0, <2>1
      <4>2. QED
        BY <3>1, <4>1, NoneAssumption DEF Inserted
    <3>4. \A s \in Server : table[s] # r
      BY <2>1 DEF TableInv, Objects, Handed
    <3>5. \A q \in Request : uses[q] # r
      BY <2>1 DEF TableInv, Objects, Handed
    <3>6. KeyListed' /\ SweepKnows'
      BY <2>1, <2>2, <3>3 DEF KeyListed, KeyInv, SweepKnows
    <3>7. Unerased'
      BY <2>1, <3>1, <3>2, <3>3, <3>4, <3>5 DEF KeyInv, Unerased, IsKey
    <3>8. QED
      BY <3>6, <3>7 DEF KeyInv
  <2>3. CASE ~listed
    <3>1. pc' = [pc EXCEPT ![r] = "done"] /\ UNCHANGED <<wrapped, dataKey>>
      BY <1>5, <2>3 DEF MintKey, Goes
    <3>2. QED
      BY <2>1, <3>1, CallKeeps DEF KeyInv, Unerased, SweepKnows
  <2>4. QED
    BY <2>2, <2>3
<1>6. CASE Provision(r)
  <2>1. UNCHANGED <<listed, wrapped, index, uses, dataKey, table, erase, erases, sweep, rewrap>>
        /\ pc[r] = "provision" /\ pc' = [pc EXCEPT ![r] = "open"] /\ sealedUnder' = sealedUnder \cup {dataKey[r]}
    BY <1>6 DEF Provision, Goes, tableVars, eraseVars, tendVars
  <2>2. QED
    BY <2>1, CallKeeps DEF KeyInv, Unerased, SweepKnows
<1>7. CASE Opened(r)
  <2>1. UNCHANGED <<listed, wrapped, sealedUnder, index, dataKey, erase, erases, sweep, rewrap>>
        /\ pc[r] = "open" /\ pc' = [pc EXCEPT ![r] = "using"] /\ table' = [table EXCEPT ![at[r]] = r]
        /\ uses' = [uses EXCEPT ![r] = r]
    BY <1>7 DEF Opened, Goes, keyVars, eraseVars, tendVars
  <2>2. erases = 0 => IsKey(dataKey[r])
    BY <2>1 DEF KeyInv, Unerased
  <2>3. QED
    BY <1>0, <2>1, <2>2, CallKeeps DEF KeyInv, Unerased, SweepKnows
<1>8. CASE Use(r)
  <2>1. UNCHANGED <<listed, wrapped, pc, uses, dataKey, table, erase, erases, sweep, rewrap>>
        /\ pc[r] = "using" /\ sealedUnder' = sealedUnder \cup {dataKey[uses[r]]} /\ index' = [index EXCEPT ![at[r]] = TRUE]
    BY <1>8 DEF Use, requestVars, tableVars, eraseVars, tendVars
  <2>2. uses[r] # None
    BY <2>1 DEF TableInv, Shape
  <2>3. erases = 0 => IsKey(dataKey[uses[r]]) /\ wrapped # None
    BY <2>2 DEF KeyInv, Unerased, IsKey
  <2>4. erases = 0 => \A k \in sealedUnder' : IsKey(k)
    BY <2>1, <2>3 DEF KeyInv, Unerased
  <2>5. QED
    BY <2>1, <2>3, <2>4, CallKeeps DEF KeyInv, Unerased
<1>9. CASE Finish(r)
  <2>1. UNCHANGED <<listed, wrapped, sealedUnder, index, dataKey, erase, erases, sweep, rewrap>>
        /\ pc[r] = "using" /\ pc' = [pc EXCEPT ![r] = "done"] /\ table' = [table EXCEPT ![at[r]] = uses[r]]
        /\ uses' = [uses EXCEPT ![r] = None]
    BY <1>9 DEF Finish, Goes, keyVars, eraseVars, tendVars
  <2>2. uses[r] # None
    BY <2>1 DEF TableInv, Shape
  <2>3. erases = 0 => IsKey(dataKey[uses[r]])
    BY <2>2 DEF KeyInv, Unerased
  <2>4. QED
    BY <1>0, <2>1, <2>3, CallKeeps DEF KeyInv, Unerased, SweepKnows
<1>10. QED
  BY <1>1, <1>2, <1>3, <1>4, <1>5, <1>6, <1>7, <1>8, <1>9 DEF Request1

(* A deletion has begun: nothing is promised any more but that no key is left without a row. *)
LEMMA EraseKey ==
  ASSUME VaultsTypeOK, KeyInv,
         CreateVault \/ Discard \/ Shred \/ EmptyStorage \/ RemoveIndex \/ DropRows \/ PublishGone
  PROVE  KeyInv'
<1> USE KeyTypes
<1>1. CASE CreateVault
  <2>1. listed' /\ UNCHANGED <<wrapped, sealedUnder, index, pc, uses, dataKey, table, erase, erases, sweep, rewrap>>
    BY <1>1 DEF CreateVault, keyVars, tableVars, requestVars, eraseVars, tendVars
  <2>2. QED
    BY <2>1 DEF KeyInv, KeyListed, Unerased, SweepKnows, IsKey
<1>2. CASE ~CreateVault
  <2>1. erases' # 0
    BY <1>2 DEF KeyInv, Unerased, Discard, Shred, EmptyStorage, RemoveIndex, DropRows, PublishGone
  <2>2. KeyListed'
    BY <1>2 DEF KeyInv, KeyListed, Discard, Shred, EmptyStorage, RemoveIndex, DropRows, PublishGone, keyVars
  <2>3. QED
    BY <2>1, <2>2 DEF KeyInv, Unerased, SweepKnows
<1>3. QED
  BY <1>1, <1>2

(* Vaults leave the table. *)
LEMMA LeaveKey ==
  ASSUME VaultsTypeOK, KeyInv, NEW s \in Server, HearGone(s) \/ Evict(s) \/ Restart(s)
  PROVE  KeyInv'
<1> USE KeyTypes
<1>1. /\ UNCHANGED <<listed, wrapped, sealedUnder, dataKey, erases, rewrap>>
      /\ table' = [table EXCEPT ![s] = None]
      /\ index' \in {index, [index EXCEPT ![s] = FALSE]} /\ erase' \in {"idle", erase}
      /\ sweep' \in {sweep, [sweep EXCEPT ![s] = Swept]}
  BY DEF HearGone, Evict, Restart, Discards, keyVars, requestVars, eraseVars, tendVars
<1>2. \A r \in Request : pc'[r] \in {pc[r], "done"} /\ uses'[r] \in {uses[r], None}
  BY DEF HearGone, Evict, Restart, requestVars
<1>3. KeyListed'
  BY <1>1 DEF KeyInv, KeyListed
<1>4. Unerased'
  BY <1>1, <1>2 DEF KeyInv, Unerased, IsKey
<1>5. \A t \in Server : index'[t] => index[t]
  BY <1>1
<1>6. \A t \in Server : sweep'[t] \in {sweep[t], Swept}
  BY <1>1
<1>7. SweepKnows'
  BY <1>1, <1>5, <1>6 DEF KeyInv, SweepKnows, Swept
<1>8. QED
  BY <1>3, <1>4, <1>7 DEF KeyInv

LEMMA SweepKey ==
  ASSUME VaultsTypeOK, KeyInv, NEW s \in Server, Sweeps(s)
  PROVE  KeyInv'
<1> USE KeyTypes
<1>1. UNCHANGED <<listed, wrapped, sealedUnder, pc, uses, dataKey, table, erase, erases, rewrap>>
  BY DEF Sweeps, SweepFind, SweepLive, SweepOpened, SweepRemove, keyVars, requestVars, tableVars, eraseVars
<1>2. KeyListed' /\ Unerased'
  BY <1>1 DEF KeyInv, KeyListed, Unerased, IsKey
<1>3. SweepKnows'
  <2>1. CASE SweepFind(s)
    BY <1>1, <2>1 DEF SweepFind, KeyInv, SweepKnows
  <2>2. CASE SweepLive(s)
    <3>1. sweep' = [sweep EXCEPT ![s] = [pc |-> "opened", live |-> listed /\ wrapped # None]] /\ UNCHANGED index
      BY <2>2 DEF SweepLive
    <3>2. erases = 0 => listed /\ wrapped # None
      BY <2>2 DEF SweepLive, KeyInv, SweepKnows, KeyListed
    <3>3. QED
      BY <1>1, <3>1, <3>2 DEF KeyInv, SweepKnows
  <2>3. CASE SweepOpened(s)
    <3>1. UNCHANGED index /\ (erases = 0 => sweep' = [sweep EXCEPT ![s] = Swept])
      BY <2>3 DEF SweepOpened, KeyInv, SweepKnows
    <3>2. QED
      BY <1>1, <3>1 DEF KeyInv, SweepKnows, Swept
  <2>4. CASE SweepRemove(s)
    BY <1>1, <2>4 DEF SweepRemove, KeyInv, SweepKnows
  <2>5. QED
    BY <2>1, <2>2, <2>3, <2>4 DEF Sweeps
<1>4. QED
  BY <1>2, <1>3 DEF KeyInv

LEMMA RewrapKey ==
  ASSUME VaultsTypeOK, KeyInv, RewrapRead \/ RewrapWrite
  PROVE  KeyInv'
<1> USE KeyTypes, OpenVaultsAssumption, NoneAssumption
<1>1. CASE RewrapRead
  <2>1. wrapped # None /\ rewrap' = wrapped
        /\ UNCHANGED <<listed, wrapped, sealedUnder, index, pc, uses, dataKey, table, erase, erases, sweep>>
    BY <1>1 DEF RewrapRead, keyVars, requestVars, tableVars, eraseVars
  <2>2. QED
    BY <2>1 DEF KeyInv, KeyListed, Unerased, SweepKnows, IsKey
<1>2. CASE RewrapWrite
  <2>1. rewrap # None /\ rewrap' = None
        /\ UNCHANGED <<listed, sealedUnder, index, pc, uses, dataKey, table, erase, erases, sweep>>
    BY <1>2 DEF RewrapWrite, requestVars, tableVars, eraseVars
  <2>2. CASE wrapped # None /\ wrapped.master = rewrap.master
    <3>1. wrapped' = [rewrap EXCEPT !.master = RewrapTo] /\ rewrap \in Wrapping
      BY <1>2, <2>1, <2>2 DEF RewrapWrite
    <3>2. wrapped' \in Wrapping /\ wrapped' # None /\ wrapped'.key = rewrap.key
      BY <3>1 DEF Wrapping
    <3>3. erases = 0 => rewrap.key = wrapped.key
      BY <2>1 DEF KeyInv, Unerased, IsKey
    <3>4. QED
      BY <2>1, <2>2, <3>2, <3>3 DEF KeyInv, KeyListed, Unerased, SweepKnows, IsKey
  <2>3. CASE ~(wrapped # None /\ wrapped.master = rewrap.master)
    <3>1. UNCHANGED wrapped
      BY <1>2, <2>3 DEF RewrapWrite
    <3>2. QED
      BY <2>1, <3>1 DEF KeyInv, KeyListed, Unerased, SweepKnows, IsKey
  <2>4. QED
    BY <2>2, <2>3
<1>3. QED
  BY <1>1, <1>2

LEMMA KeyStep ==
  ASSUME VaultsTypeOK, TableInv, KeyInv, [VaultsNext]_vaultsVars PROVE KeyInv'
<1>1. CASE UNCHANGED vaultsVars
  BY <1>1, KeyStutters DEF vaultsVars, Keys, keyVars, tableVars, requestVars, eraseVars, tendVars
<1>2. CASE VaultsNext
  BY <1>2, RequestKey, EraseKey, LeaveKey, SweepKey, RewrapKey DEF VaultsNext
<1>3. QED
  BY <1>1, <1>2

(* Everything in the storage of a vault is sealed under the one key in its row, however many servers open   *)
(* it for the first time at once, until somebody deletes it; and a vault whose row is gone has no key      *)
(* (VaultKeys.get and delete_vault in hosted_keys.py).                                                     *)
THEOREM OneKeyEach == IsFiniteSet(Request) => (VaultsSpec => []KeysInv)
<1> SUFFICES ASSUME IsFiniteSet(Request) PROVE VaultsSpec => []KeysInv
  OBVIOUS
<1> DEFINE Inv == VaultsTypeOK /\ TableInv /\ KeyInv
<1>1. VaultsInit => Inv
  BY TypesInit, TableInit, KeyInit
<1>2. Inv /\ [VaultsNext]_vaultsVars => Inv'
  BY StepHolds, KeyStep
<1>3. Inv => KeysInv
  <2> SUFFICES ASSUME VaultsTypeOK, KeyInv PROVE KeysInv
    OBVIOUS
  <2>1. KeyGone
    BY DEF KeyInv, KeyListed, KeyGone
  <2>2. OneKey
    BY DEF KeyInv, Unerased, IsKey, OneKey
  <2>3. QED
    BY <2>1, <2>2 DEF KeysInv
<1> HIDE DEF Inv
<1>4. QED
  BY <1>1, <1>2, <1>3, PTL DEF VaultsSpec

-----------------------------------------------------------------------------
LEMMA RewrapsInit == VaultsInit => Rewraps
BY DEF VaultsInit, Rewraps

(* A key made anew is wrapped under the master key that the command wraps with, never under the one it read. *)
LEMMA RewrapsStep ==
  ASSUME \A s \in Server : Current[s] = RewrapTo, VaultsTypeOK, Shape, Rewraps, [VaultsNext]_vaultsVars
  PROVE  Rewraps' /\ KeyStays
<1> USE KeyTypes, OpenVaultsAssumption
<1>1. CASE UNCHANGED <<wrapped, rewrap>>
  BY <1>1 DEF Rewraps, KeyStays
<1>2. CASE \E r \in Request : MintKey(r)
  <2>1. PICK r \in Request : MintKey(r)
    BY <1>2
  <2>2. UNCHANGED rewrap /\ at[r] \in Server
    BY <2>1 DEF MintKey, tendVars, Shape
  <2>3. CASE wrapped # None \/ ~listed
    BY <1>1, <2>1, <2>2, <2>3 DEF MintKey, Inserted
  <2>4. CASE wrapped = None /\ listed
    <3>1. wrapped' = [key |-> minted + 1, master |-> RewrapTo]
      BY <2>1, <2>2, <2>4 DEF MintKey, Inserted
    <3>2. QED
      BY <2>2, <2>4, <3>1 DEF Rewraps, KeyStays
  <2>5. QED
    BY <2>3, <2>4
<1>3. CASE Shred
  BY <1>3 DEF Shred, tendVars, Rewraps, KeyStays
<1>4. CASE RewrapRead
  <2>1. wrapped # None /\ wrapped.master # RewrapTo /\ rewrap' = wrapped /\ UNCHANGED wrapped
    BY <1>4 DEF RewrapRead, keyVars
  <2>2. QED
    BY <2>1 DEF Rewraps, KeyStays
<1>5. CASE RewrapWrite
  <2>1. rewrap' = None /\ rewrap # None
    BY <1>5 DEF RewrapWrite
  <2>2. CASE wrapped # None /\ wrapped.master = rewrap.master
    <3>1. wrapped' = [rewrap EXCEPT !.master = RewrapTo] /\ rewrap \in Wrapping
      BY <1>5, <2>1, <2>2 DEF RewrapWrite
    <3>2. wrapped'.key = rewrap.key
      BY <3>1 DEF Wrapping
    <3>3. QED
      BY <2>1, <2>2, <3>2 DEF Rewraps, KeyStays
  <2>3. CASE ~(wrapped # None /\ wrapped.master = rewrap.master)
    BY <1>5, <2>1, <2>3 DEF RewrapWrite, Rewraps, KeyStays
  <2>4. QED
    BY <2>2, <2>3
<1>6. CASE \E s \in Server : Evict(s) \/ HearGone(s) \/ Sweeps(s) \/ Restart(s)
  BY <1>1, <1>6 DEF Evict, HearGone, Sweeps, SweepFind, SweepLive, SweepOpened, SweepRemove, Restart, keyVars, tendVars
<1>7. CASE CreateVault \/ Discard \/ EmptyStorage \/ RemoveIndex \/ DropRows \/ PublishGone
  BY <1>1, <1>7 DEF CreateVault, Discard, EmptyStorage, RemoveIndex, DropRows, PublishGone, keyVars, tendVars
<1>8. CASE \E r \in Request : Request1(r) /\ ~MintKey(r)
  BY <1>1, <1>8 DEF Request1, Admit, LookUp, PassGate, FindRow, ReadKey, Provision, Opened, Use, Finish, keyVars, tendVars
<1>9. CASE UNCHANGED vaultsVars
  BY <1>1, <1>9 DEF vaultsVars, keyVars, tendVars
<1>10. QED
  BY <1>2, <1>3, <1>4, <1>5, <1>6, <1>7, <1>8, <1>9 DEF VaultsNext

(* The sweep never removes the index of a vault that nobody began to delete; and where the rewrap command   *)
(* wraps with the master key that the servers use, it neither brings a destroyed key back nor puts an older *)
(* key in the place of a newer one (sweep_indexes in vault.py, rewrap in hosted_keys.py).                  *)
THEOREM HousekeepingHarmless ==
  IsFiniteSet(Request) /\ (\A s \in Server : Current[s] = RewrapTo) => (VaultsSpec => HousekeepingSpares)
<1> SUFFICES ASSUME IsFiniteSet(Request), \A s \in Server : Current[s] = RewrapTo
             PROVE VaultsSpec => HousekeepingSpares
  OBVIOUS
<1> DEFINE Inv == VaultsTypeOK /\ TableInv /\ KeyInv /\ Rewraps
<1>1. VaultsInit => Inv
  BY TypesInit, TableInit, KeyInit, RewrapsInit
<1>2. Inv /\ [VaultsNext]_vaultsVars => Inv'
  BY StepHolds, KeyStep, RewrapsStep DEF TableInv
<1>3. Inv /\ [VaultsNext]_vaultsVars => [KeyStays /\ IndexStays]_vaultsVars
  <2> SUFFICES ASSUME Inv, [VaultsNext]_vaultsVars PROVE KeyStays /\ IndexStays
    OBVIOUS
  <2>1. KeyStays
    BY RewrapsStep DEF TableInv
  <2>2. IndexStays
    BY KeyTypes DEF IndexStays, SweepRemove, KeyInv, SweepKnows
  <2>3. QED
    BY <2>1, <2>2
<1> HIDE DEF Inv
<1>4. QED
  BY <1>1, <1>2, <1>3, PTL DEF VaultsSpec, HousekeepingSpares
=============================================================================
