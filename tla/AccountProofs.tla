--------------------------- MODULE AccountProofs ----------------------------
(* The theorems about who may reach a vault: its owner and members (Membership), the people who sign in    *)
(* (SignIn) and the programs they let in (Grants).                                                          *)
EXTENDS Membership, SignIn, Grants, FiniteSetTheorems, TLAPS

-----------------------------------------------------------------------------
(* The theorems about Membership: for any number of accounts, addresses, vaults and processes, whatever        *)
(* overlaps, every vault has an owner, and as long as nothing does, an address names one vault and nobody      *)
(* loses a vault by another's deletion.                                                                        *)

Ops == {"none", "create", "rename", "invite", "accept", "join", "remove", "handover", "delete", "account"}
Job == [op : Ops, vault : 0..MaxVaults, account : Account \cup {NoOne}, slug : Slug,
        todo : SUBSET (VaultId \cup Account)]

(* What an operation takes over from its check is what its write is about. *)
Shape(j) ==
  /\ j.op = "invite" => j.account \in Account
  /\ j.op \in {"accept", "join", "account"} => j.todo \subseteq VaultId
Shaped == \A p \in Process : Shape(job[p])

(* A vault has no row before it is made. *)
NoneAhead == \A v \in VaultId : v > vaultsMade => owner[v] = NoOne

(* No vault that a reaches has the address s, but for one. *)
MembersFree(a, s, other) == \A w \in VaultId : w # other /\ Reaches(w, a) => slug[w] # s

(* While operations come one after another, what one has checked still holds when it writes. *)
MembersAlone == \A p, q \in Process : p = q \/ job[p].op = "none" \/ job[q].op = "none"

JobTrue(j) ==
  /\ j.op \in {"create", "accept", "join", "handover"} => j.account \in accounts
  /\ j.op \in {"rename", "join", "handover", "delete"} => j.vault \in Vaults
  /\ j.op \in {"accept", "join", "account"} => j.todo \subseteq Vaults
  /\ j.op = "create" => MembersFree(j.account, j.slug, 0)
  /\ j.op = "rename" => \A a \in Account : Reaches(j.vault, a) => MembersFree(a, j.slug, j.vault)
  /\ j.op = "join" => MembersFree(j.account, slug[j.vault], j.vault)
  /\ j.op = "handover" =>
       MembersFree(j.account, slug[j.vault], j.vault) /\ j.vault \in shared /\ j.todo = {owner[j.vault]}
  /\ j.op = "delete" => owner[j.vault] = j.account
  /\ j.op = "account" =>
       \A v \in j.todo : owner[v] = j.account /\ \A a \in Account : Reaches(v, a) => a = j.account

MembersInTurn == ~overlapped => MembersAlone /\ \A p \in Process : JobTrue(job[p])

MembershipIInv == MembershipTypeOK /\ Shaped /\ NoneAhead /\ OwnersExist /\ AddressesUniqueInTurn /\ MembersInTurn

ReachesRow(o, sh, ms, v, a) == v \in VaultId /\ o[v] # NoOne /\ (o[v] = a \/ (v \in sh /\ <<v, a>> \in ms))
-----------------------------------------------------------------------------
LEMMA ReachesIs ==
  /\ \A v, a : Reaches(v, a) <=> ReachesRow(owner, shared, members, v, a)
  /\ \A v, a : (Reaches(v, a))' <=> ReachesRow(owner', shared', members', v, a)
BY DEF Reaches, Reached, Owned, Vaults, ReachesRow

LEMMA ClashIs == \A a, s, other : ~Clash(a, s, other) <=> MembersFree(a, s, other)
BY DEF Clash, MembersFree, Reaches, Reached, Owned, Vaults

LEMMA AddressesAre ==
  /\ AddressesUnique <=>
       \A a \in accounts : \A v, w \in VaultId : Reaches(v, a) /\ Reaches(w, a) /\ slug[v] = slug[w] => v = w
  /\ AddressesUnique' <=>
       \A a \in accounts' : \A v, w \in VaultId :
         (Reaches(v, a))' /\ (Reaches(w, a))' /\ slug'[v] = slug'[w] => v = w
BY DEF AddressesUnique, Reaches, Reached, Owned, Vaults

LEMMA RestingIsAJob == Resting \in Job /\ Resting.op = "none"
BY MembershipAssumption DEF Resting, Job, Ops

LEMMA Places ==
  ASSUME MembershipTypeOK
  PROVE  /\ FirstSlug \in Slug /\ 0 \in 0..MaxVaults /\ {} \in SUBSET (VaultId \cup Account)
         /\ accounts \subseteq Account /\ Vaults \subseteq VaultId /\ VaultId \subseteq 0..MaxVaults
         /\ \A v \in Vaults : owner[v] \in Account
BY MembershipAssumption DEF MembershipTypeOK, Vaults, VaultId

LEMMA JobsTyped == MembershipTypeOK => job \in [Process -> Job]
BY DEF MembershipTypeOK, Job, Ops

LEMMA VaultsExist == MembershipTypeOK => vaultsMade \in Nat /\ (vaultsMade < MaxVaults => vaultsMade + 1 \in VaultId)
BY MembershipAssumption DEF MembershipTypeOK, VaultId

(* What an account reaches is its own and where it is a member. *)
LEMMA NobodyReaches ==
  ASSUME OwnersExist, NEW a, a \notin accounts
  PROVE  \A v : ~Reaches(v, a)
<1> SUFFICES ASSUME NEW v, Reaches(v, a) PROVE FALSE
  OBVIOUS
<1>1. ReachesRow(owner, shared, members, v, a)
  BY ReachesIs
<1>2. v \in Vaults
  BY <1>1 DEF ReachesRow, Vaults
<1>3. owner[v] # a
  BY <1>2 DEF OwnersExist
<1>4. <<v, a>> \in members
  BY <1>1, <1>3 DEF ReachesRow
<1>5. <<v, a>>[2] \in accounts
  BY <1>4 DEF OwnersExist
<1>6. QED
  BY <1>5

LEMMA MembersInitHolds == MembershipInit => MembershipIInv
<1> SUFFICES ASSUME MembershipInit PROVE MembershipIInv
  OBVIOUS
<1>1. job \in [Process -> Job] /\ \A p \in Process : job[p].op = "none"
  BY RestingIsAJob DEF MembershipInit
<1>2. MembershipTypeOK
  <2>1. accounts = {} /\ vaultsMade = 0 /\ overlapped = FALSE
    BY DEF MembershipInit
  <2>2. owner \in [VaultId -> Account \cup {NoOne}] /\ slug \in [VaultId -> Slug]
    BY MembershipAssumption DEF MembershipInit
  <2>3. shared \subseteq VaultId /\ members \subseteq VaultId \X Account /\ invitations \subseteq VaultId \X Account
    BY DEF MembershipInit
  <2>4. QED
    <3>1. accounts \subseteq Account /\ vaultsMade \in 0..MaxVaults /\ overlapped \in BOOLEAN
      <4>1. 0 \in 0..MaxVaults
        BY MembershipAssumption
      <4>2. overlapped \in BOOLEAN
        BY <2>1, Zenon
      <4>3. QED
        BY <2>1, <4>1, <4>2
    <3>2. QED
      BY <1>1, <2>2, <2>3, <3>1 DEF MembershipTypeOK, Job, Ops
<1>3. Shaped /\ NoneAhead /\ OwnersExist
  BY <1>1 DEF MembershipInit, Shaped, Shape, NoneAhead, OwnersExist, Vaults
<1>4. AddressesUniqueInTurn
  BY AddressesAre DEF MembershipInit, AddressesUniqueInTurn
<1>5. MembersInTurn
  BY <1>1 DEF MembersInTurn, MembersAlone, JobTrue
<1>6. QED
  BY <1>2, <1>3, <1>4, <1>5 DEF MembershipIInv

-----------------------------------------------------------------------------
(* A check takes nothing and promises what it found. *)
LEMMA CheckedKeeps ==
  ASSUME MembershipIInv, NEW p \in Process, NEW to \in Job, Checked(p, to), Shape(to), JobTrue(to)
  PROVE  MembershipIInv'
<1>1. job' = [job EXCEPT ![p] = to] /\ UNCHANGED <<accounts, vaultsMade, owner, shared, slug, members, invitations>>
      /\ overlapped' = (overlapped \/ \E q \in Process \ {p} : job[q].op # "none")
  BY DEF Checked, Begins, rows
<1>2. job \in [Process -> Job]
  BY JobsTyped DEF MembershipIInv
<1>3. MembershipTypeOK'
  <2>1. job' \in [Process -> Job]
    BY <1>1, <1>2
  <2>2. overlapped' \in BOOLEAN
    BY <1>1 DEF MembershipIInv, MembershipTypeOK
  <2>3. QED
    BY <1>1, <2>1, <2>2 DEF MembershipIInv, MembershipTypeOK, Job, Ops
<1>4. Shaped'
  BY <1>1, <1>2 DEF MembershipIInv, Shaped
<1>5. NoneAhead' /\ OwnersExist'
  BY <1>1 DEF MembershipIInv, NoneAhead, OwnersExist, Vaults
<1>6. \A v, a : (Reaches(v, a))' <=> Reaches(v, a)
  BY <1>1, ReachesIs
<1>7. AddressesUniqueInTurn'
  BY <1>1, <1>6, AddressesAre DEF MembershipIInv, AddressesUniqueInTurn
<1>8. MembersInTurn'
  <2> SUFFICES ASSUME ~overlapped' PROVE MembersAlone' /\ \A q \in Process : (JobTrue(job[q]))'
    BY DEF MembersInTurn
  <2>1. \A q \in Process : q # p => job'[q] = job[q] /\ job[q].op = "none"
    BY <1>1, <1>2
  <2>2. job'[p] = to
    BY <1>1, <1>2
  <2>3. (JobTrue(job[p]))'
    <3>1. Vaults' = Vaults
      BY <1>1 DEF Vaults
    <3>2. \A a, s, other : (MembersFree(a, s, other))' <=> MembersFree(a, s, other)
      BY <1>1, <1>6 DEF MembersFree
    <3>3. QED
      BY <1>1, <1>6, <2>2, <3>1, <3>2 DEF JobTrue
  <2>4. QED
    BY <2>1, <2>2, <2>3 DEF MembersAlone, JobTrue
<1>9. QED
  BY <1>3, <1>4, <1>5, <1>7, <1>8 DEF MembershipIInv

(* Once an operation is answered, none is under way if none overlaps. *)
LEMMA AnsweredKeeps ==
  ASSUME MembershipIInv, NEW p \in Process, job[p].op # "none", Answered(p)
  PROVE  /\ job' \in [Process -> Job] /\ overlapped' = overlapped /\ overlapped' \in BOOLEAN
         /\ Shaped' /\ MembersInTurn'
<1>1. job' = [job EXCEPT ![p] = Resting] /\ overlapped' = overlapped /\ job \in [Process -> Job]
      /\ overlapped \in BOOLEAN
  BY JobsTyped DEF Answered, MembershipIInv, MembershipTypeOK
<1>2. job' \in [Process -> Job]
  BY <1>1, RestingIsAJob
<1>3. Shaped'
  BY <1>1, RestingIsAJob DEF MembershipIInv, Shaped, Shape
<1>4. MembersInTurn'
  <2> SUFFICES ASSUME ~overlapped PROVE MembersAlone' /\ \A q \in Process : (JobTrue(job[q]))'
    BY <1>1 DEF MembersInTurn
  <2>1. \A q \in Process : job'[q].op = "none"
    BY <1>1, RestingIsAJob DEF MembershipIInv, MembersInTurn, MembersAlone
  <2>2. QED
    BY <2>1 DEF MembersAlone, JobTrue
<1>5. QED
  BY <1>1, <1>2, <1>3, <1>4

(* Who reaches less than before has no new address. *)
LEMMA FewerAddresses ==
  ASSUME AddressesUniqueInTurn, overlapped' = overlapped, accounts' \subseteq accounts, slug' = slug,
         \A a \in accounts', v \in VaultId : ~overlapped /\ (Reaches(v, a))' => Reaches(v, a)
  PROVE  AddressesUniqueInTurn'
BY AddressesAre DEF AddressesUniqueInTurn

LEMMA CheckCreateKeeps ==
  ASSUME MembershipIInv, NEW p \in Process, CheckCreate(p)
  PROVE  MembershipIInv'
<1> USE ReachesIs
<1>0. MembershipTypeOK /\ OwnersExist
  BY DEF MembershipIInv
<1>1. PICK a \in accounts, s \in Slug :
       ~Clash(a, s, 0) /\ Checked(p, [Resting EXCEPT !.op = "create", !.account = a, !.slug = s])
  BY DEF CheckCreate
<1> DEFINE to == [Resting EXCEPT !.op = "create", !.account = a, !.slug = s]
<1>a. Checked(p, to)
  BY <1>1
<1>b. "create" \in Ops /\ 0 \in 0..MaxVaults /\ a \in Account \cup {NoOne}
      /\ s \in Slug /\ {} \in SUBSET (VaultId \cup Account)
  BY <1>0, <1>1, Places DEF Ops, Owned
<1>2. to \in Job
  BY <1>b, RestingIsAJob DEF Job
<1>3. Shape(to)
  BY <1>0, <1>1, Places DEF Shape, Resting
<1>4. JobTrue(to)
  BY <1>0, <1>1, ClashIs DEF JobTrue, Resting
<1> HIDE DEF to
<1>5. QED
  BY <1>a, <1>2, <1>3, <1>4, CheckedKeeps

LEMMA CheckRenameKeeps ==
  ASSUME MembershipIInv, NEW p \in Process, CheckRename(p)
  PROVE  MembershipIInv'
<1> USE ReachesIs
<1>0. MembershipTypeOK /\ OwnersExist
  BY DEF MembershipIInv
<1>1. PICK v \in Vaults, s \in Slug :
       /\ \A a \in Holders(v) : ~Clash(a, s, v)
       /\ Checked(p, [Resting EXCEPT !.op = "rename", !.vault = v, !.slug = s])
  BY DEF CheckRename
<1> DEFINE to == [Resting EXCEPT !.op = "rename", !.vault = v, !.slug = s]
<1>a. Checked(p, to)
  BY <1>1
<1>b. "rename" \in Ops /\ v \in 0..MaxVaults /\ NoOne \in Account \cup {NoOne}
      /\ s \in Slug /\ {} \in SUBSET (VaultId \cup Account)
  BY <1>0, <1>1, Places DEF Ops, Owned
<1>2. to \in Job
  BY <1>b, RestingIsAJob DEF Job
<1>3. Shape(to)
  BY <1>0, <1>1, Places DEF Shape, Resting
<1>4. JobTrue(to)
  <2>1. \A a \in Account : Reaches(v, a) => MembersFree(a, s, v)
    BY <1>1, ClashIs DEF Holders
  <2>2. QED
    BY <1>1, <2>1 DEF JobTrue, Resting
<1> HIDE DEF to
<1>5. QED
  BY <1>a, <1>2, <1>3, <1>4, CheckedKeeps

LEMMA CheckInviteKeeps ==
  ASSUME MembershipIInv, NEW p \in Process, CheckInvite(p)
  PROVE  MembershipIInv'
<1> USE ReachesIs
<1>0. MembershipTypeOK /\ OwnersExist
  BY DEF MembershipIInv
<1>1. PICK v \in Vaults, a \in Account :
       Checked(p, [Resting EXCEPT !.op = "invite", !.vault = v, !.account = a])
  BY DEF CheckInvite
<1> DEFINE to == [Resting EXCEPT !.op = "invite", !.vault = v, !.account = a]
<1>a. Checked(p, to)
  BY <1>1
<1>b. "invite" \in Ops /\ v \in 0..MaxVaults /\ a \in Account \cup {NoOne}
      /\ FirstSlug \in Slug /\ {} \in SUBSET (VaultId \cup Account)
  BY <1>0, <1>1, Places DEF Ops, Owned
<1>2. to \in Job
  BY <1>b, RestingIsAJob DEF Job
<1>3. Shape(to)
  BY <1>0, <1>1, Places DEF Shape, Resting
<1>4. JobTrue(to)
  BY <1>0, <1>1 DEF JobTrue, Resting
<1> HIDE DEF to
<1>5. QED
  BY <1>a, <1>2, <1>3, <1>4, CheckedKeeps

LEMMA ReadInvitationsKeeps ==
  ASSUME MembershipIInv, NEW p \in Process, ReadInvitations(p)
  PROVE  MembershipIInv'
<1> USE ReachesIs
<1>0. MembershipTypeOK /\ OwnersExist
  BY DEF MembershipIInv
<1>1. PICK a \in accounts :
       Checked(p, [Resting EXCEPT !.op = "accept", !.account = a,
                                  !.todo = {v \in Vaults : <<v, a>> \in invitations /\ owner[v] # a}])
  BY DEF ReadInvitations
<1> DEFINE to == [Resting EXCEPT !.op = "accept", !.account = a,
                                 !.todo = {v \in Vaults : <<v, a>> \in invitations /\ owner[v] # a}]
<1>a. Checked(p, to)
  BY <1>1
<1>b. "accept" \in Ops /\ 0 \in 0..MaxVaults /\ a \in Account \cup {NoOne}
      /\ FirstSlug \in Slug
      /\ {v \in Vaults : <<v, a>> \in invitations /\ owner[v] # a} \in SUBSET (VaultId \cup Account)
  BY <1>0, <1>1, Places DEF Ops, Owned
<1>2. to \in Job
  BY <1>b, RestingIsAJob DEF Job
<1>3. Shape(to)
  BY <1>0, <1>1, Places DEF Shape, Resting
<1>4. JobTrue(to)
  BY <1>0, <1>1 DEF JobTrue, Resting
<1> HIDE DEF to
<1>5. QED
  BY <1>a, <1>2, <1>3, <1>4, CheckedKeeps

LEMMA CheckRemoveKeeps ==
  ASSUME MembershipIInv, NEW p \in Process, CheckRemove(p)
  PROVE  MembershipIInv'
<1> USE ReachesIs
<1>0. MembershipTypeOK /\ OwnersExist
  BY DEF MembershipIInv
<1>1. PICK v \in Vaults, a \in Account :
       Checked(p, [Resting EXCEPT !.op = "remove", !.vault = v, !.account = a])
  BY DEF CheckRemove
<1> DEFINE to == [Resting EXCEPT !.op = "remove", !.vault = v, !.account = a]
<1>a. Checked(p, to)
  BY <1>1
<1>b. "remove" \in Ops /\ v \in 0..MaxVaults /\ a \in Account \cup {NoOne}
      /\ FirstSlug \in Slug /\ {} \in SUBSET (VaultId \cup Account)
  BY <1>0, <1>1, Places DEF Ops, Owned
<1>2. to \in Job
  BY <1>b, RestingIsAJob DEF Job
<1>3. Shape(to)
  BY <1>0, <1>1, Places DEF Shape, Resting
<1>4. JobTrue(to)
  BY <1>0, <1>1 DEF JobTrue, Resting
<1> HIDE DEF to
<1>5. QED
  BY <1>a, <1>2, <1>3, <1>4, CheckedKeeps

LEMMA CheckHandOverKeeps ==
  ASSUME MembershipIInv, NEW p \in Process, CheckHandOver(p)
  PROVE  MembershipIInv'
<1> USE ReachesIs
<1>0. MembershipTypeOK /\ OwnersExist
  BY DEF MembershipIInv
<1>1. PICK v \in Vaults \cap shared, a \in accounts :
       /\ ~Clash(a, slug[v], v)
       /\ Checked(p, [Resting EXCEPT !.op = "handover", !.vault = v, !.account = a, !.todo = {owner[v]}])
  BY DEF CheckHandOver
<1> DEFINE to == [Resting EXCEPT !.op = "handover", !.vault = v, !.account = a, !.todo = {owner[v]}]
<1>a. Checked(p, to)
  BY <1>1
<1>b. "handover" \in Ops /\ v \in 0..MaxVaults /\ a \in Account \cup {NoOne}
      /\ FirstSlug \in Slug /\ {owner[v]} \in SUBSET (VaultId \cup Account)
  BY <1>0, <1>1, Places DEF Ops, Owned
<1>2. to \in Job
  BY <1>b, RestingIsAJob DEF Job
<1>3. Shape(to)
  BY <1>0, <1>1, Places DEF Shape, Resting
<1>4. JobTrue(to)
  BY <1>0, <1>1, ClashIs DEF JobTrue, Resting
<1> HIDE DEF to
<1>5. QED
  BY <1>a, <1>2, <1>3, <1>4, CheckedKeeps

LEMMA CheckDeleteVaultKeeps ==
  ASSUME MembershipIInv, NEW p \in Process, CheckDeleteVault(p)
  PROVE  MembershipIInv'
<1> USE ReachesIs
<1>0. MembershipTypeOK /\ OwnersExist
  BY DEF MembershipIInv
<1>1. PICK v \in Vaults : Checked(p, [Resting EXCEPT !.op = "delete", !.vault = v, !.account = owner[v]])
  BY DEF CheckDeleteVault
<1> DEFINE to == [Resting EXCEPT !.op = "delete", !.vault = v, !.account = owner[v]]
<1>a. Checked(p, to)
  BY <1>1
<1>b. "delete" \in Ops /\ v \in 0..MaxVaults /\ owner[v] \in Account \cup {NoOne}
      /\ FirstSlug \in Slug /\ {} \in SUBSET (VaultId \cup Account)
  BY <1>0, <1>1, Places DEF Ops, Owned
<1>2. to \in Job
  BY <1>b, RestingIsAJob DEF Job
<1>3. Shape(to)
  BY <1>0, <1>1, Places DEF Shape, Resting
<1>4. JobTrue(to)
  BY <1>0, <1>1 DEF JobTrue, Resting
<1> HIDE DEF to
<1>5. QED
  BY <1>a, <1>2, <1>3, <1>4, CheckedKeeps

LEMMA CheckDeleteAccountKeeps ==
  ASSUME MembershipIInv, NEW p \in Process, CheckDeleteAccount(p)
  PROVE  MembershipIInv'
<1> USE ReachesIs
<1>0. MembershipTypeOK /\ OwnersExist
  BY DEF MembershipIInv
<1>1. PICK a \in accounts :
       /\ \A v \in Owned(a) \cap shared : Holders(v) = {a}
       /\ Checked(p, [Resting EXCEPT !.op = "account", !.account = a, !.todo = Owned(a)])
  BY DEF CheckDeleteAccount
<1> DEFINE to == [Resting EXCEPT !.op = "account", !.account = a, !.todo = Owned(a)]
<1>a. Checked(p, to)
  BY <1>1
<1>b. "account" \in Ops /\ 0 \in 0..MaxVaults /\ a \in Account \cup {NoOne}
      /\ FirstSlug \in Slug /\ Owned(a) \in SUBSET (VaultId \cup Account)
  BY <1>0, <1>1, Places DEF Ops, Owned
<1>2. to \in Job
  BY <1>b, RestingIsAJob DEF Job
<1>3. Shape(to)
  BY <1>0, <1>1, Places DEF Shape, Owned, Resting
<1>4. JobTrue(to)
  <2>1. \A v \in Owned(a), b \in Account : Reaches(v, b) => b = a
    <3> SUFFICES ASSUME NEW v \in Owned(a), NEW b \in Account, Reaches(v, b) PROVE b = a
      OBVIOUS
    <3>1. CASE v \in shared
      BY <1>1, <3>1 DEF Holders
    <3>2. CASE v \notin shared
      BY <3>2 DEF ReachesRow, Owned
    <3>3. QED
      BY <3>1, <3>2
  <2>2. Owned(a) \subseteq Vaults /\ \A v \in Owned(a) : owner[v] = a
    BY DEF Owned
  <2>3. QED
    BY <1>1, <2>1, <2>2 DEF JobTrue, Resting
<1> HIDE DEF to
<1>5. QED
  BY <1>a, <1>2, <1>3, <1>4, CheckedKeeps

-----------------------------------------------------------------------------
(* What writes no row of a vault or of a member. *)
LEMMA SameVaults ==
  ASSUME MembershipIInv, UNCHANGED <<accounts, vaultsMade, owner, shared, slug, members>>,
         invitations' \subseteq VaultId \X Account, job' \in [Process -> Job], overlapped' = overlapped,
         Shaped', MembersInTurn'
  PROVE  MembershipIInv'
<1>1. MembershipTypeOK'
  BY DEF MembershipIInv, MembershipTypeOK, Job, Ops
<1>2. NoneAhead' /\ OwnersExist'
  BY DEF MembershipIInv, NoneAhead, OwnersExist, Vaults
<1>3. AddressesUniqueInTurn'
  BY ReachesIs, FewerAddresses DEF MembershipIInv
<1>4. QED
  BY <1>1, <1>2, <1>3 DEF MembershipIInv

(* A new vault is its owner's only. *)
LEMMA NewVault ==
  ASSUME MembershipTypeOK, NoneAhead, OwnersExist, vaultsMade < MaxVaults, NEW a \in Account, NEW s \in Slug,
         owner' = [owner EXCEPT ![vaultsMade + 1] = a], slug' = [slug EXCEPT ![vaultsMade + 1] = s],
         vaultsMade' = vaultsMade + 1, members' = members, shared' \in {shared, shared \cup {vaultsMade + 1}}
  PROVE  /\ vaultsMade + 1 \in VaultId /\ vaultsMade' \in 0..MaxVaults
         /\ owner' \in [VaultId -> Account \cup {NoOne}] /\ slug' \in [VaultId -> Slug] /\ shared' \subseteq VaultId
         /\ NoneAhead' /\ Vaults' = Vaults \cup {vaultsMade + 1}
         /\ \A b, v : (Reaches(v, b))' <=> Reaches(v, b) \/ (v = vaultsMade + 1 /\ b = a)
         /\ \A b : ~Reaches(vaultsMade + 1, b)
         /\ \A v \in VaultId : v # vaultsMade + 1 => slug'[v] = slug[v] /\ owner'[v] = owner[v]
         /\ slug'[vaultsMade + 1] = s
<1> DEFINE new == vaultsMade + 1
<1>1. new \in VaultId /\ vaultsMade \in Nat /\ vaultsMade' \in 0..MaxVaults
  BY VaultsExist, MembershipAssumption DEF MembershipTypeOK, VaultId
<1>2. owner' \in [VaultId -> Account \cup {NoOne}] /\ slug' \in [VaultId -> Slug] /\ shared' \subseteq VaultId
  BY <1>1 DEF MembershipTypeOK
<1>3. /\ \A v \in VaultId : v # new => slug'[v] = slug[v] /\ owner'[v] = owner[v]
      /\ slug'[new] = s /\ owner'[new] = a /\ a # NoOne
  BY <1>1, MembershipAssumption DEF MembershipTypeOK
<1>4. owner[new] = NoOne
  BY <1>1 DEF NoneAhead
<1>5. NoneAhead'
  BY <1>1, <1>3 DEF NoneAhead, VaultId
<1>6. Vaults' = Vaults \cup {new}
  BY <1>1, <1>3 DEF Vaults
<1>7. \A b : <<new, b>> \notin members
  <2> SUFFICES ASSUME NEW b, <<new, b>> \in members PROVE FALSE
    OBVIOUS
  <2>1. <<new, b>>[1] \in Vaults
    BY DEF OwnersExist
  <2>2. QED
    BY <1>4, <2>1 DEF Vaults
<1>8. \A b : ~Reaches(new, b)
  BY <1>4, ReachesIs DEF ReachesRow
<1>9. \A b, v : (Reaches(v, b))' <=> Reaches(v, b) \/ (v = new /\ b = a)
  <2> SUFFICES ASSUME NEW b, NEW v PROVE (Reaches(v, b))' <=> Reaches(v, b) \/ (v = new /\ b = a)
    OBVIOUS
  <2>1. CASE v = new
    BY <1>1, <1>3, <1>7, <1>8, <2>1, ReachesIs DEF ReachesRow
  <2>2. CASE v # new
    <3>1. ReachesRow(owner', shared', members', v, b) <=> ReachesRow(owner, shared, members, v, b)
      BY <1>3, <2>2 DEF ReachesRow
    <3>2. QED
      BY <2>2, <3>1, ReachesIs
  <2>3. QED
    BY <2>1, <2>2
<1>10. QED
  BY <1>1, <1>2, <1>3, <1>5, <1>6, <1>8, <1>9

(* What is dropped nobody reaches, and all else stays. *)
LEMMA DropTakes ==
  ASSUME MembershipTypeOK, NoneAhead, OwnersExist, NEW vs, Drop(vs), UNCHANGED <<accounts, vaultsMade, shared, slug>>
  PROVE  /\ owner' \in [VaultId -> Account \cup {NoOne}]
         /\ members' \subseteq VaultId \X Account /\ invitations' \subseteq VaultId \X Account
         /\ NoneAhead' /\ OwnersExist' /\ Vaults' = Vaults \ vs
         /\ \A v \in VaultId \ vs : owner'[v] = owner[v]
         /\ \A a, v : (Reaches(v, a))' <=> Reaches(v, a) /\ v \notin vs
<1>1. /\ owner' = [v \in VaultId |-> IF v \in vs THEN NoOne ELSE owner[v]]
      /\ members' = {m \in members : m[1] \notin vs} /\ invitations' = {i \in invitations : i[1] \notin vs}
  BY DEF Drop
<1>2. owner' \in [VaultId -> Account \cup {NoOne}]
  BY <1>1 DEF MembershipTypeOK
<1>3. members' \subseteq VaultId \X Account /\ invitations' \subseteq VaultId \X Account
  BY <1>1 DEF MembershipTypeOK
<1>4. NoneAhead'
  BY <1>1 DEF NoneAhead
<1>5. Vaults' = Vaults \ vs /\ \A v \in VaultId \ vs : owner'[v] = owner[v]
  BY <1>1 DEF Vaults
<1>6. OwnersExist'
  BY <1>1, <1>5 DEF OwnersExist, Vaults
<1>7. \A a, v : (Reaches(v, a))' <=> Reaches(v, a) /\ v \notin vs
  <2> SUFFICES ASSUME NEW a, NEW v
               PROVE  ReachesRow(owner', shared', members', v, a) <=>
                        ReachesRow(owner, shared, members, v, a) /\ v \notin vs
    BY ReachesIs
  <2>1. <<v, a>> \in members' <=> <<v, a>> \in members /\ v \notin vs
    BY <1>1
  <2>2. QED
    BY <1>1, <2>1 DEF ReachesRow
<1>8. QED
  BY <1>2, <1>3, <1>4, <1>5, <1>6, <1>7

-----------------------------------------------------------------------------
LEMMA SignUpKeeps ==
  ASSUME MembershipIInv, NEW p \in Process, NEW a \in Account, SignUp(p, a)
  PROVE  MembershipIInv'
<1>0. MembershipTypeOK /\ Shaped /\ NoneAhead /\ OwnersExist /\ AddressesUniqueInTurn /\ MembersInTurn
  BY DEF MembershipIInv
<1> DEFINE new == vaultsMade + 1
<1>1. /\ a \notin accounts /\ vaultsMade < MaxVaults /\ accounts' = accounts \cup {a} /\ vaultsMade' = vaultsMade + 1
      /\ owner' = [owner EXCEPT ![vaultsMade + 1] = a] /\ slug' = [slug EXCEPT ![vaultsMade + 1] = FirstSlug]
      /\ shared' = shared /\ members' = members /\ invitations' = invitations
      /\ job' = job /\ overlapped' = overlapped
  BY DEF SignUp
<1>2. /\ new \in VaultId /\ vaultsMade' \in 0..MaxVaults
      /\ owner' \in [VaultId -> Account \cup {NoOne}] /\ slug' \in [VaultId -> Slug] /\ shared' \subseteq VaultId
      /\ NoneAhead' /\ Vaults' = Vaults \cup {new}
      /\ \A b, v : (Reaches(v, b))' <=> Reaches(v, b) \/ (v = new /\ b = a)
      /\ \A b : ~Reaches(new, b)
      /\ \A v \in VaultId : v # new => slug'[v] = slug[v] /\ owner'[v] = owner[v]
      /\ slug'[new] = FirstSlug
  BY <1>0, <1>1, NewVault, MembershipAssumption
<1>3. MembershipTypeOK'
  BY <1>0, <1>1, <1>2 DEF MembershipTypeOK
<1>4. owner'[new] = a
  BY <1>0, <1>1, <1>2 DEF MembershipTypeOK
<1>5. OwnersExist'
  BY <1>0, <1>1, <1>2, <1>4 DEF OwnersExist, Vaults
<1>6. \A v : ~Reaches(v, a)
  BY <1>0, <1>1, NobodyReaches
<1>7. AddressesUniqueInTurn'
  <2> SUFFICES ASSUME ~overlapped, NEW b \in accounts', NEW v \in VaultId, NEW w \in VaultId,
                      (Reaches(v, b))', (Reaches(w, b))', slug'[v] = slug'[w]
               PROVE  v = w
    BY <1>1, AddressesAre DEF AddressesUniqueInTurn
  <2>1. CASE b = a
    BY <1>2, <1>6, <2>1
  <2>2. CASE b # a
    <3>1. b \in accounts /\ Reaches(v, b) /\ Reaches(w, b) /\ v # new /\ w # new
      BY <1>1, <1>2, <2>2
    <3>2. slug[v] = slug[w]
      BY <1>2, <3>1
    <3>3. QED
      BY <1>0, <3>1, <3>2, AddressesAre DEF AddressesUniqueInTurn
  <2>3. QED
    BY <2>1, <2>2
<1>8. Shaped'
  BY <1>0, <1>1 DEF Shaped
<1>9. MembersInTurn'
  <2> SUFFICES ASSUME ~overlapped, NEW q \in Process PROVE MembersAlone' /\ (JobTrue(job[q]))'
    BY <1>0, <1>1 DEF MembersInTurn, MembersAlone
  <2>1. MembersAlone' /\ JobTrue(job[q])
    BY <1>0, <1>1 DEF MembersInTurn, MembersAlone
  <2> DEFINE j == job[q]
  <2>2. \A v \in Vaults : v # new
    BY <1>0, <1>2 DEF Vaults, NoneAhead, MembershipTypeOK, VaultId
  <2>3. \A v \in Vaults : slug'[v] = slug[v] /\ owner'[v] = owner[v] /\ \A b : (Reaches(v, b))' <=> Reaches(v, b)
    BY <1>2, <2>2 DEF Vaults
  <2>4. \A b, s, other : b # a /\ MembersFree(b, s, other) => (MembersFree(b, s, other))'
    BY <1>2 DEF MembersFree
  <2>5. j.op \in {"create", "accept", "join", "handover"} => j.account \in accounts' /\ j.account # a
    BY <1>1, <2>1 DEF JobTrue
  <2>6. j.op = "rename" => \A b \in Account : (Reaches(j.vault, b))' => (MembersFree(b, j.slug, j.vault))'
    <3> SUFFICES ASSUME j.op = "rename", NEW b \in Account, (Reaches(j.vault, b))'
                 PROVE  (MembersFree(b, j.slug, j.vault))'
      BY <1>1
    <3>1. Reaches(j.vault, b)
      BY <1>1, <2>1, <2>3 DEF JobTrue
    <3>2. b # a /\ MembersFree(b, j.slug, j.vault)
      BY <1>6, <2>1, <3>1 DEF JobTrue
    <3>3. QED
      BY <1>1, <1>2, <3>2 DEF MembersFree
  <2>7. j.op = "join" => (MembersFree(j.account, slug[j.vault], j.vault))'
    <3> SUFFICES ASSUME j.op = "join" PROVE (MembersFree(j.account, slug[j.vault], j.vault))'
      OBVIOUS
    <3>1. MembersFree(j.account, slug[j.vault], j.vault) /\ slug'[j.vault] = slug[j.vault] /\ j.account # a
      BY <2>1, <2>3, <2>5 DEF JobTrue
    <3>2. QED
      BY <1>1, <1>2, <3>1 DEF MembersFree
  <2>8. j.op = "handover" =>
          (MembersFree(j.account, slug[j.vault], j.vault))' /\ j.vault \in shared' /\ j.todo = {owner'[j.vault]}
    <3> SUFFICES ASSUME j.op = "handover"
                 PROVE  /\ (MembersFree(j.account, slug[j.vault], j.vault))'
                        /\ j.vault \in shared' /\ j.todo = {owner'[j.vault]}
      OBVIOUS
    <3>1. /\ MembersFree(j.account, slug[j.vault], j.vault) /\ slug'[j.vault] = slug[j.vault] /\ j.account # a
          /\ j.vault \in shared /\ j.todo = {owner'[j.vault]}
      BY <2>1, <2>3, <2>5 DEF JobTrue
    <3>2. QED
      BY <1>1, <1>2, <3>1 DEF MembersFree
  <2>9. j.op = "account" =>
          \A v \in j.todo : owner'[v] = j.account /\ \A b \in Account : (Reaches(v, b))' => b = j.account
    BY <2>1, <2>3 DEF JobTrue
  <2>10. j.op = "create" => (MembersFree(j.account, j.slug, 0))'
    BY <1>1, <1>2, <2>1, <2>5 DEF JobTrue, MembersFree
  <2>11. j.op = "delete" => owner'[j.vault] = j.account
    BY <2>1, <2>3 DEF JobTrue
  <2>12. Vaults \subseteq Vaults' /\ job'[q] = j
    BY <1>1, <1>2
  <2>13. /\ j.op \in {"rename", "join", "handover", "delete"} => j.vault \in Vaults'
         /\ j.op \in {"accept", "join", "account"} => j.todo \subseteq Vaults'
    BY <2>1, <2>12 DEF JobTrue
  <2>14. QED
    BY <1>1, <2>1, <2>5, <2>6, <2>7, <2>8, <2>9, <2>10, <2>11, <2>12, <2>13 DEF JobTrue
<1>10. QED
  BY <1>2, <1>3, <1>5, <1>7, <1>8, <1>9 DEF MembershipIInv

LEMMA CreateKeeps ==
  ASSUME MembershipIInv, NEW p \in Process, Create(p)
  PROVE  MembershipIInv'
<1>0. MembershipTypeOK /\ Shaped /\ NoneAhead /\ OwnersExist /\ AddressesUniqueInTurn /\ MembersInTurn
  BY DEF MembershipIInv
<1>a. job' \in [Process -> Job] /\ overlapped' = overlapped /\ overlapped' \in BOOLEAN /\ Shaped' /\ MembersInTurn'
  BY AnsweredKeeps DEF Create
<1> DEFINE a == job[p].account
<1> DEFINE s == job[p].slug
<1> DEFINE new == vaultsMade + 1
<1>1. CASE ~(vaultsMade < MaxVaults /\ a \in accounts /\ Unique(a, s, 0))
  <2>1. UNCHANGED <<accounts, vaultsMade, owner, shared, slug, members, invitations>>
    BY <1>1 DEF Create
  <2>2. invitations' \subseteq VaultId \X Account
    BY <1>0, <2>1 DEF MembershipTypeOK
  <2>3. QED
    BY <1>a, <2>1, <2>2, SameVaults
<1>2. CASE vaultsMade < MaxVaults /\ a \in accounts /\ Unique(a, s, 0)
  <2>1. /\ vaultsMade' = vaultsMade + 1 /\ owner' = [owner EXCEPT ![vaultsMade + 1] = a]
        /\ slug' = [slug EXCEPT ![vaultsMade + 1] = s] /\ shared' \in {shared, shared \cup {vaultsMade + 1}}
        /\ accounts' = accounts /\ members' = members /\ invitations' = invitations
    BY <1>2 DEF Create
  <2>2. a \in Account /\ s \in Slug
    BY <1>0, <1>2, JobsTyped DEF Job, MembershipTypeOK
  <2>3. /\ new \in VaultId /\ vaultsMade' \in 0..MaxVaults
        /\ owner' \in [VaultId -> Account \cup {NoOne}] /\ slug' \in [VaultId -> Slug] /\ shared' \subseteq VaultId
        /\ NoneAhead' /\ Vaults' = Vaults \cup {new}
        /\ \A b, v : (Reaches(v, b))' <=> Reaches(v, b) \/ (v = new /\ b = a)
        /\ \A b : ~Reaches(new, b)
        /\ \A v \in VaultId : v # new => slug'[v] = slug[v] /\ owner'[v] = owner[v]
        /\ slug'[new] = s
    BY <1>0, <1>2, <2>1, <2>2, NewVault
  <2>4. MembershipTypeOK'
    BY <1>0, <1>a, <2>1, <2>3 DEF MembershipTypeOK, Job, Ops
  <2>5. owner'[new] = a
    BY <1>0, <2>1, <2>3 DEF MembershipTypeOK
  <2>6. OwnersExist'
    BY <1>0, <1>2, <2>1, <2>3, <2>5 DEF OwnersExist, Vaults
  <2>7. AddressesUniqueInTurn'
    <3> SUFFICES ASSUME ~overlapped, NEW b \in accounts, NEW v \in VaultId, NEW w \in VaultId,
                        (Reaches(v, b))', (Reaches(w, b))', slug'[v] = slug'[w]
                 PROVE  v = w
      BY <1>a, <2>1, AddressesAre DEF AddressesUniqueInTurn
    <3>1. MembersFree(a, s, 0)
      BY <1>0 DEF Create, MembersInTurn, JobTrue
    <3>2. \A x \in VaultId : Reaches(x, a) => slug[x] # s /\ x # new
      BY <2>3, <3>1 DEF MembersFree, VaultId
    <3>3. CASE v = new \/ w = new
      BY <2>3, <3>2, <3>3
    <3>4. CASE v # new /\ w # new
      <4>1. Reaches(v, b) /\ Reaches(w, b) /\ slug[v] = slug[w]
        BY <2>3, <3>4
      <4>2. QED
        BY <1>0, <4>1, AddressesAre DEF AddressesUniqueInTurn
    <3>5. QED
      BY <3>3, <3>4
  <2>8. QED
    BY <1>a, <2>3, <2>4, <2>6, <2>7 DEF MembershipIInv
<1>3. QED
  BY <1>1, <1>2

LEMMA RenameKeeps ==
  ASSUME MembershipIInv, NEW p \in Process, Rename(p)
  PROVE  MembershipIInv'
<1>0. MembershipTypeOK /\ Shaped /\ NoneAhead /\ OwnersExist /\ AddressesUniqueInTurn /\ MembersInTurn
  BY DEF MembershipIInv
<1>a. job' \in [Process -> Job] /\ overlapped' = overlapped /\ overlapped' \in BOOLEAN /\ Shaped' /\ MembersInTurn'
  BY AnsweredKeeps DEF Rename
<1> DEFINE v == job[p].vault
<1> DEFINE s == job[p].slug
<1>1. UNCHANGED <<accounts, vaultsMade, owner, shared, members, invitations>>
  BY DEF Rename
<1>2. CASE ~(v \in Vaults /\ Unique(owner[v], s, v))
  <2>1. slug' = slug
    BY <1>2 DEF Rename
  <2>2. invitations' \subseteq VaultId \X Account
    BY <1>0, <1>1 DEF MembershipTypeOK
  <2>3. QED
    BY <1>a, <1>1, <2>1, <2>2, SameVaults
<1>3. CASE v \in Vaults /\ Unique(owner[v], s, v)
  <2>1. slug' = [slug EXCEPT ![v] = s] /\ s \in Slug /\ v \in VaultId
    BY <1>0, <1>3, JobsTyped DEF Rename, Job, Vaults
  <2>2. MembershipTypeOK'
    <3>1. slug' \in [VaultId -> Slug]
      BY <1>0, <2>1 DEF MembershipTypeOK
    <3>2. QED
      BY <1>0, <1>a, <1>1, <3>1 DEF MembershipTypeOK, Job, Ops
  <2>3. NoneAhead' /\ OwnersExist'
    BY <1>0, <1>1 DEF NoneAhead, OwnersExist, Vaults
  <2>4. \A b, w : (Reaches(w, b))' <=> Reaches(w, b)
    BY <1>1, ReachesIs
  <2>5. slug'[v] = s /\ \A w \in VaultId : w # v => slug'[w] = slug[w]
    BY <1>0, <2>1 DEF MembershipTypeOK
  <2>6. AddressesUniqueInTurn'
    <3> SUFFICES ASSUME ~overlapped, NEW b \in accounts, NEW x \in VaultId, NEW w \in VaultId,
                        Reaches(x, b), Reaches(w, b), slug'[x] = slug'[w]
                 PROVE  x = w
      BY <1>a, <1>1, <2>4, AddressesAre DEF AddressesUniqueInTurn
    <3>1. Reaches(v, b) => MembersFree(b, s, v)
      BY <1>0 DEF Rename, MembersInTurn, JobTrue, MembershipTypeOK
    <3>2. CASE x = v \/ w = v
      BY <2>5, <3>1, <3>2 DEF MembersFree
    <3>3. CASE x # v /\ w # v
      BY <1>0, <2>5, <3>3, AddressesAre DEF AddressesUniqueInTurn
    <3>4. QED
      BY <3>2, <3>3
  <2>7. QED
    BY <1>a, <2>2, <2>3, <2>6 DEF MembershipIInv
<1>4. QED
  BY <1>2, <1>3

LEMMA InviteKeeps ==
  ASSUME MembershipIInv, NEW p \in Process, Invite(p)
  PROVE  MembershipIInv'
<1>0. MembershipTypeOK /\ Shaped /\ NoneAhead /\ OwnersExist /\ AddressesUniqueInTurn /\ MembersInTurn
  BY DEF MembershipIInv
<1>a. job' \in [Process -> Job] /\ overlapped' = overlapped /\ overlapped' \in BOOLEAN /\ Shaped' /\ MembersInTurn'
  BY AnsweredKeeps DEF Invite
<1>1. UNCHANGED <<accounts, vaultsMade, owner, shared, slug, members>>
  BY DEF Invite
<1>2. job[p].account \in Account
  BY <1>0 DEF Invite, Shaped, Shape
<1>3. invitations' \subseteq VaultId \X Account
  BY <1>0, <1>2 DEF Invite, MembershipTypeOK, Vaults
<1>4. QED
  BY <1>a, <1>1, <1>3, SameVaults

LEMMA WithdrawKeeps ==
  ASSUME MembershipIInv, NEW p \in Process, Withdraw(p)
  PROVE  MembershipIInv'
<1>0. MembershipTypeOK /\ Shaped /\ MembersInTurn
  BY DEF MembershipIInv
<1>1. UNCHANGED <<accounts, vaultsMade, owner, shared, slug, members, job, overlapped>>
  BY DEF Withdraw
<1>2. invitations' \subseteq VaultId \X Account
  BY <1>0 DEF Withdraw, MembershipTypeOK
<1>3. job' \in [Process -> Job] /\ Shaped'
  BY <1>0, <1>1, JobsTyped DEF Shaped
<1>4. MembersInTurn'
  BY <1>0, <1>1, ReachesIs DEF MembersInTurn, MembersAlone, JobTrue, MembersFree, Vaults
<1>5. QED
  BY <1>1, <1>2, <1>3, <1>4, SameVaults

LEMMA CheckAcceptKeeps ==
  ASSUME MembershipIInv, NEW p \in Process, CheckAccept(p)
  PROVE  MembershipIInv'
<1>0. MembershipTypeOK /\ Shaped /\ MembersInTurn
  BY DEF MembershipIInv
<1>1. /\ UNCHANGED <<accounts, vaultsMade, owner, shared, slug, members, invitations, overlapped>>
      /\ job[p].op = "accept"
  BY DEF CheckAccept, rows
<1>2. job \in [Process -> Job] /\ job[p] \in Job /\ job[p].todo \subseteq VaultId /\ VaultId \subseteq 0..MaxVaults
  BY <1>0, <1>1, JobsTyped, Places DEF Shaped, Shape
<1>3. PICK to : /\ job' = [job EXCEPT ![p] = to]
                /\ \/ to = Resting
                   \/ \E v \in job[p].todo :
                        \/ to = [job[p] EXCEPT !.todo = @ \ {v}]
                        \/ to = [job[p] EXCEPT !.op = "join", !.vault = v] /\ MembersFree(job[p].account, slug[v], v)
  <2>1. CASE job' = [job EXCEPT ![p] = Resting]
    BY <2>1
  <2>2. ASSUME NEW v \in job[p].todo,
             job' = IF Clash(job[p].account, slug[v], v) THEN [job EXCEPT ![p].todo = @ \ {v}]
                                             ELSE [job EXCEPT ![p].op = "join", ![p].vault = v]
        PROVE  \E to : /\ job' = [job EXCEPT ![p] = to]
                       /\ \/ to = [job[p] EXCEPT !.todo = @ \ {v}]
                          \/ to = [job[p] EXCEPT !.op = "join", !.vault = v] /\ MembersFree(job[p].account, slug[v], v)
    <3>1. CASE Clash(job[p].account, slug[v], v)
      <4>1. job' = [job EXCEPT ![p] = [job[p] EXCEPT !.todo = @ \ {v}]]
        BY <1>2, <2>2, <3>1
      <4>2. QED
        BY <4>1
    <3>2. CASE ~Clash(job[p].account, slug[v], v)
      <4>1. job' = [job EXCEPT ![p] = [job[p] EXCEPT !.op = "join", !.vault = v]]
        BY <1>2, <2>2, <3>2
      <4>2. QED
        BY <3>2, <4>1, ClashIs
    <3>3. QED
      BY <3>1, <3>2
  <2>3. QED
    BY <2>1, <2>2 DEF CheckAccept
<1>4. to \in Job /\ Shape(to)
  <2>1. CASE to = Resting
    BY <2>1, RestingIsAJob DEF Shape
  <2>2. ASSUME NEW v \in job[p].todo, to = [job[p] EXCEPT !.todo = @ \ {v}] PROVE to \in Job /\ Shape(to)
    BY <1>1, <1>2, <2>2 DEF Job, Shape
  <2>3. ASSUME NEW v \in job[p].todo, to = [job[p] EXCEPT !.op = "join", !.vault = v] PROVE to \in Job /\ Shape(to)
    BY <1>2, <2>3 DEF Job, Shape, Ops
  <2>4. QED
    BY <1>3, <2>1, <2>2, <2>3
<1>5. job' \in [Process -> Job] /\ Shaped'
  BY <1>0, <1>2, <1>3, <1>4 DEF Shaped
<1>6. MembersInTurn'
  <2> SUFFICES ASSUME ~overlapped PROVE MembersAlone' /\ \A q \in Process : (JobTrue(job[q]))'
    BY <1>1 DEF MembersInTurn
  <2>1. \A q \in Process : q # p => job'[q] = job[q] /\ job[q].op = "none"
    BY <1>0, <1>1, <1>2, <1>3 DEF MembersInTurn, MembersAlone
  <2>2. job'[p] = to
    BY <1>2, <1>3
  <2>3. JobTrue(to)
    <3>1. job[p].account \in accounts /\ job[p].todo \subseteq Vaults
      BY <1>0, <1>1 DEF MembersInTurn, JobTrue
    <3>2. CASE to = Resting
      BY <3>2, RestingIsAJob DEF JobTrue
    <3>3. ASSUME NEW v \in job[p].todo, to = [job[p] EXCEPT !.todo = @ \ {v}] PROVE JobTrue(to)
      BY <1>1, <1>2, <3>1, <3>3 DEF JobTrue, Job
    <3>4. ASSUME NEW v \in job[p].todo, to = [job[p] EXCEPT !.op = "join", !.vault = v],
                 MembersFree(job[p].account, slug[v], v)
          PROVE  JobTrue(to)
      <4>1. to.op = "join" /\ to.vault = v /\ to.account = job[p].account /\ to.todo = job[p].todo
        BY <1>2, <3>4 DEF Job
      <4>2. QED
        BY <3>1, <3>4, <4>1 DEF JobTrue
    <3>5. QED
      BY <1>3, <3>2, <3>3, <3>4
  <2>4. (JobTrue(job[p]))'
    <3>1. Vaults' = Vaults
      BY <1>1 DEF Vaults
    <3>2. \A a, s, other : (MembersFree(a, s, other))' <=> MembersFree(a, s, other)
      BY <1>1, ReachesIs DEF MembersFree
    <3>3. QED
      BY <1>1, <2>2, <2>3, <3>1, <3>2, ReachesIs DEF JobTrue
  <2>5. QED
    BY <2>1, <2>4 DEF MembersAlone, JobTrue
<1>7. invitations' \subseteq VaultId \X Account
  BY <1>0, <1>1 DEF MembershipTypeOK
<1>8. QED
  BY <1>1, <1>5, <1>6, <1>7, SameVaults

LEMMA JoinKeeps ==
  ASSUME MembershipIInv, NEW p \in Process, Join(p)
  PROVE  MembershipIInv'
<1>0. MembershipTypeOK /\ Shaped /\ NoneAhead /\ OwnersExist /\ AddressesUniqueInTurn /\ MembersInTurn
  BY DEF MembershipIInv
<1>a. job' \in [Process -> Job] /\ overlapped' = overlapped /\ overlapped' \in BOOLEAN /\ Shaped' /\ MembersInTurn'
  BY AnsweredKeeps DEF Join
<1> DEFINE a == job[p].account
<1> DEFINE j == job[p].vault
<1> DEFINE rest == job[p].todo \ {j}
<1> DEFINE joined == Joins(a, j, rest)
<1>1. UNCHANGED <<accounts, vaultsMade, owner, shared, slug>> /\ job[p].op = "join"
  BY DEF Join
<1>2. CASE ~(joined \subseteq Vaults /\ a \in accounts)
  <2>1. members' = members /\ invitations' = invitations
    BY <1>2 DEF Join
  <2>2. invitations' \subseteq VaultId \X Account
    BY <1>0, <2>1 DEF MembershipTypeOK
  <2>3. QED
    BY <1>a, <1>1, <2>1, <2>2, SameVaults
<1>3. CASE joined \subseteq Vaults /\ a \in accounts
  <2>1. /\ members' = members \cup (joined \X {a}) /\ invitations' = invitations \ (joined \X {a})
        /\ joined \subseteq VaultId /\ a \in Account
    BY <1>0, <1>3, Places DEF Join
  <2>2. /\ \A w \in joined : \/ w = j
                            \/ /\ w \in rest /\ MembersFree(a, slug[w], w) /\ slug[w] # slug[j]
                               /\ \A x \in rest : x < w => slug[x] # slug[w]
        /\ rest \subseteq VaultId
    <3>1. \A w \in joined : \/ w = j
                           \/ /\ w \in rest /\ ~Clash(a, slug[w], w) /\ slug[w] # slug[j]
                              /\ \A x \in rest : x < w => slug[x] # slug[w]
      BY DEF Joins
    <3>2. QED
      BY <1>0, <1>1, <3>1, ClashIs DEF Shaped, Shape
  <2> HIDE DEF joined, rest
  <2>3. MembershipTypeOK'
    <3>1. members' \subseteq VaultId \X Account /\ invitations' \subseteq VaultId \X Account
      BY <1>0, <2>1 DEF MembershipTypeOK
    <3>2. QED
      BY <1>0, <1>a, <1>1, <3>1 DEF MembershipTypeOK, Job, Ops
  <2>4. NoneAhead' /\ Vaults' = Vaults
    BY <1>0, <1>1 DEF NoneAhead, Vaults
  <2>5. OwnersExist'
    BY <1>0, <1>1, <1>3, <2>1, <2>4 DEF OwnersExist
  <2>6. \A v, b : (Reaches(v, b))' => Reaches(v, b) \/ (b = a /\ v \in joined)
    BY <1>1, <2>1, ReachesIs DEF ReachesRow
  <2>7. AddressesUniqueInTurn'
    <3> SUFFICES ASSUME ~overlapped, NEW b \in accounts, NEW v \in VaultId, NEW w \in VaultId,
                        (Reaches(v, b))', (Reaches(w, b))', slug[v] = slug[w]
                 PROVE  v = w
      BY <1>a, <1>1, AddressesAre DEF AddressesUniqueInTurn
    <3>1. MembersFree(a, slug[j], j)
      BY <1>0, <1>1 DEF MembersInTurn, JobTrue
    <3>2. \A x \in joined : MembersFree(a, slug[x], x)
      BY <2>2, <3>1
    <3>3. CASE Reaches(v, b) /\ Reaches(w, b)
      BY <1>0, <3>3, AddressesAre DEF AddressesUniqueInTurn
    <3>4. CASE b = a /\ ((Reaches(v, b) /\ w \in joined) \/ (Reaches(w, b) /\ v \in joined))
      BY <3>2, <3>4 DEF MembersFree
    <3>5. CASE v \in joined /\ w \in joined
      <4>1. v \in Nat /\ w \in Nat
        BY DEF VaultId
      <4>2. v = w \/ v < w \/ w < v
        BY <4>1
      <4>3. CASE v = j \/ w = j
        BY <2>2, <3>5, <4>3
      <4>4. CASE v # j /\ w # j
        <5>1. v \in rest /\ w \in rest
          BY <2>2, <3>5, <4>4
        <5>2. (v < w => slug[v] # slug[w]) /\ (w < v => slug[w] # slug[v])
          BY <2>2, <3>5, <4>4, <5>1
        <5>3. QED
          BY <4>2, <5>2
      <4>5. QED
        BY <4>3, <4>4
    <3>6. Reaches(v, b) \/ (b = a /\ v \in joined)
      BY <2>6, Zenon
    <3>7. Reaches(w, b) \/ (b = a /\ w \in joined)
      BY <2>6, Zenon
    <3>8. QED
      BY <3>3, <3>4, <3>5, <3>6, <3>7
  <2>8. QED
    BY <1>a, <2>3, <2>4, <2>5, <2>7 DEF MembershipIInv
<1>4. QED
  BY <1>2, <1>3

LEMMA RemoveKeeps ==
  ASSUME MembershipIInv, NEW p \in Process, Remove(p)
  PROVE  MembershipIInv'
<1>0. MembershipTypeOK /\ Shaped /\ NoneAhead /\ OwnersExist /\ AddressesUniqueInTurn /\ MembersInTurn
  BY DEF MembershipIInv
<1>a. job' \in [Process -> Job] /\ overlapped' = overlapped /\ overlapped' \in BOOLEAN /\ Shaped' /\ MembersInTurn'
  BY AnsweredKeeps DEF Remove
<1>1. UNCHANGED <<accounts, vaultsMade, owner, shared, slug, invitations>> /\ members' \subseteq members
  BY DEF Remove
<1>2. MembershipTypeOK'
  <2>1. members' \subseteq VaultId \X Account
    BY <1>0, <1>1 DEF MembershipTypeOK
  <2>2. QED
    BY <1>0, <1>a, <1>1, <2>1 DEF MembershipTypeOK, Job, Ops
<1>3. NoneAhead' /\ OwnersExist'
  BY <1>0, <1>1 DEF NoneAhead, OwnersExist, Vaults
<1>4. \A v, b : (Reaches(v, b))' => Reaches(v, b)
  BY <1>1, ReachesIs DEF ReachesRow
<1>5. AddressesUniqueInTurn'
  BY <1>0, <1>a, <1>1, <1>4, FewerAddresses
<1>6. QED
  BY <1>a, <1>2, <1>3, <1>5 DEF MembershipIInv

LEMMA HandOverKeeps ==
  ASSUME MembershipIInv, NEW p \in Process, HandOver(p)
  PROVE  MembershipIInv'
<1>0. MembershipTypeOK /\ Shaped /\ NoneAhead /\ OwnersExist /\ AddressesUniqueInTurn /\ MembersInTurn
  BY DEF MembershipIInv
<1>a. job' \in [Process -> Job] /\ overlapped' = overlapped /\ overlapped' \in BOOLEAN /\ Shaped' /\ MembersInTurn'
  BY AnsweredKeeps DEF HandOver
<1> DEFINE v == job[p].vault
<1> DEFINE a == job[p].account
<1> DEFINE old == job[p].todo
<1>1. UNCHANGED <<accounts, vaultsMade, shared, slug, invitations>> /\ job[p].op = "handover"
  BY DEF HandOver
<1>2. CASE ~(v \in Vaults /\ old \subseteq accounts /\ a \in accounts /\ Unique(a, slug[v], v))
  <2>1. members' = members /\ owner' = owner
    BY <1>2 DEF HandOver
  <2>2. invitations' \subseteq VaultId \X Account
    BY <1>0, <1>1 DEF MembershipTypeOK
  <2>3. QED
    BY <1>a, <1>1, <2>1, <2>2, SameVaults
<1>3. CASE v \in Vaults /\ old \subseteq accounts /\ a \in accounts /\ Unique(a, slug[v], v)
  <2>1. members' = (members \ {<<v, a>>}) \cup {<<v, o>> : o \in old} /\ owner' = [owner EXCEPT ![v] = a]
    BY <1>3 DEF HandOver
  <2>2. v \in VaultId /\ owner[v] # NoOne /\ a \in Account /\ a # NoOne /\ old \subseteq Account
    BY <1>0, <1>3, Places, MembershipAssumption DEF Vaults
  <2>3. owner'[v] = a /\ \A w \in VaultId : w # v => owner'[w] = owner[w]
    BY <1>0, <2>1, <2>2 DEF MembershipTypeOK
  <2>4. MembershipTypeOK'
    <3>1. members' \subseteq VaultId \X Account
      BY <1>0, <2>1, <2>2 DEF MembershipTypeOK
    <3>2. owner' \in [VaultId -> Account \cup {NoOne}]
      BY <1>0, <2>1, <2>2 DEF MembershipTypeOK
    <3>3. QED
      BY <1>0, <1>a, <1>1, <3>1, <3>2 DEF MembershipTypeOK, Job, Ops
  <2>5. NoneAhead'
    BY <1>0, <1>1, <2>2, <2>3 DEF NoneAhead
  <2>6. Vaults' = Vaults
    BY <2>2, <2>3 DEF Vaults
  <2>7. OwnersExist'
    <3>1. \A w \in Vaults : owner'[w] \in accounts
      BY <1>0, <1>3, <2>3 DEF OwnersExist, Vaults
    <3>2. \A m \in members' : m[1] \in Vaults /\ m[2] \in accounts
      BY <1>0, <1>3, <2>1 DEF OwnersExist
    <3>3. QED
      BY <1>1, <2>6, <3>1, <3>2 DEF OwnersExist
  <2>8. AddressesUniqueInTurn'
    <3> SUFFICES ASSUME ~overlapped, NEW b \in accounts, NEW x \in VaultId, NEW w \in VaultId,
                        (Reaches(x, b))', (Reaches(w, b))', slug[x] = slug[w]
                 PROVE  x = w
      BY <1>a, <1>1, AddressesAre DEF AddressesUniqueInTurn
    <3>1. MembersFree(a, slug[v], v) /\ v \in shared /\ old = {owner[v]}
      BY <1>0, <1>1 DEF MembersInTurn, JobTrue
    <3>2. \A c, y : (Reaches(y, c))' => Reaches(y, c) \/ (y = v /\ c = a)
      <4> SUFFICES ASSUME NEW c, NEW y, ReachesRow(owner', shared', members', y, c), ~(y = v /\ c = a)
                   PROVE  ReachesRow(owner, shared, members, y, c)
        BY ReachesIs
      <4>1. CASE y = v
        BY <1>1, <2>1, <2>2, <2>3, <3>1, <4>1 DEF ReachesRow
      <4>2. CASE y # v
        BY <1>1, <2>1, <2>3, <4>2 DEF ReachesRow
      <4>3. QED
        BY <4>1, <4>2
    <3>3. CASE Reaches(x, b) /\ Reaches(w, b)
      BY <1>0, <3>3, AddressesAre DEF AddressesUniqueInTurn
    <3>4. CASE b = a /\ (x = v \/ w = v)
      BY <3>1, <3>2, <3>4 DEF MembersFree
    <3>5. QED
      BY <3>2, <3>3, <3>4
  <2>9. QED
    BY <1>a, <2>4, <2>5, <2>7, <2>8 DEF MembershipIInv
<1>4. QED
  BY <1>2, <1>3

LEMMA DeleteVaultKeeps ==
  ASSUME MembershipIInv, NEW p \in Process, DeleteVault(p)
  PROVE  MembershipIInv'
<1>0. MembershipTypeOK /\ Shaped /\ NoneAhead /\ OwnersExist /\ AddressesUniqueInTurn /\ MembersInTurn
  BY DEF MembershipIInv
<1>a. job' \in [Process -> Job] /\ overlapped' = overlapped /\ overlapped' \in BOOLEAN /\ Shaped' /\ MembersInTurn'
  BY AnsweredKeeps DEF DeleteVault
<1>1. UNCHANGED <<accounts, vaultsMade, shared, slug>> /\ Drop({job[p].vault})
  BY DEF DeleteVault
<1>2. /\ owner' \in [VaultId -> Account \cup {NoOne}]
      /\ members' \subseteq VaultId \X Account /\ invitations' \subseteq VaultId \X Account
      /\ NoneAhead' /\ OwnersExist' /\ \A b, v : (Reaches(v, b))' => Reaches(v, b)
  BY <1>0, <1>1, DropTakes
<1>3. MembershipTypeOK'
  BY <1>0, <1>a, <1>1, <1>2 DEF MembershipTypeOK, Job, Ops
<1>4. AddressesUniqueInTurn'
  BY <1>0, <1>a, <1>1, <1>2, FewerAddresses
<1>5. QED
  BY <1>a, <1>2, <1>3, <1>4 DEF MembershipIInv

LEMMA DeleteOneVaultKeeps ==
  ASSUME MembershipIInv, NEW p \in Process, DeleteOneVault(p)
  PROVE  MembershipIInv'
<1>0. MembershipTypeOK /\ Shaped /\ NoneAhead /\ OwnersExist /\ AddressesUniqueInTurn /\ MembersInTurn
  BY DEF MembershipIInv
<1>1. PICK v \in job[p].todo : Drop({v}) /\ job' = [job EXCEPT ![p].todo = @ \ {v}]
  BY DEF DeleteOneVault
<1>2. UNCHANGED <<accounts, vaultsMade, shared, slug, overlapped>> /\ job[p].op = "account"
  BY DEF DeleteOneVault
<1>3. /\ owner' \in [VaultId -> Account \cup {NoOne}]
      /\ members' \subseteq VaultId \X Account /\ invitations' \subseteq VaultId \X Account
      /\ NoneAhead' /\ OwnersExist' /\ Vaults' = Vaults \ {v}
      /\ \A w \in VaultId \ {v} : owner'[w] = owner[w]
      /\ \A b, w : (Reaches(w, b))' <=> Reaches(w, b) /\ w \notin {v}
  BY <1>0, <1>1, <1>2, DropTakes
<1>4. job \in [Process -> Job] /\ job[p] \in Job
  BY <1>0, JobsTyped
<1> DEFINE to == [job[p] EXCEPT !.todo = @ \ {v}]
<1>5. job' = [job EXCEPT ![p] = to]
  BY <1>1, <1>4
<1>6. /\ to.op = "account" /\ to.account = job[p].account /\ to.todo = job[p].todo \ {v} /\ to \in Job
      /\ to.todo \subseteq VaultId
  BY <1>0, <1>2, <1>4 DEF Job, Shaped, Shape
<1> HIDE DEF to
<1>7. job' \in [Process -> Job] /\ Shaped'
  BY <1>0, <1>4, <1>5, <1>6 DEF Shaped, Shape
<1>8. MembershipTypeOK'
  BY <1>0, <1>2, <1>3, <1>7 DEF MembershipTypeOK, Job, Ops
<1>9. AddressesUniqueInTurn'
  BY <1>0, <1>2, <1>3, FewerAddresses
<1>10. MembersInTurn'
  <2> SUFFICES ASSUME ~overlapped PROVE MembersAlone' /\ \A q \in Process : (JobTrue(job[q]))'
    BY <1>2 DEF MembersInTurn
  <2>1. \A q \in Process : q # p => job'[q] = job[q] /\ job[q].op = "none"
    BY <1>0, <1>2, <1>4, <1>5 DEF MembersInTurn, MembersAlone
  <2>2. job'[p] = to
    BY <1>4, <1>5
  <2>3. /\ job[p].todo \subseteq Vaults
        /\ \A w \in job[p].todo : owner[w] = job[p].account /\ \A b \in Account : Reaches(w, b) => b = job[p].account
    BY <1>0, <1>2 DEF MembersInTurn, JobTrue
  <2>4. /\ to.todo \subseteq Vaults'
        /\ \A w \in to.todo : owner'[w] = to.account /\ \A b \in Account : (Reaches(w, b))' => b = to.account
    BY <1>3, <1>6, <2>3 DEF Vaults
  <2>5. (JobTrue(job[p]))'
    BY <1>6, <2>2, <2>4 DEF JobTrue
  <2>6. QED
    BY <2>1, <2>5 DEF MembersAlone, JobTrue
<1>11. QED
  BY <1>3, <1>7, <1>8, <1>9, <1>10 DEF MembershipIInv

LEMMA DeleteAccountKeeps ==
  ASSUME MembershipIInv, NEW p \in Process, DeleteAccount(p)
  PROVE  MembershipIInv'
<1>0. MembershipTypeOK /\ Shaped /\ NoneAhead /\ OwnersExist /\ AddressesUniqueInTurn /\ MembersInTurn
  BY DEF MembershipIInv
<1>a. job' \in [Process -> Job] /\ overlapped' = overlapped /\ overlapped' \in BOOLEAN /\ Shaped' /\ MembersInTurn'
  BY AnsweredKeeps DEF DeleteAccount
<1> DEFINE a == job[p].account
<1>1. UNCHANGED <<vaultsMade, owner, shared, slug, invitations>>
  BY DEF DeleteAccount
<1>2. CASE Owned(a) # {}
  <2>1. accounts' = accounts /\ members' = members
    BY <1>2 DEF DeleteAccount
  <2>2. invitations' \subseteq VaultId \X Account
    BY <1>0, <1>1 DEF MembershipTypeOK
  <2>3. QED
    BY <1>a, <1>1, <2>1, <2>2, SameVaults
<1>3. CASE Owned(a) = {}
  <2>1. accounts' = accounts \ {a} /\ members' = {m \in members : m[2] # a}
    BY <1>3 DEF DeleteAccount
  <2>2. MembershipTypeOK'
    <3>1. members' \subseteq VaultId \X Account /\ accounts' \subseteq Account
      BY <1>0, <2>1 DEF MembershipTypeOK
    <3>2. QED
      BY <1>0, <1>a, <1>1, <3>1 DEF MembershipTypeOK, Job, Ops
  <2>3. NoneAhead'
    BY <1>0, <1>1 DEF NoneAhead
  <2>4. OwnersExist'
    <3>1. Vaults' = Vaults
      BY <1>1 DEF Vaults
    <3>2. \A v \in Vaults : owner[v] # a
      BY <1>3 DEF Owned
    <3>3. \A m \in members' : m[1] \in Vaults /\ m[2] \in accounts'
      BY <1>0, <2>1 DEF OwnersExist
    <3>4. QED
      BY <1>0, <1>1, <2>1, <3>1, <3>2, <3>3 DEF OwnersExist
  <2>5. \A v, b : (Reaches(v, b))' => Reaches(v, b)
    BY <1>1, <2>1, ReachesIs DEF ReachesRow
  <2>6. AddressesUniqueInTurn'
    BY <1>0, <1>a, <1>1, <2>1, <2>5, FewerAddresses
  <2>7. QED
    BY <1>a, <2>2, <2>3, <2>4, <2>6 DEF MembershipIInv
<1>4. QED
  BY <1>2, <1>3

-----------------------------------------------------------------------------
LEMMA MembersIInvStays == MembershipIInv /\ [MembershipNext]_membershipVars => MembershipIInv'
<1> SUFFICES ASSUME MembershipIInv, [MembershipNext]_membershipVars PROVE MembershipIInv'
  OBVIOUS
<1>1. CASE UNCHANGED membershipVars
  <2>1. UNCHANGED <<accounts, vaultsMade, owner, shared, slug, members, invitations, job, overlapped>>
    BY <1>1 DEF membershipVars
  <2>2. job' \in [Process -> Job] /\ Shaped' /\ invitations' \subseteq VaultId \X Account
    BY <2>1, JobsTyped DEF MembershipIInv, Shaped, MembershipTypeOK
  <2>3. MembersInTurn'
    BY <2>1, ReachesIs DEF MembershipIInv, MembersInTurn, MembersAlone, JobTrue, MembersFree, Vaults
  <2>4. QED
    BY <2>1, <2>2, <2>3, SameVaults
<1>2. ASSUME NEW p \in Process, NEW a \in Account, SignUp(p, a) PROVE MembershipIInv'
  BY <1>2, SignUpKeeps
<1>3. QED
  BY <1>1, <1>2, CreateKeeps, RenameKeeps, InviteKeeps, WithdrawKeeps, CheckAcceptKeeps, JoinKeeps, RemoveKeeps,
     HandOverKeeps, DeleteVaultKeeps, DeleteOneVaultKeeps, DeleteAccountKeeps, CheckCreateKeeps, CheckRenameKeeps,
     CheckInviteKeeps, ReadInvitationsKeeps, CheckRemoveKeeps, CheckHandOverKeeps, CheckDeleteVaultKeeps,
     CheckDeleteAccountKeeps DEF MembershipNext

LEMMA MembersInvFollows == MembershipIInv => MembershipInv
BY DEF MembershipIInv, MembershipInv

(* Whatever runs at once, every vault has an owner with an account; and an address names one vault of an       *)
(* account, as long as no two operations overlap.                                                              *)
THEOREM VaultsHaveOwners == MembershipSpec => []MembershipInv
<1>1. MembershipSpec => []MembershipIInv
  BY MembersInitHolds, MembersIInvStays, PTL DEF MembershipSpec
<1>2. QED
  BY <1>1, MembersInvFollows, PTL

VaultsStay ==
  ~overlapped => \A p \in Process, v \in Vaults :
    owner'[v] = NoOne /\ job'[p] # job[p] =>
      owner[v] = job[p].account /\ (job[p].op = "account" => Holders(v) = {owner[v]})

(* Who ends a vault has looked whose it is and who else is in it.                                              *)
LEMMA EndsItsOwn ==
  ASSUME MembershipIInv, ~overlapped, NEW p \in Process, NEW q \in Process, NEW v \in Vaults, owner'[v] = NoOne,
         job'[q] # job[q], DeleteVault(p) \/ DeleteOneVault(p)
  PROVE  owner[v] = job[q].account /\ (job[q].op = "account" => Holders(v) = {owner[v]})
<1>1. MembershipTypeOK /\ job \in [Process -> Job] /\ v \in VaultId /\ owner[v] # NoOne
  BY JobsTyped DEF MembershipIInv, Vaults
<1>2. JobTrue(job[p])
  BY DEF MembershipIInv, MembersInTurn
<1>3. q = p
  BY <1>1 DEF DeleteVault, DeleteOneVault, Answered
<1>4. CASE DeleteVault(p)
  <2>1. v = job[p].vault
    BY <1>1, <1>4 DEF DeleteVault, Drop
  <2>2. QED
    BY <1>2, <1>3, <1>4, <2>1 DEF DeleteVault, JobTrue
<1>5. CASE DeleteOneVault(p)
  <2>1. v \in job[p].todo
    BY <1>1, <1>5 DEF DeleteOneVault, Drop
  <2>2. owner[v] = job[p].account /\ \A a \in Account : Reaches(v, a) => a = job[p].account
    BY <1>2, <1>5, <2>1 DEF DeleteOneVault, JobTrue
  <2>3. owner[v] \in Account /\ Reaches(v, owner[v])
    BY <1>1, Places, ReachesIs DEF ReachesRow
  <2>4. QED
    BY <1>3, <2>2, <2>3 DEF Holders
<1>6. QED
  BY <1>4, <1>5

LEMMA OthersEndNone ==
  ASSUME MembershipIInv, NEW p \in Process, NEW v \in Vaults, MembershipNext, owner'[v] = NoOne
  PROVE  \E q \in Process : DeleteVault(q) \/ DeleteOneVault(q)
<1>1. MembershipTypeOK /\ v \in VaultId /\ owner[v] # NoOne /\ NoOne \notin Account /\ job \in [Process -> Job]
  BY JobsTyped, MembershipAssumption DEF MembershipIInv, Vaults
<1>2. owner' # owner
  BY <1>1
<1>3. PICK q \in Process : \/ \E a \in Account : SignUp(q, a)
                         \/ Create(q) \/ HandOver(q) \/ DeleteVault(q) \/ DeleteOneVault(q)
  BY <1>2 DEF MembershipNext, CheckCreate, CheckRename, Rename, CheckInvite, Invite, Withdraw, ReadInvitations,
     CheckAccept, Join, CheckRemove, Remove, CheckHandOver, CheckDeleteVault, CheckDeleteAccount, DeleteAccount, Checked,
     rows
<1>4. ASSUME NEW a \in Account, SignUp(q, a) PROVE FALSE
  BY <1>1, <1>4 DEF SignUp, MembershipTypeOK
<1>5. CASE Create(q)
  <2>1. \A a \in accounts : a \in Account
    BY <1>1, Places
  <2>2. QED
    BY <1>1, <1>2, <1>5, <2>1 DEF Create, MembershipTypeOK
<1>6. CASE HandOver(q)
  <2>1. \A a \in accounts : a \in Account
    BY <1>1, Places
  <2>2. QED
    BY <1>1, <1>2, <1>6, <2>1 DEF HandOver, MembershipTypeOK
<1>7. QED
  BY <1>3, <1>4, <1>5, <1>6

(* As long as no two operations overlap, a vault ends by its owner's hand only, and with the account of its    *)
(* owner only when nobody else was in it.                                                                      *)
THEOREM VaultsEndByTheirOwners == MembershipSpec => NobodyLosesAVault
<1>1. MembershipSpec => []MembershipIInv
  BY MembersInitHolds, MembersIInvStays, PTL DEF MembershipSpec
<1>2. MembershipIInv /\ [MembershipNext]_membershipVars => [VaultsStay]_membershipVars
  <2> SUFFICES ASSUME MembershipIInv, MembershipNext, ~overlapped, NEW q \in Process, NEW v \in Vaults,
                      owner'[v] = NoOne, job'[q] # job[q]
               PROVE  owner[v] = job[q].account /\ (job[q].op = "account" => Holders(v) = {owner[v]})
    BY DEF VaultsStay
  <2>1. PICK p \in Process : DeleteVault(p) \/ DeleteOneVault(p)
    BY OthersEndNone
  <2>2. QED
    BY <2>1, EndsItsOwn
<1>3. QED
  BY <1>1, <1>2, PTL DEF MembershipSpec, NobodyLosesAVault, VaultsStay

-----------------------------------------------------------------------------
(* The theorem about SignIn: for any number of persons, browsers, ways in and ceremonies, whatever runs        *)
(* between the start and the end of a ceremony, ways in stay their persons', an account in use keeps one, and  *)
(* a ceremony works once.                                                                                      *)

Statuses == {"none", "invited", "active", "suspended", "deleted"}
Kinds == {"none", "provider", "email", "passkey", "register"}
Row == [kind : Kinds, link : Person \cup {NoBody}, person : Person \cup {NoBody}]
Req == [step : {"none", "proof", "session"}, of : 0..MaxCeremonies,
        way : Way \cup {NoBody}, link : Person \cup {NoBody}]

(* A browser's session, and what the server proves for it, are of the person in front of it. *)
Seat(b) ==
  /\ session[b] \in {NoBody, inFront[b]}
  /\ request[b].step = "proof" =>
       request[b].of \in Ceremony /\ request[b].way \in Way /\ WayOf[request[b].way] = inFront[b]
  /\ request[b].step = "session" => request[b].link = inFront[b]
Seated == \A b \in Browser : Seat(b)

(* A ceremony has a row, or one request has taken it, or it has been used. *)
Proves(b, c) == request[b].step = "proof" /\ request[b].of = c
Fresh(c) == used[c] = 0 /\ \A b \in Browser : ~Proves(b, c)
Single(c) ==
  /\ c > begun => ceremony[c] = NoRow /\ Fresh(c)
  /\ ceremony[c] # NoRow => Fresh(c)
  /\ \A b \in Browser : Proves(b, c) => used[c] = 0 /\ \A d \in Browser \ {b} : ~Proves(d, c)
  /\ used[c] <= 1
Once == \A c \in Ceremony : Single(c)

SignInIInv == SignInTypeOK /\ Seated /\ WaysOfTheirOwn /\ AWayIn /\ Once
-----------------------------------------------------------------------------
LEMMA SignInTypes ==
  SignInTypeOK <=>
    /\ account \in [Person -> Statuses]
    /\ entered \subseteq Person /\ identity \in [Way -> Person \cup {NoBody}] /\ invitees \subseteq Person
    /\ inFront \in [Browser -> Person] /\ session \in [Browser -> Person \cup {NoBody}]
    /\ cookie \in [Browser -> 0..MaxCeremonies] /\ begun \in 0..MaxCeremonies
    /\ ceremony \in [Ceremony -> Row] /\ request \in [Browser -> Req]
    /\ page \in [Browser -> SUBSET Way] /\ used \in [Ceremony -> Nat]
BY DEF SignInTypeOK, Statuses, Kinds, Row, Req

LEMMA SignInTypesNext ==
  SignInTypeOK' <=>
    /\ account' \in [Person -> Statuses]
    /\ entered' \subseteq Person /\ identity' \in [Way -> Person \cup {NoBody}] /\ invitees' \subseteq Person
    /\ inFront' \in [Browser -> Person] /\ session' \in [Browser -> Person \cup {NoBody}]
    /\ cookie' \in [Browser -> 0..MaxCeremonies] /\ begun' \in 0..MaxCeremonies
    /\ ceremony' \in [Ceremony -> Row] /\ request' \in [Browser -> Req]
    /\ page' \in [Browser -> SUBSET Way] /\ used' \in [Ceremony -> Nat]
BY DEF SignInTypeOK, Statuses, Kinds, Row, Req

LEMMA Blank == NoRow \in Row /\ Nowhere \in Req /\ Nowhere.step = "none"
BY SignInAssumption DEF NoRow, Nowhere, Row, Req, Kinds

(* Whatever an account for an address is, it is the person's own. *)
LEMMA OwnAccount ==
  ASSUME WaysOfTheirOwn, NEW p \in Person
  PROVE  ByEmail(p) \subseteq {p}
<1>1. \A v \in Way : WayOf[v] = p /\ identity[v] # NoBody => identity[v] = p
  BY DEF WaysOfTheirOwn
<1>2. {identity[w] : w \in {v \in Way : WayKind[v] # "passkey" /\ WayOf[v] = p /\ identity[v] # NoBody}} \subseteq {p}
  BY <1>1
<1>3. QED
  BY <1>2 DEF ByEmail

LEMMA NewRow ==
  ASSUME SignInTypeOK, NEW row \in Row, NewCeremony(row)
  PROVE  /\ begun' \in 0..MaxCeremonies /\ ceremony' \in [Ceremony -> Row] /\ used' \in [Ceremony -> Nat]
         /\ begun + 1 \in Ceremony
         /\ \A c \in Ceremony : c # begun + 1 => ceremony'[c] = ceremony[c]
         /\ begun' = begun + 1 /\ used' = used
<1>1. begun \in 0..MaxCeremonies /\ begun < MaxCeremonies /\ begun' = begun + 1 /\ used' = used
  BY SignInTypes DEF NewCeremony
<1>2. MaxCeremonies \in Nat /\ begun + 1 \in Ceremony
  BY <1>1, SignInAssumption DEF Ceremony
<1>3. ceremony \in [Ceremony -> Row] /\ used \in [Ceremony -> Nat]
  BY SignInTypes
<1>4. ceremony' = [ceremony EXCEPT ![begun + 1] = row]
  BY DEF NewCeremony
<1>5. ceremony' \in [Ceremony -> Row]
  BY <1>3, <1>4
<1>6. \A c \in Ceremony : c # begun + 1 => ceremony'[c] = ceremony[c]
  BY <1>3, <1>4
<1>7. QED
  BY <1>1, <1>2, <1>3, <1>5, <1>6

LEMMA SignInTaken ==
  ASSUME SignInTypeOK, NEW c \in Ceremony, Takes(c)
  PROVE  /\ ceremony' \in [Ceremony -> Row] /\ ceremony'[c] = NoRow
         /\ \A e \in Ceremony : e # c => ceremony'[e] = ceremony[e]
BY SignInTypes, Blank DEF Takes

LEMMA UsedMore ==
  ASSUME SignInTypeOK, NEW c \in Ceremony, used' = [used EXCEPT ![c] = @ + 1]
  PROVE  used' \in [Ceremony -> Nat] /\ used'[c] = used[c] + 1 /\ \A e \in Ceremony : e # c => used'[e] = used[e]
BY SignInTypes

-----------------------------------------------------------------------------
LEMMA SignInInitHolds == SignInInit => SignInIInv
<1> SUFFICES ASSUME SignInInit PROVE SignInIInv
  OBVIOUS
<1>1. SignInTypeOK
  <2>1. 0 \in 0..MaxCeremonies
    BY SignInAssumption
  <2>2. account \in [Person -> Statuses] /\ entered \subseteq Person /\ invitees \subseteq Person
    BY DEF SignInInit, Statuses
  <2>3. identity \in [Way -> Person \cup {NoBody}] /\ inFront \in [Browser -> Person]
        /\ session \in [Browser -> Person \cup {NoBody}] /\ page \in [Browser -> SUBSET Way]
    BY DEF SignInInit
  <2>4. cookie \in [Browser -> 0..MaxCeremonies] /\ begun \in 0..MaxCeremonies
    BY <2>1 DEF SignInInit
  <2>5. ceremony \in [Ceremony -> Row] /\ request \in [Browser -> Req] /\ used \in [Ceremony -> Nat]
    BY Blank DEF SignInInit
  <2>6. QED
    BY <2>2, <2>3, <2>4, <2>5, SignInTypes
<1>2. Seated
  BY Blank DEF SignInInit, Seated, Seat
<1>3. WaysOfTheirOwn /\ AWayIn
  BY DEF SignInInit, WaysOfTheirOwn, AWayIn
<1>4. Once
  BY Blank DEF SignInInit, Once, Single, Fresh, Proves
<1>5. QED
  BY <1>1, <1>2, <1>3, <1>4 DEF SignInIInv

-----------------------------------------------------------------------------
(* What each step writes is well typed. *)
LEMMA TypesHold ==
  ASSUME SignInTypeOK, Seated, WaysOfTheirOwn, [SignInNext]_signInVars
  PROVE  SignInTypeOK'
<1> USE SignInTypes, SignInTypesNext
<1>a. \A b \in Browser : request[b] \in Req /\ session[b] \in Person \cup {NoBody}
  OBVIOUS
<1>b. \A c \in Ceremony : ceremony[c] \in Row /\ c \in 0..MaxCeremonies
  BY SignInAssumption DEF Ceremony
<1>c. \A b \in Browser, c \in Ceremony, w \in Way, p \in Person \cup {NoBody} :
        [step |-> "proof", of |-> c, way |-> w, link |-> p] \in Req
  BY <1>b DEF Req
<1>d. \A b \in Browser, p \in Person :
        [step |-> "session", of |-> request[b].of, way |-> NoBody, link |-> p] \in Req
  BY <1>a DEF Req
<1>e. \A b \in Browser : [request EXCEPT ![b] = Nowhere] \in [Browser -> Req]
  BY Blank
<1>1. CASE SendLink
  <2>1. PICK p \in Person : NewCeremony([kind |-> "email", link |-> NoBody, person |-> p])
    BY <1>1 DEF SendLink
  <2>2. [kind |-> "email", link |-> NoBody, person |-> p] \in Row
    BY DEF Row, Kinds
  <2>3. QED
    BY <1>1, <2>1, <2>2, NewRow DEF SendLink, peopleVars, browserVars
<1>2. CASE PasskeyOptions
  <2>1. [kind |-> "passkey", link |-> NoBody, person |-> NoBody] \in Row
    BY DEF Row, Kinds
  <2>2. QED
    BY <1>2, <2>1, NewRow DEF PasskeyOptions, peopleVars, browserVars
<1>3. CASE CeremonyExpires
  BY <1>3, SignInTaken DEF CeremonyExpires, peopleVars, browserVars
<1>4. ASSUME NEW p \in Person, InvitePerson(p) PROVE SignInTypeOK'
  <2>1. account' \in [Person -> Statuses]
    BY <1>4 DEF InvitePerson, Statuses
  <2>2. QED
    BY <1>4, <2>1 DEF InvitePerson, browserVars, ceremonyVars
<1>5. ASSUME NEW p \in Person, InviteMember(p) PROVE SignInTypeOK'
  BY <1>5 DEF InviteMember, browserVars, ceremonyVars
<1>6. ASSUME NEW p \in Person, WithdrawPerson(p) PROVE SignInTypeOK'
  <2>1. ceremony' \in [Ceremony -> Row]
    BY <1>6, SignInTaken DEF WithdrawPerson
  <2>2. QED
    BY <1>6, <2>1 DEF WithdrawPerson, browserVars
<1>7. ASSUME NEW p \in Person, SetAccountStatus(p) PROVE SignInTypeOK'
  <2>1. account' \in [Person -> Statuses]
    BY <1>7 DEF SetAccountStatus, Statuses
  <2>2. QED
    BY <1>7, <2>1 DEF SetAccountStatus, browserVars, ceremonyVars
<1>8. ASSUME NEW p \in Person, EndAccount(p) PROVE SignInTypeOK'
  <2>1. account' \in [Person -> Statuses]
    BY <1>8 DEF EndAccount, Statuses
  <2>2. identity' \in [Way -> Person \cup {NoBody}] /\ session' \in [Browser -> Person \cup {NoBody}]
        /\ page' \in [Browser -> SUBSET Way]
    BY <1>8 DEF EndAccount
  <2>3. QED
    BY <1>8, <2>1, <2>2 DEF EndAccount, ceremonyVars
<1>9. ASSUME NEW b \in Browser, StartProvider(b) PROVE SignInTypeOK'
  <2>1. PICK link \in {NoBody, session[b]} : NewCeremony([kind |-> "provider", link |-> link, person |-> NoBody])
    BY <1>9 DEF StartProvider
  <2>2. [kind |-> "provider", link |-> link, person |-> NoBody] \in Row
    BY <1>a DEF Row, Kinds
  <2>3. begun + 1 \in Ceremony /\ ceremony' \in [Ceremony -> Row] /\ begun' \in 0..MaxCeremonies
        /\ used' \in [Ceremony -> Nat]
    BY <2>1, <2>2, NewRow
  <2>4. cookie' \in [Browser -> 0..MaxCeremonies]
    BY <1>9, <1>b, <2>3 DEF StartProvider
  <2>5. QED
    BY <1>9, <2>3, <2>4 DEF StartProvider, peopleVars
<1>10. ASSUME NEW b \in Browser, Resume(b) PROVE SignInTypeOK'
  <2>1. PICK c \in Ceremony, w \in Way :
          /\ Takes(c)
          /\ \/ UNCHANGED request
             \/ request' = [request EXCEPT ![b] = [step |-> "proof", of |-> c, way |-> w, link |-> ceremony[c].link]]
    BY <1>10 DEF Resume
  <2>2. ceremony' \in [Ceremony -> Row]
    BY <2>1, SignInTaken
  <2>3. ceremony[c].link \in Person \cup {NoBody}
    BY <1>b DEF Row
  <2>4. request' \in [Browser -> Req]
    BY <1>c, <2>1, <2>3
  <2>5. QED
    BY <1>10, <2>2, <2>4 DEF Resume, peopleVars, browserVars
<1>11. ASSUME NEW b \in Browser, ProviderFails(b) PROVE SignInTypeOK'
  BY <1>11, <1>e DEF ProviderFails, peopleVars, browserVars, ceremonyVars
<1>12. ASSUME NEW b \in Browser, Confirm(b) PROVE SignInTypeOK'
  <2>1. PICK c \in Ceremony, w \in Way :
          /\ Takes(c)
          /\ \/ UNCHANGED request
             \/ request' = [request EXCEPT ![b] = [step |-> "proof", of |-> c, way |-> w, link |-> NoBody]]
    BY <1>12 DEF Confirm
  <2>2. ceremony' \in [Ceremony -> Row]
    BY <2>1, SignInTaken
  <2>3. request' \in [Browser -> Req]
    BY <1>c, <2>1
  <2>4. QED
    BY <1>12, <2>2, <2>3 DEF Confirm, peopleVars, browserVars
<1>13. ASSUME NEW b \in Browser, PasskeySignIn(b) PROVE SignInTypeOK'
  <2>1. PICK c \in Ceremony, w \in Way :
          /\ Takes(c)
          /\ \/ UNCHANGED request
             \/ request' = [request EXCEPT ![b] = [step |-> "proof", of |-> c, way |-> w, link |-> NoBody]]
    BY <1>13 DEF PasskeySignIn
  <2>2. ceremony' \in [Ceremony -> Row]
    BY <2>1, SignInTaken
  <2>3. request' \in [Browser -> Req]
    BY <1>c, <2>1
  <2>4. QED
    BY <1>13, <2>2, <2>3 DEF PasskeySignIn, peopleVars, browserVars
<1>14. ASSUME NEW b \in Browser, RegisterOptions(b) PROVE SignInTypeOK'
  <2>1. [kind |-> "register", link |-> session[b], person |-> NoBody] \in Row
    BY <1>a DEF Row, Kinds
  <2>2. QED
    BY <1>14, <2>1, NewRow DEF RegisterOptions, peopleVars, browserVars
<1>15. ASSUME NEW b \in Browser, Register(b) PROVE SignInTypeOK'
  <2>1. PICK c \in Ceremony, w \in Way :
          /\ Takes(c) /\ SignedIn(b, session[b])
          /\ \/ identity' = [identity EXCEPT ![w] = session[b]] /\ used' = [used EXCEPT ![c] = @ + 1]
             \/ UNCHANGED <<identity, used>>
    BY <1>15 DEF Register
  <2>2. ceremony' \in [Ceremony -> Row]
    BY <2>1, SignInTaken
  <2>3. identity' \in [Way -> Person \cup {NoBody}]
    BY <2>1, <1>a
  <2>4. used' \in [Ceremony -> Nat]
    BY <2>1, UsedMore
  <2>5. QED
    BY <1>15, <2>2, <2>3, <2>4 DEF Register, browserVars
<1>16. ASSUME NEW b \in Browser, SignInKnown(b) PROVE SignInTypeOK'
  <2>1. used' \in [Ceremony -> Nat] /\ begun' = begun /\ ceremony' = ceremony
    <3>1. request[b].of \in Ceremony
      BY <1>16 DEF SignInKnown, Seated, Seat
    <3>2. QED
      BY <1>16, <3>1, UsedMore DEF SignInKnown, Completed
  <2>2. request[b].way \in Way /\ identity[request[b].way] \in Person
    <3>1. request[b].way \in Way /\ identity[request[b].way] # NoBody
      BY <1>16 DEF SignInKnown, Seated, Seat
    <3>2. QED
      BY <3>1
  <2>3. request' \in [Browser -> Req] /\ entered' \subseteq Person /\ invitees' \subseteq Person
    BY <1>16, <1>d, <1>e, <2>2 DEF SignInKnown, Enters
  <2>4. QED
    BY <1>16, <2>1, <2>3 DEF SignInKnown, browserVars
<1>17. ASSUME NEW b \in Browser, SignInNew(b) PROVE SignInTypeOK'
  <2>1. used' \in [Ceremony -> Nat] /\ begun' = begun /\ ceremony' = ceremony
    <3>1. request[b].of \in Ceremony
      BY <1>17 DEF SignInNew, Seated, Seat
    <3>2. QED
      BY <1>17, <3>1, UsedMore DEF SignInNew, Completed
  <2>2. PICK p \in Person :
          /\ account' = [account EXCEPT ![p] = "active"]
          /\ identity' = [identity EXCEPT ![request[b].way] = p] /\ invitees' \subseteq invitees /\ Enters(b, p)
    <3>1. request[b].way \in Way /\ WayOf[request[b].way] \in Person
      BY <1>17, SignInAssumption DEF SignInNew, Seated, Seat
    <3>2. ByEmail(WayOf[request[b].way]) \subseteq Person
      BY <3>1, OwnAccount
    <3>3. QED
      BY <1>17, <3>1, <3>2 DEF SignInNew
  <2>3. request' \in [Browser -> Req] /\ entered' \subseteq Person /\ invitees' \subseteq Person
    BY <1>d, <2>2 DEF Enters
  <2>4. account' \in [Person -> Statuses]
    BY <2>2 DEF Statuses
  <2>5. identity' \in [Way -> Person \cup {NoBody}]
    BY <2>2
  <2>6. QED
    BY <1>17, <2>1, <2>3, <2>4, <2>5 DEF SignInNew, browserVars
<1>18. ASSUME NEW b \in Browser, SignInRefused(b) PROVE SignInTypeOK'
  BY <1>18, <1>e DEF SignInRefused, peopleVars, browserVars, ceremonyVars
<1>19. ASSUME NEW b \in Browser, StartSession(b) PROVE SignInTypeOK'
  <2>1. request[b].link \in Person \cup {NoBody} /\ 0 \in 0..MaxCeremonies
    BY <1>a, SignInAssumption DEF Req
  <2>2. session' \in [Browser -> Person \cup {NoBody}]
    BY <1>19, <2>1 DEF StartSession
  <2>3. cookie' \in [Browser -> 0..MaxCeremonies]
    BY <1>19, <2>1 DEF StartSession
  <2>4. page' \in [Browser -> SUBSET Way]
    BY <1>19 DEF StartSession
  <2>5. QED
    BY <1>19, <1>e, <2>2, <2>3, <2>4 DEF StartSession, peopleVars, ceremonyVars
<1>20. ASSUME NEW b \in Browser, Attach(b) PROVE SignInTypeOK'
  <2>1. used' \in [Ceremony -> Nat] /\ begun' = begun /\ ceremony' = ceremony
    <3>1. request[b].of \in Ceremony
      BY <1>20 DEF Attach, Seated, Seat
    <3>2. QED
      BY <1>20, <3>1, UsedMore DEF Attach, Completed
  <2>2. request[b].link \in Person \cup {NoBody}
    BY <1>a DEF Req
  <2>3. identity' \in [Way -> Person \cup {NoBody}]
    BY <1>20, <2>2 DEF Attach
  <2>4. QED
    BY <1>20, <1>e, <2>1, <2>3 DEF Attach, browserVars
<1>21. ASSUME NEW b \in Browser, ShowWays(b) PROVE SignInTypeOK'
  <2>1. page' \in [Browser -> SUBSET Way]
    BY <1>21 DEF ShowWays, Ways
  <2>2. QED
    BY <1>21, <2>1 DEF ShowWays, peopleVars, ceremonyVars
<1>22. ASSUME NEW b \in Browser, RemoveWay(b) PROVE SignInTypeOK'
  <2>1. page' \in [Browser -> SUBSET Way]
    BY <1>22 DEF RemoveWay
  <2>2. identity' \in [Way -> Person \cup {NoBody}]
    BY <1>22 DEF RemoveWay
  <2>3. QED
    BY <1>22, <2>1, <2>2 DEF RemoveWay, ceremonyVars
<1>23. ASSUME NEW b \in Browser, SignOut(b) PROVE SignInTypeOK'
  <2>1. page' \in [Browser -> SUBSET Way] /\ session' \in [Browser -> Person \cup {NoBody}]
    BY <1>23 DEF SignOut
  <2>2. QED
    BY <1>23, <2>1 DEF SignOut, peopleVars, ceremonyVars
<1>24. ASSUME NEW b \in Browser, HandOn(b) PROVE SignInTypeOK'
  <2>1. inFront' \in [Browser -> Person]
    BY <1>24 DEF HandOn
  <2>2. QED
    BY <1>24, <2>1 DEF HandOn, peopleVars, ceremonyVars
<1>25. CASE UNCHANGED signInVars
  BY <1>25 DEF signInVars
<1>26. QED
  BY <1>1, <1>2, <1>3, <1>4, <1>5, <1>6, <1>7, <1>8, <1>9, <1>10, <1>11, <1>12, <1>13, <1>14, <1>15, <1>16, <1>17,
     <1>18, <1>19, <1>20, <1>21, <1>22, <1>23, <1>24, <1>25 DEF SignInNext

-----------------------------------------------------------------------------
(* The session and the ceremony of a browser stay those of the person in front of it. *)
LEMMA SeatedHolds ==
  ASSUME SignInIInv, [SignInNext]_signInVars
  PROVE  Seated'
<1> USE SignInTypes
<1>a. /\ SignInTypeOK /\ WaysOfTheirOwn /\ \A b \in Browser : Seat(b)
  BY DEF SignInIInv, Seated
<1>b. request \in [Browser -> Req] /\ session \in [Browser -> Person \cup {NoBody}] /\ inFront \in [Browser -> Person]
  BY <1>a
<1>1. ASSUME NEW p \in Person, EndAccount(p) PROVE Seated'
  <2>1. session' = [b \in Browser |-> IF session[b] = p THEN NoBody ELSE session[b]] /\ UNCHANGED <<request, inFront>>
    BY <1>1 DEF EndAccount
  <2>2. QED
    BY <1>a, <1>b, <2>1 DEF Seated, Seat
<1>2. ASSUME NEW b \in Browser, Resume(b) PROVE Seated'
  <2>1. PICK c \in Ceremony, w \in Way :
          /\ WayOf[w] = inFront[b]
          /\ \/ UNCHANGED request
             \/ request' = [request EXCEPT ![b] = [step |-> "proof", of |-> c, way |-> w, link |-> ceremony[c].link]]
    BY <1>2 DEF Resume
  <2>2. UNCHANGED <<session, inFront>>
    BY <1>2 DEF Resume, browserVars
  <2>3. QED
    BY <1>a, <1>b, <2>1, <2>2 DEF Seated, Seat
<1>3. ASSUME NEW b \in Browser, ProviderFails(b) PROVE Seated'
  <2>1. request' = [request EXCEPT ![b] = Nowhere] /\ UNCHANGED <<session, inFront>>
    BY <1>3 DEF ProviderFails, browserVars
  <2>2. QED
    BY <1>a, <1>b, <2>1, Blank DEF Seated, Seat
<1>4. ASSUME NEW b \in Browser, Confirm(b) PROVE Seated'
  <2>1. PICK c \in Ceremony, w \in Way :
          /\ WayOf[w] = inFront[b]
          /\ request' = [request EXCEPT ![b] = [step |-> "proof", of |-> c, way |-> w, link |-> NoBody]]
    BY <1>4 DEF Confirm
  <2>2. UNCHANGED <<session, inFront>>
    BY <1>4 DEF Confirm, browserVars
  <2>3. QED
    BY <1>a, <1>b, <2>1, <2>2 DEF Seated, Seat
<1>5. ASSUME NEW b \in Browser, PasskeySignIn(b) PROVE Seated'
  <2>1. PICK c \in Ceremony, w \in Way :
          /\ WayOf[w] = inFront[b]
          /\ \/ UNCHANGED request
             \/ request' = [request EXCEPT ![b] = [step |-> "proof", of |-> c, way |-> w, link |-> NoBody]]
    BY <1>5 DEF PasskeySignIn
  <2>2. UNCHANGED <<session, inFront>>
    BY <1>5 DEF PasskeySignIn, browserVars
  <2>3. QED
    BY <1>a, <1>b, <2>1, <2>2 DEF Seated, Seat
<1>6. ASSUME NEW b \in Browser, SignInKnown(b) PROVE Seated'
  <2>1. UNCHANGED <<session, inFront>> /\ request[b].step = "proof" /\ identity[request[b].way] # NoBody
    BY <1>6 DEF SignInKnown, browserVars
  <2>2. request[b].way \in Way /\ WayOf[request[b].way] = inFront[b]
    BY <1>a, <2>1 DEF Seat
  <2>3. identity[request[b].way] = inFront[b]
    BY <1>a, <2>1, <2>2 DEF WaysOfTheirOwn
  <2>4. \/ request' = [request EXCEPT ![b] = [step |-> "session", of |-> request[b].of, way |-> NoBody,
                                            link |-> inFront[b]]]
        \/ request' = [request EXCEPT ![b] = Nowhere]
    BY <1>6, <2>3 DEF SignInKnown, Enters
  <2>5. QED
    BY <1>a, <1>b, <2>1, <2>4, Blank DEF Seated, Seat
<1>7. ASSUME NEW b \in Browser, SignInNew(b) PROVE Seated'
  <2>1. UNCHANGED <<session, inFront>> /\ request[b].step = "proof"
    BY <1>7 DEF SignInNew, browserVars
  <2>2. request[b].way \in Way /\ WayOf[request[b].way] = inFront[b]
    BY <1>a, <2>1 DEF Seat
  <2>3. ByEmail(inFront[b]) \subseteq {inFront[b]}
    BY <1>a, <1>b, OwnAccount
  <2>4. request' = [request EXCEPT ![b] = [step |-> "session", of |-> request[b].of, way |-> NoBody,
                                          link |-> inFront[b]]]
    BY <1>7, <2>2, <2>3 DEF SignInNew, Enters
  <2>5. QED
    BY <1>a, <1>b, <2>1, <2>4 DEF Seated, Seat
<1>8. ASSUME NEW b \in Browser, SignInRefused(b) PROVE Seated'
  <2>1. request' = [request EXCEPT ![b] = Nowhere] /\ UNCHANGED <<session, inFront>>
    BY <1>8 DEF SignInRefused, browserVars
  <2>2. QED
    BY <1>a, <1>b, <2>1, Blank DEF Seated, Seat
<1>9. ASSUME NEW b \in Browser, StartSession(b) PROVE Seated'
  <2>1. UNCHANGED inFront /\ request[b].step = "session" /\ request' = [request EXCEPT ![b] = Nowhere]
    BY <1>9 DEF StartSession
  <2>2. session' = [session EXCEPT ![b] = NoBody] \/ session' = [session EXCEPT ![b] = inFront[b]]
    BY <1>9, <1>a, <2>1 DEF StartSession, Seat
  <2>3. QED
    BY <1>a, <1>b, <2>1, <2>2, Blank DEF Seated, Seat
<1>10. ASSUME NEW b \in Browser, Attach(b) PROVE Seated'
  <2>1. request' = [request EXCEPT ![b] = Nowhere] /\ UNCHANGED <<session, inFront>>
    BY <1>10 DEF Attach, browserVars
  <2>2. QED
    BY <1>a, <1>b, <2>1, Blank DEF Seated, Seat
<1>11. ASSUME NEW b \in Browser, SignOut(b) PROVE Seated'
  BY <1>11, <1>a, <1>b DEF SignOut, Seated, Seat
<1>12. ASSUME NEW b \in Browser, HandOn(b) PROVE Seated'
  <2>1. UNCHANGED <<session, request>> /\ session[b] = NoBody /\ request[b] = Nowhere
        /\ \E p \in Person : inFront' = [inFront EXCEPT ![b] = p]
    BY <1>12 DEF HandOn, Idles
  <2>2. QED
    BY <1>a, <1>b, <2>1, Blank DEF Seated, Seat
<1>13. CASE \/ UNCHANGED signInVars
            \/ SendLink
            \/ PasskeyOptions
            \/ CeremonyExpires
            \/ \E p \in Person :
                 \/ InvitePerson(p) \/ InviteMember(p) \/ WithdrawPerson(p) \/ SetAccountStatus(p)
            \/ \E b \in Browser :
                 \/ StartProvider(b) \/ RegisterOptions(b) \/ Register(b) \/ ShowWays(b)
                 \/ RemoveWay(b)
  <2>1. UNCHANGED <<inFront, session, request>>
    BY <1>13 DEF signInVars, peopleVars, browserVars, ceremonyVars, SendLink, PasskeyOptions, CeremonyExpires,
       InvitePerson, InviteMember, WithdrawPerson, SetAccountStatus, StartProvider, RegisterOptions, Register,
       ShowWays, RemoveWay
  <2>2. QED
    BY <2>1 DEF SignInIInv, Seated, Seat
<1>14. QED
  BY <1>1, <1>2, <1>3, <1>4, <1>5, <1>6, <1>7, <1>8, <1>9, <1>10, <1>11, <1>12, <1>13 DEF SignInNext

(* Whoever adds a way is the person whose way it is. *)
LEMMA WaysStay ==
  ASSUME SignInIInv, [SignInNext]_signInVars
  PROVE  WaysOfTheirOwn'
<1> USE SignInTypes
<1>a. /\ SignInTypeOK /\ WaysOfTheirOwn /\ \A b \in Browser : Seat(b)
  BY DEF SignInIInv, Seated
<1>b. identity \in [Way -> Person \cup {NoBody}] /\ inFront \in [Browser -> Person]
  BY <1>a
<1>1. ASSUME NEW p \in Person, EndAccount(p) PROVE WaysOfTheirOwn'
  BY <1>1, <1>a, <1>b DEF EndAccount, WaysOfTheirOwn
<1>2. ASSUME NEW b \in Browser, Register(b) PROVE WaysOfTheirOwn'
  <2>1. session[b] = inFront[b]
    BY <1>2, <1>a, SignInAssumption DEF Register, SignedIn, Seat
  <2>2. QED
    BY <1>2, <1>a, <1>b, <2>1 DEF Register, WaysOfTheirOwn
<1>3. ASSUME NEW b \in Browser, SignInNew(b) PROVE WaysOfTheirOwn'
  <2>1. request[b].way \in Way /\ WayOf[request[b].way] = inFront[b]
    BY <1>3, <1>a DEF SignInNew, Seat
  <2>2. ByEmail(inFront[b]) \subseteq {inFront[b]}
    BY <1>a, <1>b, OwnAccount
  <2>3. identity' = [identity EXCEPT ![request[b].way] = inFront[b]]
    BY <1>3, <2>1, <2>2 DEF SignInNew
  <2>4. QED
    BY <1>a, <1>b, <2>1, <2>3 DEF WaysOfTheirOwn
<1>4. ASSUME NEW b \in Browser, Attach(b) PROVE WaysOfTheirOwn'
  <2>1. request[b].way \in Way /\ WayOf[request[b].way] = inFront[b]
    BY <1>4, <1>a DEF Attach, Seat
  <2>2. SignedIn(b, request[b].link) => request[b].link = inFront[b]
    BY <1>a, SignInAssumption DEF SignedIn, Seat
  <2>3. identity' = [identity EXCEPT ![request[b].way] = inFront[b]] \/ UNCHANGED identity
    BY <1>4, <2>2 DEF Attach
  <2>4. QED
    BY <1>a, <1>b, <2>1, <2>3 DEF WaysOfTheirOwn
<1>5. ASSUME NEW b \in Browser, RemoveWay(b) PROVE WaysOfTheirOwn'
  BY <1>5, <1>a, <1>b DEF RemoveWay, WaysOfTheirOwn
<1>6. CASE \/ UNCHANGED signInVars
           \/ SendLink
           \/ PasskeyOptions
           \/ CeremonyExpires
           \/ \E p \in Person :
                \/ InvitePerson(p) \/ InviteMember(p) \/ WithdrawPerson(p) \/ SetAccountStatus(p)
           \/ \E b \in Browser :
                \/ StartProvider(b) \/ Resume(b) \/ ProviderFails(b) \/ Confirm(b)
                \/ PasskeySignIn(b) \/ RegisterOptions(b) \/ SignInKnown(b) \/ SignInRefused(b)
                \/ StartSession(b) \/ ShowWays(b) \/ SignOut(b) \/ HandOn(b)
  <2>1. UNCHANGED identity
    BY <1>6 DEF signInVars, peopleVars, browserVars, ceremonyVars, SendLink, PasskeyOptions, CeremonyExpires,
       InvitePerson, InviteMember, WithdrawPerson, SetAccountStatus, StartProvider, Resume, ProviderFails, Confirm,
       PasskeySignIn, RegisterOptions, SignInKnown, SignInRefused, StartSession, ShowWays, SignOut, HandOn
  <2>2. QED
    BY <2>1 DEF SignInIInv, WaysOfTheirOwn
<1>7. QED
  BY <1>1, <1>2, <1>3, <1>4, <1>5, <1>6 DEF SignInNext

(* The only step that takes a way from an account that stays leaves it another.  The ways of an account are
   the rows of a table, so they are finite. *)
LEMMA AWayStays ==
  ASSUME SignInIInv, [SignInNext]_signInVars, IsFiniteSet(Way)
  PROVE  AWayIn'
<1> USE SignInTypes
<1>a. SignInTypeOK /\ WaysOfTheirOwn /\ AWayIn /\ \A b \in Browser : Seat(b)
  BY DEF SignInIInv, Seated
<1>b. /\ identity \in [Way -> Person \cup {NoBody}] /\ account \in [Person -> Statuses]
      /\ inFront \in [Browser -> Person] /\ entered \subseteq Person
  BY <1>a
<1>c. \A p \in entered : account[p] # "deleted" => \E w \in Way : identity[w] = p
  BY <1>a DEF AWayIn, Ways
<1>d. (\A p \in entered' : account'[p] # "deleted" => \E w \in Way : identity'[w] = p) => AWayIn'
  BY DEF AWayIn, Ways
<1>1. ASSUME NEW p \in Person, InvitePerson(p) PROVE AWayIn'
  <2>1. UNCHANGED <<entered, identity>> /\ account' = [account EXCEPT ![p] = "invited"] /\ account[p] = "none"
    BY <1>1 DEF InvitePerson
  <2>2. QED
    BY <1>b, <1>c, <1>d, <2>1
<1>2. ASSUME NEW p \in Person, SetAccountStatus(p) PROVE AWayIn'
  <2>1. UNCHANGED <<entered, identity>> /\ account[p] # "deleted"
        /\ \A q \in Person \ {p} : account'[q] = account[q]
    BY <1>2, <1>b DEF SetAccountStatus
  <2>2. QED
    BY <1>b, <1>c, <1>d, <2>1
<1>3. ASSUME NEW p \in Person, EndAccount(p) PROVE AWayIn'
  <2>1. UNCHANGED entered /\ account' = [account EXCEPT ![p] = "deleted"]
        /\ identity' = [w \in Way |-> IF identity[w] = p THEN NoBody ELSE identity[w]]
    BY <1>3 DEF EndAccount
  <2>2. QED
    BY <1>b, <1>c, <1>d, <2>1
<1>4. ASSUME NEW b \in Browser, Register(b) PROVE AWayIn'
  <2>1. UNCHANGED <<entered, account>>
        /\ \/ UNCHANGED identity
           \/ \E w \in Way : identity[w] = NoBody /\ identity' = [identity EXCEPT ![w] = session[b]]
    BY <1>4 DEF Register, browserVars
  <2>2. QED
    BY <1>b, <1>c, <1>d, <2>1, SignInAssumption
<1>5. ASSUME NEW b \in Browser, SignInKnown(b) PROVE AWayIn'
  <2>1. UNCHANGED <<account, identity>> /\ request[b].way \in Way
    BY <1>5, <1>a DEF SignInKnown, Seat
  <2>2. entered' \subseteq entered \cup {identity[request[b].way]}
    BY <1>5 DEF SignInKnown, Enters
  <2>3. QED
    BY <1>c, <1>d, <2>1, <2>2
<1>6. ASSUME NEW b \in Browser, SignInNew(b) PROVE AWayIn'
  <2>1. request[b].way \in Way /\ WayOf[request[b].way] = inFront[b] /\ identity[request[b].way] = NoBody
    BY <1>6, <1>a DEF SignInNew, Seat
  <2>2. ByEmail(inFront[b]) \subseteq {inFront[b]}
    BY <1>a, <1>b, OwnAccount
  <2>3. /\ account' = [account EXCEPT ![inFront[b]] = "active"]
        /\ identity' = [identity EXCEPT ![request[b].way] = inFront[b]]
        /\ entered' = entered \cup {inFront[b]}
    BY <1>6, <2>1, <2>2 DEF SignInNew, Enters
  <2>4. QED
    BY <1>b, <1>c, <1>d, <2>1, <2>3, SignInAssumption
<1>7. ASSUME NEW b \in Browser, Attach(b) PROVE AWayIn'
  <2>1. UNCHANGED <<entered, account>>
        /\ \/ UNCHANGED identity
           \/ \E w \in Way : \E p : identity[w] = NoBody /\ identity' = [identity EXCEPT ![w] = p]
    <3>1. request[b].way \in Way
      BY <1>7, <1>a DEF Attach, Seat
    <3>2. QED
      BY <1>7, <3>1 DEF Attach, browserVars
  <2>2. QED
    BY <1>b, <1>c, <1>d, <2>1, SignInAssumption
<1>8. ASSUME NEW b \in Browser, RemoveWay(b) PROVE AWayIn'
  <2>1. UNCHANGED <<entered, account>>
    BY <1>8 DEF RemoveWay
  <2>2. CASE UNCHANGED identity
    BY <1>c, <1>d, <2>1, <2>2
  <2>3. CASE \E w \in page[b] : /\ identity[w] = session[b] /\ Cardinality(Ways(session[b])) > 1
                               /\ identity' = [identity EXCEPT ![w] = NoBody]
    <3>1. PICK w \in page[b] : /\ identity[w] = session[b] /\ Cardinality(Ways(session[b])) > 1
                               /\ identity' = [identity EXCEPT ![w] = NoBody]
      BY <2>3
    <3>2. w \in Way /\ session[b] # NoBody
      BY <1>8, <1>a, SignInAssumption DEF RemoveWay, SignedIn
    <3>3. IsFiniteSet(Ways(session[b]))
      BY FS_Subset DEF Ways
    <3>4. \E v \in Ways(session[b]) : v # w
      <4> SUFFICES ASSUME Ways(session[b]) \subseteq {w} PROVE FALSE
        OBVIOUS
      <4>1. Cardinality(Ways(session[b])) <= Cardinality({w})
        BY <3>3, FS_Singleton, FS_Subset
      <4>2. Cardinality({w}) = 1 /\ Cardinality(Ways(session[b])) \in Nat
        BY <3>3, FS_Singleton, FS_CardinalityType
      <4>3. QED
        BY <3>1, <4>1, <4>2
    <3>5. PICK v \in Way : v # w /\ identity[v] = session[b]
      BY <3>4 DEF Ways
    <3>6. identity'[v] = session[b] /\ \A x \in Way : identity[x] # session[b] => identity'[x] = identity[x]
      BY <1>b, <3>1, <3>2, <3>5
    <3>7. QED
      BY <1>c, <1>d, <2>1, <3>5, <3>6
  <2>4. QED
    BY <1>8, <2>2, <2>3 DEF RemoveWay
<1>9. CASE \/ UNCHANGED signInVars
           \/ SendLink
           \/ PasskeyOptions
           \/ CeremonyExpires
           \/ \E p \in Person : InviteMember(p) \/ WithdrawPerson(p)
           \/ \E b \in Browser :
                \/ StartProvider(b) \/ Resume(b) \/ ProviderFails(b) \/ Confirm(b)
                \/ PasskeySignIn(b) \/ RegisterOptions(b) \/ SignInRefused(b) \/ StartSession(b)
                \/ ShowWays(b) \/ SignOut(b) \/ HandOn(b)
  <2>1. UNCHANGED <<account, entered, identity>>
    BY <1>9 DEF signInVars, peopleVars, browserVars, ceremonyVars, SendLink, PasskeyOptions, CeremonyExpires,
       InviteMember, WithdrawPerson, StartProvider, Resume, ProviderFails, Confirm, PasskeySignIn, RegisterOptions,
       SignInRefused, StartSession, ShowWays, SignOut, HandOn
  <2>2. QED
    BY <2>1 DEF SignInIInv, AWayIn, Ways
<1>10. QED
  BY <1>1, <1>2, <1>3, <1>4, <1>5, <1>6, <1>7, <1>8, <1>9 DEF SignInNext

-----------------------------------------------------------------------------
LEMMA BegunOnce ==
  ASSUME SignInTypeOK, \A c \in Ceremony : Single(c), NEW row \in Row, NewCeremony(row), UNCHANGED request
  PROVE  Once'
<1>1. /\ begun + 1 \in Ceremony /\ begun' = begun + 1 /\ used' = used /\ begun \in Nat
      /\ \A c \in Ceremony : c # begun + 1 => ceremony'[c] = ceremony[c]
  BY NewRow, SignInTypes
<1>2. Fresh(begun + 1) /\ \A c \in Ceremony : c \in Nat
  BY <1>1, SignInAssumption DEF Single, Ceremony
<1>3. QED
  BY <1>1, <1>2 DEF Once, Single, Fresh, Proves

(* Who takes a row has it alone. *)
LEMMA TakenOnce ==
  ASSUME SignInTypeOK, \A c \in Ceremony : Single(c), NEW b \in Browser, NEW c \in Ceremony, NEW q,
         ceremony[c] # NoRow, Takes(c), UNCHANGED <<begun, used>>, request[b] = Nowhere,
         \/ UNCHANGED request
         \/ request' = [request EXCEPT ![b] = q] /\ q.of = c
  PROVE  Once'
<1>1. ceremony'[c] = NoRow /\ \A e \in Ceremony : e # c => ceremony'[e] = ceremony[e]
  BY SignInTaken
<1>2. Fresh(c) /\ ~(c > begun)
  BY DEF Single
<1>3. /\ \A d \in Browser : d # b => request'[d] = request[d]
      /\ \A e : e # c => ~(Proves(b, e))' 
  BY SignInTypes, Blank DEF Proves
<1>4. ~Proves(b, c) /\ \A e : ~Proves(b, e)
  BY Blank DEF Proves
<1>5. QED
  BY <1>1, <1>2, <1>3, <1>4 DEF Once, Single, Fresh, Proves

(* Who completes it ends it. *)
LEMMA CompletedOnce ==
  ASSUME SignInTypeOK, \A c \in Ceremony : Single(c), NEW b \in Browser, request[b].of \in Ceremony, Completed(b),
         request[b].step = "proof", request'[b].step # "proof",
         \A d \in Browser : d # b => request'[d] = request[d]
  PROVE  Once'
<1> DEFINE c == request[b].of
<1>1. used'[c] = used[c] + 1 /\ \A e \in Ceremony : e # c => used'[e] = used[e]
  BY UsedMore DEF Completed
<1>2. UNCHANGED <<begun, ceremony>>
  BY DEF Completed
<1>3. used[c] = 0 /\ \A d \in Browser \ {b} : ~Proves(d, c)
  BY DEF Single, Proves
<1>4. ceremony[c] = NoRow /\ ~(c > begun)
  BY DEF Single, Fresh, Proves
<1>5. \A e : ~(Proves(b, e))'
  BY DEF Proves
<1>6. \A d \in Browser : d # b => \A e : (Proves(d, e))' <=> Proves(d, e)
  BY DEF Proves
<1>7. \A e \in Ceremony : e = c => (Single(e))'
  BY <1>1, <1>2, <1>3, <1>4, <1>5, <1>6 DEF Single, Fresh
<1>8. \A e \in Ceremony : e # c => (Single(e))'
  BY <1>1, <1>2, <1>5, <1>6 DEF Single, Fresh
<1>9. QED
  BY <1>7, <1>8 DEF Once

(* A ceremony is at one place at a time. *)
LEMMA OnceStays ==
  ASSUME SignInIInv, [SignInNext]_signInVars
  PROVE  Once'
<1> USE SignInTypes
<1>a. SignInTypeOK /\ \A c \in Ceremony : Single(c)
  BY DEF SignInIInv, Once
<1>b. /\ ceremony \in [Ceremony -> Row] /\ request \in [Browser -> Req] /\ used \in [Ceremony -> Nat]
      /\ begun \in Nat
  BY <1>a
<1>1. CASE SendLink
  <2>1. PICK row \in Row : NewCeremony(row)
    <3>1. PICK p \in Person : NewCeremony([kind |-> "email", link |-> NoBody, person |-> p])
      BY <1>1 DEF SendLink
    <3>2. [kind |-> "email", link |-> NoBody, person |-> p] \in Row
      BY DEF Row, Kinds
    <3>3. QED
      BY <3>1, <3>2
  <2>2. UNCHANGED request
    BY <1>1 DEF SendLink
  <2>3. QED
    BY <1>a, <2>1, <2>2, BegunOnce
<1>2. CASE PasskeyOptions
  <2>1. PICK row \in Row : NewCeremony(row)
    <3>1. [kind |-> "passkey", link |-> NoBody, person |-> NoBody] \in Row
      BY DEF Row, Kinds
    <3>2. QED
      BY <1>2, <3>1 DEF PasskeyOptions
  <2>2. UNCHANGED request
    BY <1>2 DEF PasskeyOptions
  <2>3. QED
    BY <1>a, <2>1, <2>2, BegunOnce
<1>3. CASE CeremonyExpires
  <2>1. PICK c \in Ceremony : Takes(c)
    BY <1>3 DEF CeremonyExpires
  <2>2. UNCHANGED <<begun, used, request>>
    BY <1>3 DEF CeremonyExpires
  <2>3. QED
    BY <1>a, <2>1, <2>2, SignInTaken DEF Once, Single, Fresh, Proves
<1>4. ASSUME NEW p \in Person, WithdrawPerson(p) PROVE Once'
  <2>1. UNCHANGED ceremony \/ \E c \in Ceremony : Takes(c)
    BY <1>4 DEF WithdrawPerson
  <2>2. UNCHANGED <<begun, used, request>>
    BY <1>4 DEF WithdrawPerson
  <2>3. QED
    BY <1>a, <2>1, <2>2, SignInTaken DEF Once, Single, Fresh, Proves
<1>5. ASSUME NEW b \in Browser, StartProvider(b) PROVE Once'
  <2>1. PICK row \in Row : NewCeremony(row)
    <3>1. PICK link \in {NoBody, session[b]} :
            NewCeremony([kind |-> "provider", link |-> link, person |-> NoBody])
      BY <1>5 DEF StartProvider
    <3>2. [kind |-> "provider", link |-> link, person |-> NoBody] \in Row
      BY <1>a DEF Row, Kinds
    <3>3. QED
      BY <3>1, <3>2
  <2>2. UNCHANGED request
    BY <1>5 DEF StartProvider
  <2>3. QED
    BY <1>a, <2>1, <2>2, BegunOnce
<1>6. ASSUME NEW b \in Browser, Resume(b) PROVE Once'
  <2>1. PICK c \in Ceremony, w \in Way :
          /\ ceremony[c] # NoRow /\ Takes(c)
          /\ \/ UNCHANGED request
             \/ request' = [request EXCEPT ![b] = [step |-> "proof", of |-> c, way |-> w, link |-> ceremony[c].link]]
    BY <1>6 DEF Resume, NoRow
  <2>2. UNCHANGED <<begun, used>> /\ request[b] = Nowhere
    BY <1>6 DEF Resume, Idles
  <2>3. QED
    BY <1>a, <2>1, <2>2, TakenOnce
<1>7. ASSUME NEW b \in Browser, ProviderFails(b) PROVE Once'
  <2>1. request' = [request EXCEPT ![b] = Nowhere] /\ UNCHANGED <<begun, used, ceremony>>
    BY <1>7 DEF ProviderFails, ceremonyVars
  <2>2. QED
    BY <1>a, <1>b, <2>1, Blank DEF Once, Single, Fresh, Proves
<1>8. ASSUME NEW b \in Browser, Confirm(b) PROVE Once'
  <2>1. PICK c \in Ceremony, w \in Way :
          /\ ceremony[c].kind = "email" /\ Takes(c)
          /\ \/ UNCHANGED request
             \/ request' = [request EXCEPT ![b] = [step |-> "proof", of |-> c, way |-> w, link |-> NoBody]]
    BY <1>8 DEF Confirm
  <2>2. UNCHANGED <<begun, used>> /\ request[b] = Nowhere /\ ceremony[c] # NoRow
    BY <1>8, <2>1 DEF Confirm, Idles, NoRow
  <2>3. QED
    BY <1>a, <2>1, <2>2, TakenOnce
<1>9. ASSUME NEW b \in Browser, PasskeySignIn(b) PROVE Once'
  <2>1. PICK c \in Ceremony, w \in Way :
          /\ ceremony[c] # NoRow /\ Takes(c)
          /\ \/ UNCHANGED request
             \/ request' = [request EXCEPT ![b] = [step |-> "proof", of |-> c, way |-> w, link |-> NoBody]]
    BY <1>9 DEF PasskeySignIn, NoRow
  <2>2. UNCHANGED <<begun, used>> /\ request[b] = Nowhere
    BY <1>9 DEF PasskeySignIn, Idles
  <2>3. QED
    BY <1>a, <2>1, <2>2, TakenOnce
<1>10. ASSUME NEW b \in Browser, RegisterOptions(b) PROVE Once'
  <2>1. PICK row \in Row : NewCeremony(row)
    <3>1. [kind |-> "register", link |-> session[b], person |-> NoBody] \in Row
      BY <1>a DEF Row, Kinds
    <3>2. QED
      BY <1>10, <3>1 DEF RegisterOptions
  <2>2. UNCHANGED request
    BY <1>10 DEF RegisterOptions
  <2>3. QED
    BY <1>a, <2>1, <2>2, BegunOnce
<1>11. ASSUME NEW b \in Browser, Register(b) PROVE Once'
  <2>1. PICK c \in Ceremony :
          /\ ceremony[c] # NoRow /\ Takes(c)
          /\ UNCHANGED used \/ used' = [used EXCEPT ![c] = used[c] + 1]
    BY <1>11 DEF Register, NoRow
  <2>2. UNCHANGED <<begun, request>>
    BY <1>11 DEF Register
  <2>3. /\ used'[c] <= 1 /\ \A e \in Ceremony : e # c => used'[e] = used[e]
        /\ ~(c > begun) /\ \A d \in Browser : ~Proves(d, c)
    <3>1. used[c] = 0 /\ ~(c > begun) /\ \A d \in Browser : ~Proves(d, c)
      BY <1>a, <2>1 DEF Single, Fresh
    <3>2. QED
      BY <1>b, <2>1, <3>1
  <2>4. ceremony'[c] = NoRow /\ \A e \in Ceremony : e # c => ceremony'[e] = ceremony[e]
    BY <1>a, <2>1, SignInTaken
  <2>5. QED
    BY <1>a, <2>2, <2>3, <2>4 DEF Once, Single, Fresh, Proves
<1>12. ASSUME NEW b \in Browser, SignInKnown(b) PROVE Once'
  <2>1. request[b].step = "proof" /\ request'[b].step # "proof"
        /\ \A d \in Browser : d # b => request'[d] = request[d]
    BY <1>12, <1>b, Blank DEF SignInKnown, Enters
  <2>2. Completed(b) /\ request[b].of \in Ceremony
    BY <1>12, <2>1 DEF SignInKnown, SignInIInv, Seated, Seat
  <2>3. QED
    BY <1>a, <2>1, <2>2, CompletedOnce
<1>13. ASSUME NEW b \in Browser, SignInNew(b) PROVE Once'
  <2>1. request[b].step = "proof" /\ request'[b].step # "proof"
        /\ \A d \in Browser : d # b => request'[d] = request[d]
    BY <1>13, <1>b, Blank DEF SignInNew, Enters
  <2>2. Completed(b) /\ request[b].of \in Ceremony
    BY <1>13, <2>1 DEF SignInNew, SignInIInv, Seated, Seat
  <2>3. QED
    BY <1>a, <2>1, <2>2, CompletedOnce
<1>14. ASSUME NEW b \in Browser, SignInRefused(b) PROVE Once'
  <2>1. request' = [request EXCEPT ![b] = Nowhere] /\ UNCHANGED <<begun, used, ceremony>>
    BY <1>14 DEF SignInRefused, ceremonyVars
  <2>2. QED
    BY <1>a, <1>b, <2>1, Blank DEF Once, Single, Fresh, Proves
<1>15. ASSUME NEW b \in Browser, StartSession(b) PROVE Once'
  <2>1. request' = [request EXCEPT ![b] = Nowhere] /\ UNCHANGED <<begun, used, ceremony>>
    BY <1>15 DEF StartSession, ceremonyVars
  <2>2. QED
    BY <1>a, <1>b, <2>1, Blank DEF Once, Single, Fresh, Proves
<1>16. ASSUME NEW b \in Browser, Attach(b) PROVE Once'
  <2>1. request[b].step = "proof" /\ request'[b].step # "proof"
        /\ \A d \in Browser : d # b => request'[d] = request[d]
    BY <1>16, <1>b, Blank DEF Attach, Enters
  <2>2. Completed(b) /\ request[b].of \in Ceremony
    BY <1>16, <2>1 DEF Attach, SignInIInv, Seated, Seat
  <2>3. QED
    BY <1>a, <2>1, <2>2, CompletedOnce
<1>17. CASE \/ UNCHANGED signInVars
            \/ \E p \in Person :
                 \/ InvitePerson(p) \/ InviteMember(p) \/ SetAccountStatus(p) \/ EndAccount(p)
            \/ \E b \in Browser : ShowWays(b) \/ RemoveWay(b) \/ SignOut(b) \/ HandOn(b)
  <2>1. UNCHANGED <<begun, ceremony, used, request>>
    BY <1>17 DEF signInVars, peopleVars, browserVars, ceremonyVars, InvitePerson, InviteMember, SetAccountStatus,
       EndAccount, ShowWays, RemoveWay, SignOut, HandOn
  <2>2. QED
    BY <2>1 DEF SignInIInv, Once, Single, Fresh, Proves
<1>18. QED
  BY <1>1, <1>2, <1>3, <1>4, <1>5, <1>6, <1>7, <1>8, <1>9, <1>10, <1>11, <1>12, <1>13, <1>14, <1>15, <1>16,
     <1>17 DEF SignInNext

LEMMA SignInIInvStays == IsFiniteSet(Way) => (SignInIInv /\ [SignInNext]_signInVars => SignInIInv')
<1> SUFFICES ASSUME IsFiniteSet(Way), SignInIInv, [SignInNext]_signInVars PROVE SignInIInv'
  OBVIOUS
<1>1. SignInTypeOK'
  BY TypesHold DEF SignInIInv
<1>2. QED
  BY <1>1, SeatedHolds, WaysStay, AWayStays, OnceStays DEF SignInIInv

(* For any persons, browsers, ways in and ceremonies, an identity is only ever a row of the person it proves,  *)
(* the last way in of an account is not removed, and a ceremony is completed at most once, however requests    *)
(* overlap between taking and completing one (identities.py, login.py).                                        *)
THEOREM WaysInStay == IsFiniteSet(Way) => (SignInSpec => []SignInInv)
<1> SUFFICES ASSUME IsFiniteSet(Way) PROVE SignInSpec => []SignInInv
  OBVIOUS
<1>1. SignInIInv /\ [SignInNext]_signInVars => SignInIInv'
  BY SignInIInvStays
<1>2. SignInIInv => SignInInv
  BY DEF SignInIInv, SignInInv, WorksOnce, Once, Single
<1>3. QED
  BY <1>1, <1>2, SignInInitHolds, PTL DEF SignInSpec

-----------------------------------------------------------------------------
(* The theorem about Grants: for any number of servers and grants, each code, refresh token and device is      *)
(* good for one successor, and what has ended opens nothing again.                                             *)

Said == {"pending", "approved", "denied"}
GrantOps == {"none", "consent", "code", "exchange", "refresh", "issue", "save", "submit", "poll", "device", "key",
             "webdav"}
Grant == [kind : GrantKind, from : SUBSET GrantId, open : BOOLEAN, access : BOOLEAN, said : Said]
Call == [op : GrantOps, of : 0..MaxGrants, read : Said]

From(g) == grant[g].from
Kind(g) == grant[g].kind

(* A grant comes from older ones, with all that they came from; a pair of tokens is replaced by another. *)
Descent(c) ==
  /\ \A g \in From(c) : g < c /\ From(g) \subseteq From(c) /\ (Kind(g) = "tokens" => Kind(c) = "tokens")
  /\ c > made => From(c) = {}
  /\ grant[c].access => Kind(c) = "tokens"
  /\ Kind(c) \in {"request", "device"} => From(c) = {}
Child(g, c) == From(c) = {g} \cup From(g)
OnlyChild == \A g, c, d \in GrantId : Kind(g) # "request" /\ Child(g, c) /\ Child(g, d) => c = d
Descents == OnlyChild /\ \A c \in GrantId : Descent(c)

(* What a server may be making of a grant. *)
CallOf(q) ==
  /\ q.op \in {"consent", "code"} => q.of \in 1..made /\ Kind(q.of) = "request"
  /\ q.op \in {"submit", "poll", "device"} => q.of \in 1..made /\ Kind(q.of) = "device"
  /\ q.op \in {"exchange", "refresh", "issue", "save"} => q.of \in 1..made /\ Kind(q.of) \in {"code", "tokens"}
  /\ q.op = "key" => q.of = 0 \/ (q.of \in 1..made /\ Kind(q.of) = "device")
Calls == \A h \in Handler : CallOf(call[h])

(* Who has taken a grant makes its successor. *)
GrantsTakes(q, g) == q.op \in {"code", "issue", "save", "device", "key"} /\ q.of = g
Childless(g) == \A c \in GrantId : g \notin From(c)
Unused(g) == Childless(g) /\ \A h \in Handler : ~GrantsTakes(call[h], g)
InOneHand(g) == \A h \in Handler : GrantsTakes(call[h], g) => Childless(g) /\ \A i \in Handler \ {h} : ~GrantsTakes(call[i], g)
GrantsTaken == \A g \in GrantId : (grant[g].open => Unused(g)) /\ (Kind(g) # "request" => InOneHand(g))

(* While one request comes after another, what it has read still holds, and an ended grant is of no use. *)
Over(g) == g \in ended \/ From(g) \cap ended # {}
Spent(g) == ~grant[g].access /\ (grant[g].open => Kind(g) = "device" /\ grant[g].said = "denied")
GrantsAlone == \A h, i \in Handler : h = i \/ ~Busy(h) \/ ~Busy(i)
StillTrue(q) ==
  /\ q.op \in {"consent", "code", "issue", "save", "device", "key"} /\ q.of # 0 => ~Over(q.of)
  /\ q.op = "submit" => grant[q.of].open /\ grant[q.of].said = "pending"
  /\ q.op = "poll" => grant[q.of].said = q.read
Ended == ended \subseteq 1..made
GrantsInTurn == ~crossed => GrantsAlone /\ (\A g \in GrantId : Over(g) => Spent(g)) /\ \A h \in Handler : StillTrue(call[h])

GrantsIInv == GrantsTypeOK /\ Descents /\ Calls /\ GrantsTaken /\ Ended /\ GrantsInTurn
-----------------------------------------------------------------------------
LEMMA GrantTypes ==
  /\ GrantsTypeOK <=>
       /\ member \in BOOLEAN /\ active \in BOOLEAN /\ made \in 0..MaxGrants
       /\ grant \in [GrantId -> Grant] /\ call \in [Handler -> Call]
       /\ ended \subseteq GrantId /\ crossed \in BOOLEAN
  /\ GrantsTypeOK' <=>
       /\ member' \in BOOLEAN /\ active' \in BOOLEAN /\ made' \in 0..MaxGrants
       /\ grant' \in [GrantId -> Grant] /\ call' \in [Handler -> Call]
       /\ ended' \subseteq GrantId /\ crossed' \in BOOLEAN
BY DEF GrantsTypeOK, Grant, Call, Said, GrantOps

LEMMA Numbers ==
  ASSUME GrantsTypeOK
  PROVE  /\ made \in Nat /\ MaxGrants \in Nat /\ 1..made \subseteq GrantId /\ 0..made \subseteq 0..MaxGrants
         /\ \A g \in GrantId : g \in Nat /\ g # 0 /\ g \in 0..MaxGrants
         /\ \A g \in GrantId : g \in 1..made \/ g > made
BY GrantTypes, GrantsAssumption DEF GrantId

LEMMA MadeIs ==
  ASSUME GrantsTypeOK, NEW kind \in GrantKind, NEW of \in 0..made, Made(kind, of)
  PROVE  /\ made + 1 \in GrantId /\ made' = made + 1 /\ made' \in 0..MaxGrants
         /\ grant' \in [GrantId -> Grant]
         /\ \A g \in GrantId : g # made + 1 => grant'[g] = grant[g]
         /\ grant'[made + 1].kind = kind /\ grant'[made + 1].open
         /\ grant'[made + 1].access <=> kind = "tokens"
         /\ grant'[made + 1].from = IF of = 0 THEN {} ELSE {of} \cup From(of)
<1>1. made \in Nat /\ made < MaxGrants /\ made' = made + 1 /\ MaxGrants \in Nat
  BY Numbers DEF Made
<1>2. made + 1 \in GrantId /\ made' \in 0..MaxGrants
  BY <1>1 DEF GrantId
<1>3. grant \in [GrantId -> Grant]
  BY GrantTypes
<1> DEFINE from == IF of = 0 THEN {} ELSE {of} \cup From(of)
           new == [Nothing EXCEPT !.kind = kind, !.open = TRUE, !.access = (kind = "tokens"), !.from = from]
<1>4. from \in SUBSET GrantId
  <2>1. CASE of = 0
    BY <2>1
  <2>2. CASE of # 0
    <3>1. of \in GrantId
      BY <2>2, Numbers
    <3>2. From(of) \in SUBSET GrantId
      BY <1>3, <3>1 DEF From, Grant
    <3>3. QED
      BY <2>2, <3>1, <3>2
  <2>3. QED
    BY <2>1, <2>2
<1>5. grant' = [grant EXCEPT ![made + 1] = new]
  BY DEF Made, From
<1> HIDE DEF from
<1>6. Nothing \in Grant
  BY DEF Nothing, Grant, GrantKind, Said
<1>7. new \in Grant
  BY <1>4, <1>6 DEF Grant
<1>8. new.kind = kind /\ new.open /\ (new.access <=> kind = "tokens") /\ new.from = from
  BY <1>6 DEF Grant
<1> HIDE DEF new
<1>9. /\ grant' \in [GrantId -> Grant] /\ grant'[made + 1] = new
      /\ \A g \in GrantId : g # made + 1 => grant'[g] = grant[g]
  BY <1>2, <1>3, <1>5, <1>7
<1>10. QED
  BY <1>1, <1>2, <1>8, <1>9 DEF from

(* Ending a grant's row takes nothing but what it was good for. *)
Same(g) == grant'[g].kind = grant[g].kind /\ grant'[g].from = grant[g].from
Weaker == \A g \in GrantId :
  Same(g) /\ (grant'[g].open => grant[g].open) /\ (grant'[g].access => grant[g].access)

LEMMA ClosedIs ==
  ASSUME GrantsTypeOK, NEW gs, Closed(gs)
  PROVE  /\ grant' \in [GrantId -> Grant] /\ Weaker
         /\ \A g \in GrantId : grant'[g].said = grant[g].said
         /\ \A g \in GrantId : g \in gs => ~grant'[g].open /\ ~grant'[g].access
         /\ \A g \in GrantId : g \notin gs => grant'[g] = grant[g]
<1>1. grant \in [GrantId -> Grant]
  BY GrantTypes
<1>2. \A r \in Grant :
        /\ [r EXCEPT !.open = FALSE, !.access = FALSE] \in Grant
        /\ [r EXCEPT !.open = FALSE, !.access = FALSE].kind = r.kind
        /\ [r EXCEPT !.open = FALSE, !.access = FALSE].from = r.from
        /\ [r EXCEPT !.open = FALSE, !.access = FALSE].said = r.said
        /\ ~[r EXCEPT !.open = FALSE, !.access = FALSE].open
        /\ ~[r EXCEPT !.open = FALSE, !.access = FALSE].access
  BY DEF Grant
<1>3. grant' \in [GrantId -> Grant]
  BY <1>1, <1>2 DEF Closed
<1>4. \A g \in GrantId : g \notin gs => grant'[g] = grant[g]
  BY DEF Closed
<1>5. \A g \in GrantId : g \in gs => grant'[g] = [grant[g] EXCEPT !.open = FALSE, !.access = FALSE]
  BY DEF Closed
<1>6. \A g \in GrantId : g \in gs =>
        /\ grant'[g].kind = grant[g].kind /\ grant'[g].from = grant[g].from /\ grant'[g].said = grant[g].said
        /\ ~grant'[g].open /\ ~grant'[g].access
  BY <1>1, <1>2, <1>5
<1>7. QED
  BY <1>3, <1>4, <1>6 DEF Weaker, Same

LEMMA GrantsInitHolds == GrantsInit => GrantsIInv
<1> SUFFICES ASSUME GrantsInit PROVE GrantsIInv
  OBVIOUS
<1>1. /\ made \in {0, 1} /\ call = [h \in Handler |-> Free] /\ ended = {} /\ crossed = FALSE
      /\ member = TRUE /\ active = TRUE
  BY DEF GrantsInit
<1>2. \A kind \in {"code", "tokens"} :
        LET r == [Nothing EXCEPT !.kind = kind, !.open = TRUE, !.access = (kind = "tokens")] IN
        r \in Grant /\ r.from = {} /\ r.kind = kind /\ (r.access => r.kind = "tokens")
  BY DEF Nothing, Grant, GrantKind, Said
<1>3. Nothing \in Grant /\ Nothing.from = {} /\ ~Nothing.access /\ Nothing.kind = "key" /\ ~Nothing.open
  BY DEF Nothing, Grant, GrantKind, Said
<1>4. \A g \in GrantId : /\ grant[g] \in Grant /\ From(g) = {} /\ (grant[g].access => Kind(g) = "tokens")
                         /\ Kind(g) \in {"code", "tokens", "key"}
  <2>1. CASE grant = [g \in GrantId |-> Nothing]
    BY <1>3, <2>1 DEF From, Kind
  <2>2. CASE \E kind \in {"code", "tokens"} : grant = [g \in GrantId |->
               IF g # 1 THEN Nothing
               ELSE [Nothing EXCEPT !.kind = kind, !.open = TRUE, !.access = (kind = "tokens")]]
    BY <1>2, <1>3, <2>2 DEF From, Kind
  <2>3. QED
    BY <2>1, <2>2 DEF GrantsInit
<1>5. GrantsTypeOK
  <2>1. made \in 0..MaxGrants
    BY <1>1, GrantsAssumption
  <2>2. grant \in [GrantId -> Grant]
    <3>1. grant = [g \in GrantId |-> grant[g]]
      BY DEF GrantsInit
    <3>2. QED
      BY <1>4, <3>1
  <2>3. call \in [Handler -> Call]
    BY <1>1, GrantsAssumption DEF Free, Call, GrantOps, Said
  <2>4. QED
    BY <1>1, <2>1, <2>2, <2>3, GrantTypes
<1>6. Descents
  BY <1>4 DEF Descents, OnlyChild, Descent, Child
<1>7. Calls /\ \A h \in Handler : call[h].op = "none"
  BY <1>1 DEF Calls, CallOf, Free
<1>8. GrantsTaken
  BY <1>4, <1>7 DEF GrantsTaken, Unused, InOneHand, Childless, GrantsTakes
<1>9. Ended /\ GrantsInTurn
  BY <1>1, <1>7 DEF Ended, GrantsInTurn, GrantsAlone, Busy, Over, StillTrue
<1>10. QED
  BY <1>5, <1>6, <1>7, <1>8, <1>9 DEF GrantsIInv

-----------------------------------------------------------------------------
(* What a server is at next. *)
LEMMA StartsIs ==
  ASSUME GrantsTypeOK, NEW h \in Handler, NEW op \in GrantOps, NEW of \in 0..MaxGrants, NEW read \in Said,
         Starts(h, op, of, read)
  PROVE  /\ call' \in [Handler -> Call] /\ crossed' \in BOOLEAN
         /\ call'[h].op = op /\ call'[h].of = of /\ call'[h].read = read
         /\ \A i \in Handler \ {h} : call'[i] = call[i]
         /\ ~crossed' => ~crossed /\ \A i \in Handler : call[i].op = "none"
<1> DEFINE q == [op |-> op, of |-> of, read |-> read]
<1>1. q \in Call
  BY DEF Call
<1>2. call' = [call EXCEPT ![h] = q] /\ crossed' = (crossed \/ \E i \in Handler : Busy(i))
  BY DEF Starts
<1>3. q.op = op /\ q.of = of /\ q.read = read
  OBVIOUS
<1> HIDE DEF q
<1>4. call' \in [Handler -> Call] /\ call'[h] = q /\ \A i \in Handler \ {h} : call'[i] = call[i]
  BY <1>1, <1>2, GrantTypes
<1>5. crossed' \in BOOLEAN /\ (~crossed' => ~crossed /\ \A i \in Handler : call[i].op = "none")
  BY <1>2 DEF Busy
<1>6. QED
  BY <1>3, <1>4, <1>5

LEMMA GoesIs ==
  ASSUME GrantsTypeOK, NEW h \in Handler, NEW op \in GrantOps, Goes(h, op)
  PROVE  /\ call' \in [Handler -> Call] /\ crossed' = crossed
         /\ call'[h].op = op /\ call'[h].of = call[h].of
         /\ \A i \in Handler \ {h} : call'[i] = call[i]
<1>1. call \in [Handler -> Call] /\ call' = [call EXCEPT ![h].op = op] /\ crossed' = crossed
  BY GrantTypes DEF Goes
<1>2. \A q \in Call : [q EXCEPT !.op = op] \in Call /\ [q EXCEPT !.op = op].op = op /\ [q EXCEPT !.op = op].of = q.of
  BY DEF Call
<1>3. QED
  BY <1>1, <1>2

LEMMA DoneIs ==
  ASSUME GrantsTypeOK, NEW h \in Handler, Done(h)
  PROVE  /\ call' \in [Handler -> Call] /\ crossed' = crossed /\ call'[h].op = "none"
         /\ \A i \in Handler \ {h} : call'[i] = call[i]
<1>1. Free \in Call /\ Free.op = "none"
  BY GrantsAssumption DEF Free, Call, GrantOps, Said
<1>2. QED
  BY <1>1, GrantTypes DEF Done

LEMMA AtOnceIs ==
  ASSUME GrantsTypeOK, AtOnce
  PROVE  /\ call' \in [Handler -> Call] /\ crossed' \in BOOLEAN /\ call' = call
         /\ ~crossed' => ~crossed /\ \A i \in Handler : call[i].op = "none"
BY GrantTypes DEF AtOnce, Busy

-----------------------------------------------------------------------------
(* What keeps each part of the invariant, for the steps that make no grant. *)
LEMMA DescentsStay == ASSUME GrantsTypeOK, Descents, Weaker, made' = made PROVE Descents'
<1>1. \A g \in GrantId : Kind(g)' = Kind(g) /\ From(g)' = From(g) /\ (grant'[g].access => grant[g].access)
  BY DEF Weaker, Same, Kind, From
<1>2. \A c \in GrantId : From(c) \subseteq GrantId
  BY GrantTypes DEF From, Grant
<1>3. OnlyChild'
  BY <1>1 DEF Descents, OnlyChild, Child
<1>4. ASSUME NEW c \in GrantId PROVE Descent(c)'
  <2>1. Descent(c)
    BY DEF Descents
  <2>2. \A g \in From(c) : g \in GrantId
    BY <1>2
  <2>3. QED
    BY <1>1, <2>1, <2>2 DEF Descent
<1>5. QED
  BY <1>3, <1>4 DEF Descents

LEMMA CallsStay ==
  ASSUME GrantsTypeOK, Calls, made' \in Nat, made <= made', \A g \in 1..made : Kind(g)' = Kind(g),
         \A h \in Handler : call'[h] = call[h] \/ CallOf(call[h])'
  PROVE  Calls'
<1>1. \A h \in Handler : call'[h] = call[h] => CallOf(call[h])'
  <2> SUFFICES ASSUME NEW h \in Handler, call'[h] = call[h] PROVE CallOf(call[h])'
    OBVIOUS
  <2>1. CallOf(call[h])
    BY DEF Calls
  <2>2. \A g \in 1..made : g \in 1..made'
    BY Numbers
  <2>3. QED
    BY <2>1, <2>2 DEF CallOf
<1>2. QED
  BY <1>1 DEF Calls

LEMMA TakenStays ==
  ASSUME GrantsTypeOK, GrantsTaken, Weaker, \A h \in Handler, g \in GrantId : GrantsTakes(call'[h], g) => GrantsTakes(call[h], g)
  PROVE  GrantsTaken'
<1>1. \A g \in GrantId : Kind(g)' = Kind(g) /\ From(g)' = From(g) /\ (grant'[g].open => grant[g].open)
  BY DEF Weaker, Same, Kind, From
<1>2. \A g \in GrantId : Childless(g)' <=> Childless(g)
  BY <1>1 DEF Childless
<1>3. QED
  BY <1>1, <1>2 DEF GrantsTaken, Unused, InOneHand, GrantsTakes

LEMMA TakenOver ==
  ASSUME GrantsTypeOK, GrantsTaken, Weaker, NEW h \in Handler, NEW g \in GrantId,
         ~grant'[g].open, Kind(g) = "request" \/ grant[g].open,
         \A i \in Handler \ {h} : call'[i] = call[i], \A f \in GrantId : GrantsTakes(call'[h], f) => f = g
  PROVE  GrantsTaken'
<1>1. \A f \in GrantId : Kind(f)' = Kind(f) /\ From(f)' = From(f) /\ (grant'[f].open => grant[f].open)
  BY DEF Weaker, Same, Kind, From
<1>2. \A f \in GrantId : Childless(f)' <=> Childless(f)
  BY <1>1 DEF Childless
<1>3. \A f \in GrantId : f # g => ~GrantsTakes(call'[h], f)
  OBVIOUS
<1>4. \A f \in GrantId : f # g => (grant'[f].open => Unused(f)') /\ (Kind(f)' # "request" => InOneHand(f)')
  BY <1>1, <1>2, <1>3 DEF GrantsTaken, Unused, InOneHand, GrantsTakes
<1>5. Kind(g)' # "request" => InOneHand(g)'
  <2> SUFFICES ASSUME Kind(g) # "request" PROVE InOneHand(g)'
    BY <1>1
  <2>1. Unused(g)
    BY DEF GrantsTaken
  <2>2. Childless(g)' /\ \A i \in Handler \ {h} : ~GrantsTakes(call'[i], g)
    BY <1>2, <2>1 DEF Unused
  <2>3. QED
    BY <2>2 DEF InOneHand, GrantsTakes
<1>6. QED
  BY <1>4, <1>5 DEF GrantsTaken

(* At the turn of one request, the others rest. *)
LEMMA TurnGoes ==
  ASSUME NEW h \in Handler,
         ~crossed' => /\ \A i \in Handler \ {h} : call'[i].op = "none"
                      /\ \A g \in GrantId : Over(g)' => Spent(g)'
                      /\ StillTrue(call[h])'
  PROVE  GrantsInTurn'
<1> SUFFICES ASSUME ~crossed' PROVE GrantsAlone' /\ (\A g \in GrantId : Over(g)' => Spent(g)')
                                   /\ \A i \in Handler : StillTrue(call[i])'
  BY DEF GrantsInTurn
<1>1. GrantsAlone'
  BY DEF GrantsAlone, Busy
<1>2. \A i \in Handler \ {h} : StillTrue(call[i])'
  BY DEF StillTrue
<1>3. QED
  BY <1>1, <1>2

LEMMA OthersRest ==
  ASSUME GrantsInTurn, ~crossed, NEW h \in Handler, Busy(h)
  PROVE  \A i \in Handler \ {h} : call[i].op = "none"
BY DEF GrantsInTurn, GrantsAlone, Busy

(* Nothing ended is of use again when grants only lose what they were good for. *)
LEMMA OverStays ==
  ASSUME GrantsTypeOK, Weaker, ended' = ended, \A g \in GrantId : grant'[g].said = grant[g].said,
         \A g \in GrantId : Over(g) => Spent(g)
  PROVE  \A g \in GrantId : (Over(g)' <=> Over(g)) /\ (Over(g)' => Spent(g)')
<1>1. \A g \in GrantId : Over(g)' <=> Over(g)
  BY DEF Weaker, Same, Over, From
<1>2. \A g \in GrantId : Spent(g) => Spent(g)'
  BY DEF Weaker, Same, Spent, Kind
<1>3. QED
  BY <1>1, <1>2

LEMMA TurnRests ==
  ASSUME ~crossed' => /\ \A i \in Handler : call'[i].op = "none"
                      /\ \A g \in GrantId : Over(g)' => Spent(g)'
  PROVE  GrantsInTurn'
BY DEF GrantsInTurn, GrantsAlone, Busy, StillTrue

-----------------------------------------------------------------------------
(* A request begins with what it reads. *)
LEMMA StartKeeps ==
  ASSUME GrantsIInv, NEW h \in Handler, NEW op \in GrantOps \ {"code", "issue", "save", "device"},
         NEW of \in 0..MaxGrants, NEW read \in Said,
         Starts(h, op, of, read), UNCHANGED <<accountVars, made, grant, ended>>, op = "key" => of = 0,
         \A q \in Call : q.op = op /\ q.of = of /\ q.read = read => CallOf(q) /\ (~crossed => StillTrue(q))
  PROVE  GrantsIInv'
<1>1. GrantsTypeOK /\ Descents /\ Calls /\ GrantsTaken /\ Ended /\ GrantsInTurn
  BY DEF GrantsIInv
<1>2. /\ call' \in [Handler -> Call] /\ crossed' \in BOOLEAN
      /\ call'[h].op = op /\ call'[h].of = of /\ call'[h].read = read
      /\ \A i \in Handler \ {h} : call'[i] = call[i]
      /\ ~crossed' => ~crossed /\ \A i \in Handler : call[i].op = "none"
  BY <1>1, StartsIs
<1>3. UNCHANGED <<member, active, made, grant, ended>>
  BY DEF accountVars
<1>4. GrantsTypeOK'
  BY <1>1, <1>2, <1>3, GrantTypes
<1>5. Weaker
  BY <1>3 DEF Weaker, Same
<1>6. Descents'
  BY <1>1, <1>3, <1>5, DescentsStay
<1>7. call'[h] \in Call
  BY <1>2
<1>8. CallOf(call'[h]) /\ (~crossed => StillTrue(call'[h]))
  BY <1>2, <1>7
<1>9. Calls'
  <2>1. CallOf(call[h])'
    BY <1>3, <1>8 DEF CallOf, Kind
  <2>2. QED
    BY <1>1, <1>2, <1>3, <2>1, Numbers, CallsStay DEF Kind
<1>10. GrantsTaken'
  <2>1. \A g \in GrantId : ~GrantsTakes(call'[h], g)
    BY <1>1, <1>2, Numbers DEF GrantsTakes
  <2>2. QED
    BY <1>1, <1>2, <1>5, <2>1, TakenStays
<1>11. Ended'
  BY <1>1, <1>3 DEF Ended
<1>12. GrantsInTurn'
  <2>1. ~crossed' => \A g \in GrantId : Over(g)' => Spent(g)'
    BY <1>1, <1>2, <1>3 DEF GrantsInTurn, Over, Spent, From, Kind
  <2>2. ~crossed' => StillTrue(call[h])'
    BY <1>2, <1>3, <1>8 DEF StillTrue, Over, From
  <2>3. QED
    BY <1>2, <2>1, <2>2, TurnGoes
<1>13. QED
  BY <1>4, <1>6, <1>9, <1>10, <1>11, <1>12 DEF GrantsIInv

(* A request goes on, or is done, with grants that lose nothing but what they were good for. *)
LEMMA GoKeeps ==
  ASSUME GrantsIInv, NEW h \in Handler, Busy(h), UNCHANGED <<accountVars, made, ended>>,
         call' \in [Handler -> Call], crossed' = crossed, \A i \in Handler \ {h} : call'[i] = call[i],
         grant' \in [GrantId -> Grant], Weaker, \A g \in GrantId : grant'[g].said = grant[g].said,
         CallOf(call'[h]), ~crossed => StillTrue(call'[h]), call'[h].op \notin {"submit", "poll"}, GrantsTaken'
  PROVE  GrantsIInv'
<1>1. GrantsTypeOK /\ Descents /\ Calls /\ GrantsTaken /\ Ended /\ GrantsInTurn
  BY DEF GrantsIInv
<1>2. UNCHANGED <<member, active, made, ended>>
  BY DEF accountVars
<1>3. GrantsTypeOK'
  BY <1>1, <1>2, GrantTypes
<1>4. Descents'
  BY <1>1, <1>2, DescentsStay
<1>5. \A g \in GrantId : Kind(g)' = Kind(g) /\ From(g)' = From(g)
  BY DEF Weaker, Same, Kind, From
<1>6. 1..made \subseteq GrantId
  BY <1>1, Numbers
<1>7. Calls'
  <2>1. CallOf(call[h])'
    BY <1>2, <1>5, <1>6 DEF CallOf
  <2>2. QED
    BY <1>1, <1>2, <1>5, <1>6, <2>1, Numbers, CallsStay
<1>8. Ended'
  BY <1>1, <1>2 DEF Ended
<1>9. GrantsInTurn'
  <2> SUFFICES ASSUME ~crossed
               PROVE  /\ \A i \in Handler \ {h} : call'[i].op = "none"
                      /\ \A g \in GrantId : Over(g)' => Spent(g)'
                      /\ StillTrue(call[h])'
    BY TurnGoes
  <2>0. StillTrue(call'[h])
    OBVIOUS
  <2>1. \A i \in Handler \ {h} : call'[i].op = "none"
    BY <1>1, OthersRest
  <2>2. \A g \in GrantId : (Over(g)' <=> Over(g)) /\ (Over(g)' => Spent(g)')
    <3>1. \A g \in GrantId : Over(g) => Spent(g)
      BY <1>1 DEF GrantsInTurn
    <3>2. QED
      BY <1>1, <1>2, <3>1, OverStays
  <2>3. StillTrue(call[h])'
    <3>1. ASSUME call'[h].op \in {"consent", "code", "issue", "save", "device", "key"}, call'[h].of # 0
          PROVE  ~Over(call[h].of)'
      <4>1. call'[h].of \in GrantId
        BY <1>6, <3>1 DEF CallOf
      <4>2. ~Over(call'[h].of)
        BY <2>0, <3>1 DEF StillTrue
      <4>3. QED
        BY <2>2, <4>1, <4>2
    <3>2. QED
      BY <3>1 DEF StillTrue
  <2>4. QED
    BY <2>1, <2>2, <2>3
<1>10. QED
  BY <1>3, <1>4, <1>7, GrantsTaken', <1>8, <1>9 DEF GrantsIInv

(* Ending grants in one transaction, of which none has a descendant that is of use. *)
LEMMA EndKeeps ==
  ASSUME GrantsIInv, call' \in [Handler -> Call], crossed' \in BOOLEAN,
         member' \in BOOLEAN, active' \in BOOLEAN, made' = made,
         grant' \in [GrantId -> Grant], Weaker, \A g \in GrantId : grant'[g].said = grant[g].said,
         ended' \subseteq 1..made,
         ~crossed' => /\ ~crossed
                      /\ \A g \in GrantId : Over(g)' => Over(g) \/ Spent(g)',
         Calls', GrantsTaken', ~crossed' /\ (\A g \in GrantId : Over(g)' => Spent(g)') => GrantsInTurn'
  PROVE  GrantsIInv'
<1>1. GrantsTypeOK /\ Descents /\ Calls /\ GrantsTaken /\ Ended /\ GrantsInTurn
  BY DEF GrantsIInv
<1>2. 1..made \subseteq GrantId
  BY <1>1, Numbers
<1>3. GrantsTypeOK'
  BY <1>1, <1>2, GrantTypes
<1>4. Descents'
  BY <1>1, DescentsStay
<1>5. Ended'
  BY DEF Ended
<1>6. ~crossed' => \A g \in GrantId : Over(g)' => Spent(g)'
  <2>1. \A g \in GrantId : Spent(g) => Spent(g)'
    BY DEF Weaker, Same, Spent, Kind
  <2>2. QED
    BY <1>1, <2>1 DEF GrantsInTurn
<1>7. GrantsInTurn'
  BY <1>6 DEF GrantsInTurn
<1>8. QED
  BY <1>3, <1>4, <1>5, <1>7 DEF GrantsIInv

LEMMA AtOnceKeeps ==
  ASSUME GrantsIInv, AtOnce, member' \in BOOLEAN, active' \in BOOLEAN, made' = made,
         grant' \in [GrantId -> Grant], Weaker, \A g \in GrantId : grant'[g].said = grant[g].said,
         ended' \subseteq 1..made,
         ~crossed => \A g \in GrantId : Over(g)' => Over(g) \/ Spent(g)'
  PROVE  GrantsIInv'
<1>1. GrantsTypeOK /\ Descents /\ Calls /\ GrantsTaken /\ Ended /\ GrantsInTurn
  BY DEF GrantsIInv
<1>2. /\ call' \in [Handler -> Call] /\ crossed' \in BOOLEAN /\ call' = call
      /\ ~crossed' => ~crossed /\ \A i \in Handler : call[i].op = "none"
  BY <1>1, AtOnceIs
<1>3. GrantsTaken'
  BY <1>1, <1>2, TakenStays
<1>4. Calls'
  <2>1. 1..made \subseteq GrantId /\ made \in Nat
    BY <1>1, Numbers
  <2>2. \A g \in 1..made : Kind(g)' = Kind(g)
    BY <2>1 DEF Weaker, Same, Kind
  <2>3. QED
    BY <1>1, <1>2, <2>1, <2>2, CallsStay
<1>5. ~crossed' /\ (\A g \in GrantId : Over(g)' => Spent(g)') => GrantsInTurn'
  BY <1>2, TurnRests
<1>6. QED
  BY <1>2, <1>3, <1>4, <1>5, EndKeeps

(* What is still open has no descendants, and the descendants of a pair of tokens are pairs of tokens. *)
LEMMA OnlyTokensLive ==
  ASSUME GrantsIInv, NEW g \in GrantId, NEW c \in GrantId, g \in From(c)
  PROVE  ~grant[g].open /\ (grant[g].access => Kind(g) = "tokens" /\ Kind(c) = "tokens")
<1>1. ~grant[g].open
  BY DEF GrantsIInv, GrantsTaken, Unused, Childless
<1>2. Descent(g) /\ Descent(c)
  BY DEF GrantsIInv, Descents
<1>3. QED
  BY <1>1, <1>2 DEF Descent

-----------------------------------------------------------------------------
(* A new grant, of none or of one that whoever makes it has taken. *)
LEMMA MakesKeeps ==
  ASSUME GrantsIInv, NEW kind \in GrantKind, NEW of \in 0..made, Made(kind, of),
         UNCHANGED <<accountVars, ended>>, call' \in [Handler -> Call], crossed' \in BOOLEAN,
         of # 0 => \E h \in Handler : GrantsTakes(call[h], of),
         \A h \in Handler : call'[h] = call[h] \/ call'[h].op = "none",
         of # 0 /\ Kind(of) # "request" => \A h \in Handler : ~GrantsTakes(call'[h], of),
         kind \in {"request", "device"} => of = 0,
         of # 0 => Kind(of) \in {"request", "device"} \/ kind = "tokens",
         ~crossed' => ~crossed /\ \A h \in Handler : call'[h].op = "none"
  PROVE  GrantsIInv'
<1>1. GrantsTypeOK /\ Descents /\ Calls /\ GrantsTaken /\ Ended /\ GrantsInTurn
  BY DEF GrantsIInv
<1>2. UNCHANGED <<member, active, ended>>
  BY DEF accountVars
<1>0. PICK c : c = made + 1
  OBVIOUS
<1>3. /\ c \in GrantId /\ made' = c /\ made' \in 0..MaxGrants
      /\ grant' \in [GrantId -> Grant]
      /\ \A g \in GrantId : g # c => grant'[g] = grant[g]
      /\ grant'[c].kind = kind /\ grant'[c].open
      /\ grant'[c].access <=> kind = "tokens"
      /\ grant'[c].from = IF of = 0 THEN {} ELSE {of} \cup From(of)
  BY <1>0, <1>1, MadeIs
<1>4. /\ made \in Nat /\ 1..made \subseteq GrantId /\ \A g \in GrantId : g \in Nat /\ g # 0
      /\ \A g \in GrantId : g \in 1..made \/ g > made
      /\ of # 0 => of \in GrantId /\ of \in 1..made
  BY <1>1, Numbers
<1>5. GrantsTypeOK'
  BY <1>1, <1>2, <1>3, GrantTypes
<1>6. \A g \in GrantId : g # c => Kind(g)' = Kind(g) /\ From(g)' = From(g)
  BY <1>3 DEF Kind, From
<1>7. Kind(c)' = kind /\ From(c)' = IF of = 0 THEN {} ELSE {of} \cup From(of)
  BY <1>3 DEF Kind, From
<1>8. \A g \in GrantId : From(g) \subseteq GrantId /\ \A f \in From(g) : f < g
  <2>1. \A g \in GrantId : From(g) \subseteq GrantId
    BY <1>1, GrantTypes DEF From, Grant
  <2>2. QED
    BY <1>1, <2>1 DEF Descents, Descent
<1>9. c = made + 1 /\ c \notin 1..made
  BY <1>0, <1>4
<1>10. \A g \in GrantId : c \notin From(g)
  <2>1. \A g \in GrantId : g > made => From(g) = {}
    BY <1>1 DEF Descents, Descent
  <2>2. QED
    BY <1>4, <1>8, <1>9, <2>1
<1>11. of # 0 => Childless(of) \/ Kind(of) = "request"
  BY <1>1, <1>4 DEF GrantsTaken, InOneHand
<1>12. Descents'
  <2>1. OnlyChild'
    <3> SUFFICES ASSUME NEW g \in GrantId, NEW x \in GrantId, NEW y \in GrantId, Kind(g)' # "request",
                        Child(g, x)', Child(g, y)', x = c, y # c
                 PROVE  FALSE
      <4>1. ASSUME NEW g \in GrantId, NEW x \in GrantId, NEW y \in GrantId, Kind(g)' # "request",
                   Child(g, x)', Child(g, y)', x # c, y # c
            PROVE  x = y
        <5>1. g # c
          BY <1>6, <1>10, <4>1 DEF Child
        <5>2. Child(g, x) /\ Child(g, y) /\ Kind(g) # "request"
          BY <1>6, <4>1, <5>1 DEF Child
        <5>3. QED
          BY <1>1, <5>2 DEF Descents, OnlyChild
      <4>2. QED
        BY <4>1 DEF OnlyChild
    <3>1. g # c /\ g \in From(y)
      BY <1>6, <1>10 DEF Child
    <3>2. of # 0 /\ {of} \cup From(of) = {g} \cup From(g)
      BY <1>6, <1>7, <3>1 DEF Child
    <3>3. of = g
      <4>1. of \in GrantId /\ of \in {g} \cup From(g) /\ g \in {of} \cup From(of)
        BY <1>4, <3>2
      <4>2. \A f \in From(g) : f < g
        BY <1>8
      <4>3. \A f \in From(of) : f < of
        BY <1>8, <4>1
      <4>4. of = g \/ (of < g /\ g < of)
        BY <4>1, <4>2, <4>3
      <4>5. QED
        BY <1>4, <4>1, <4>4
    <3>4. Childless(g)
      BY <1>6, <1>11, <3>1, <3>2, <3>3
    <3>5. QED
      BY <3>1, <3>4 DEF Childless
  <2>2. ASSUME NEW g \in GrantId, g # c PROVE Descent(g)'
    <3>1. Descent(g)
      BY <1>1 DEF Descents
    <3>2. \A f \in From(g) : f # c /\ f \in GrantId
      BY <1>8, <1>10
    <3>3. g > made' => g > made
      <4>1. made' = made + 1 /\ made \in Nat /\ g \in Nat
        BY <1>3, <1>4, <1>9
      <4>2. QED
        BY <4>1
    <3>4. Kind(g)' = Kind(g) /\ From(g)' = From(g) /\ grant'[g].access = grant[g].access
      BY <1>3, <1>6, <2>2
    <3>5. \A f \in From(g) : Kind(f)' = Kind(f) /\ From(f)' = From(f)
      BY <1>6, <3>2
    <3>6. QED
      BY <3>1, <3>3, <3>4, <3>5 DEF Descent
  <2>3. Descent(c)'
    <3>1. CASE of = 0
      BY <1>3, <1>4, <1>7, <1>9, <3>1 DEF Descent
    <3>2. CASE of # 0
      <4>1. of \in GrantId /\ of # c /\ of < c /\ From(of)' = From(of) /\ Kind(of)' = Kind(of)
        BY <1>4, <1>6, <1>9, <3>2
      <4>2. \A f \in From(of) : f \in GrantId /\ f # c /\ From(f)' = From(f) /\ Kind(f)' = Kind(f)
        BY <1>6, <1>8, <1>10, <4>1
      <4>3. \A f \in From(of) : f < c /\ From(f) \subseteq From(of)
        <5>1. \A f \in From(of) : f < of /\ From(f) \subseteq From(of)
          BY <1>1, <4>1 DEF Descents, Descent
        <5>2. of \in Nat /\ c \in Nat /\ \A f \in From(of) : f \in Nat
          BY <1>3, <1>4, <4>1, <4>2
        <5>3. QED
          BY <4>1, <5>1, <5>2
      <4>4. \A f \in {of} \cup From(of) : Kind(f) = "tokens" => kind = "tokens"
        <5>1. Kind(of) \in {"request", "device"} => From(of) = {}
          BY <1>1, <4>1 DEF Descents, Descent
        <5>2. QED
          BY <3>2, <5>1
      <4>5. From(c)' = {of} \cup From(of) /\ Kind(c)' = kind /\ kind \notin {"request", "device"}
        BY <1>7, <3>2
      <4>6. ~(c > made') /\ (grant'[c].access => kind = "tokens")
        BY <1>3, <1>4, <1>9
      <4>7. \A f \in From(c)' : f < c /\ From(f)' \subseteq From(c)' /\ (Kind(f)' = "tokens" => Kind(c)' = "tokens")
        BY <4>1, <4>2, <4>3, <4>4, <4>5
      <4>8. QED
        BY <4>5, <4>6, <4>7 DEF Descent
    <3>3. QED
      BY <3>1, <3>2
  <2>4. QED
    BY <2>1, <2>2, <2>3 DEF Descents
<1>13. Calls'
  <2>1. \A h \in Handler : call'[h].op = "none" => CallOf(call[h])'
    BY DEF CallOf
  <2>2. \A g \in 1..made : Kind(g)' = Kind(g)
    BY <1>4, <1>6, <1>9
  <2>3. made' \in Nat /\ made <= made'
    BY <1>3, <1>4, <1>9
  <2>4. QED
    BY <1>1, <2>1, <2>2, <2>3, CallsStay
<1>14. GrantsTaken'
  <2>1. \A h \in Handler, g \in GrantId : GrantsTakes(call'[h], g) =>
          GrantsTakes(call[h], g) /\ g # c /\ (Kind(g) # "request" => g # of)
    <3>1. \A h \in Handler, g \in GrantId : GrantsTakes(call[h], g) => g \in 1..made
      BY <1>1, <1>4 DEF Calls, CallOf, GrantsTakes
    <3>2. QED
      BY <1>4, <1>9, <3>1 DEF GrantsTakes
  <2>2. \A g \in GrantId : g # c /\ Childless(g) /\ (of = 0 \/ g # of) => Childless(g)'
    <3>1. of # 0 => of \in GrantId
      BY <1>4
    <3>2. QED
      BY <1>6, <1>7, <3>1 DEF Childless
  <2>3. Childless(c)'
    <3>1. c \notin From(c)'
      BY <1>4, <1>7, <1>9, <1>10
    <3>2. QED
      BY <1>6, <1>10, <3>1 DEF Childless
  <2>4. \A g \in GrantId : g # c /\ grant'[g].open => Unused(g)'
    <3>1. \A g \in GrantId : g # c /\ grant'[g].open => Unused(g)
      BY <1>1, <1>3 DEF GrantsTaken
    <3>2. \A g \in GrantId : Unused(g) => of = 0 \/ g # of
      BY DEF Unused
    <3>3. QED
      BY <2>1, <2>2, <3>1, <3>2 DEF Unused
  <2>5. Unused(c)' /\ InOneHand(c)'
    BY <1>3, <2>1, <2>3 DEF Unused, InOneHand
  <2>6. \A g \in GrantId : g # c /\ Kind(g)' # "request" => InOneHand(g)'
    <3>1. \A g \in GrantId : g # c /\ Kind(g)' # "request" => InOneHand(g)
      BY <1>1, <1>6 DEF GrantsTaken
    <3>2. QED
      BY <1>6, <2>1, <2>2, <3>1 DEF InOneHand
  <2>7. QED
    BY <2>4, <2>5, <2>6 DEF GrantsTaken
<1>15. Ended'
  BY <1>1, <1>2, <1>3, <1>4, <1>9 DEF Ended
<1>16. GrantsInTurn'
  <2> SUFFICES ASSUME ~crossed' PROVE \A g \in GrantId : Over(g)' => Spent(g)'
    BY TurnRests
  <2>1. ~crossed /\ \A g \in GrantId : Over(g) => Spent(g)
    BY <1>1 DEF GrantsInTurn
  <2>2. ~Over(c)'
    <3>1. c \notin ended
      BY <1>1, <1>9 DEF Ended
    <3>2. of # 0 => ~Over(of)
      BY <1>1, <2>1 DEF GrantsInTurn, StillTrue, GrantsTakes
    <3>3. From(c)' \cap ended = {}
      BY <1>7, <3>2 DEF Over
    <3>4. QED
      BY <1>2, <3>1, <3>3 DEF Over
  <2>3. \A g \in GrantId : g # c => (Over(g)' <=> Over(g)) /\ (Spent(g)' <=> Spent(g))
    BY <1>2, <1>3, <1>6 DEF Over, Spent, Kind, From
  <2>4. QED
    BY <2>1, <2>2, <2>3
<1>17. QED
  BY <1>5, <1>12, <1>13, <1>14, <1>15, <1>16 DEF GrantsIInv

(* A request that ends leaves what it has taken to nobody. *)
LEMMA RestingKeeps ==
  ASSUME GrantsIInv, NEW h \in Handler, Busy(h), Done(h), UNCHANGED <<accountVars, made, ended>>,
         grant' \in [GrantId -> Grant], Weaker, \A g \in GrantId : grant'[g].said = grant[g].said
  PROVE  GrantsIInv'
<1>1. GrantsTypeOK /\ GrantsTaken
  BY DEF GrantsIInv
<1>2. /\ call' \in [Handler -> Call] /\ crossed' = crossed /\ call'[h].op = "none"
      /\ \A i \in Handler \ {h} : call'[i] = call[i]
  BY <1>1, DoneIs
<1>3. GrantsTaken'
  <2>1. \A i \in Handler, g \in GrantId : GrantsTakes(call'[i], g) => GrantsTakes(call[i], g)
    BY <1>2 DEF GrantsTakes
  <2>2. QED
    BY <1>1, <2>1, TakenStays
<1>4. CallOf(call'[h]) /\ StillTrue(call'[h])
  BY <1>2 DEF CallOf, StillTrue
<1>5. QED
  BY <1>2, <1>3, <1>4, GoKeeps

-----------------------------------------------------------------------------
(* Every step of the server keeps the invariant. *)
LEMMA MakingKeeps ==
  ASSUME GrantsIInv, \/ Authorize \/ StartDevice
                     \/ \E h \in Handler : MintCode(h) \/ SaveTokens(h) \/ CreateKey(h) \/ CreateWebdav(h)
  PROVE  GrantsIInv'
<1>1. GrantsTypeOK /\ Calls /\ GrantsTaken /\ GrantsInTurn
  BY DEF GrantsIInv
<1>2. made \in Nat /\ 0 \in 0..made /\ 1..made \subseteq 0..made /\ 1..made \subseteq GrantId /\ 0 \notin 1..made
  BY <1>1, Numbers
<1>3. ASSUME NEW kind \in {"request", "device"}, Made(kind, 0), AtOnce, UNCHANGED <<accountVars, ended>>
      PROVE  GrantsIInv'
  <2>1. kind \in GrantKind
    BY DEF GrantKind
  <2>2. /\ call' \in [Handler -> Call] /\ crossed' \in BOOLEAN /\ call' = call
        /\ ~crossed' => ~crossed /\ \A i \in Handler : call[i].op = "none"
    BY <1>1, <1>3, AtOnceIs
  <2>3. QED
    BY <1>2, <1>3, <2>1, <2>2, MakesKeeps
<1>4. ASSUME NEW h \in Handler, Done(h), Busy(h), UNCHANGED <<accountVars, ended>>
      PROVE  /\ call' \in [Handler -> Call] /\ crossed' \in BOOLEAN /\ call'[h].op = "none"
             /\ \A i \in Handler \ {h} : call'[i] = call[i]
             /\ \A i \in Handler : call'[i] = call[i] \/ call'[i].op = "none"
             /\ ~crossed' => ~crossed /\ \A i \in Handler : call'[i].op = "none"
  <2>1. /\ call' \in [Handler -> Call] /\ crossed' = crossed /\ call'[h].op = "none"
        /\ \A i \in Handler \ {h} : call'[i] = call[i]
    BY <1>1, <1>4, DoneIs
  <2>2. ~crossed => \A i \in Handler \ {h} : call[i].op = "none"
    BY <1>1, <1>4, OthersRest
  <2>3. crossed' \in BOOLEAN
    BY <1>1, <2>1, GrantTypes
  <2>4. QED
    BY <2>1, <2>2, <2>3
<1>5. ASSUME NEW h \in Handler, NEW kind \in {"code", "tokens", "key"}, NEW of \in 1..made, GrantsTakes(call[h], of),
             Made(kind, of), Done(h), UNCHANGED <<accountVars, ended>>,
             Kind(of) \in {"request", "device"} \/ kind = "tokens"
      PROVE  GrantsIInv'
  <2>1. kind \in GrantKind /\ kind \notin {"request", "device"}
    BY DEF GrantKind
  <2>2. Busy(h)
    BY <1>5 DEF GrantsTakes, Busy
  <2>3. /\ call' \in [Handler -> Call] /\ crossed' \in BOOLEAN /\ call'[h].op = "none"
        /\ \A i \in Handler \ {h} : call'[i] = call[i]
        /\ \A i \in Handler : call'[i] = call[i] \/ call'[i].op = "none"
        /\ ~crossed' => ~crossed /\ \A i \in Handler : call'[i].op = "none"
    BY <1>4, <1>5, <2>2
  <2>4. Kind(of) # "request" => \A i \in Handler : ~GrantsTakes(call'[i], of)
    <3>1. of \in GrantId
      BY <1>2
    <3>2. Kind(of) # "request" => \A i \in Handler \ {h} : ~GrantsTakes(call[i], of)
      BY <1>1, <1>5, <3>1 DEF GrantsTaken, InOneHand
    <3>3. ~GrantsTakes(call'[h], of)
      BY <2>3 DEF GrantsTakes
    <3>4. QED
      BY <2>3, <3>2, <3>3
  <2>5. of \in 0..made
    BY <1>2
  <2>6. QED
    BY <1>5, <2>1, <2>3, <2>4, <2>5, MakesKeeps
<1>6. ASSUME NEW h \in Handler, NEW kind \in {"key", "webdav"}, Made(kind, 0), Done(h), Busy(h),
             UNCHANGED <<accountVars, ended>>
      PROVE  GrantsIInv'
  <2>1. kind \in GrantKind /\ kind \notin {"request", "device"}
    BY DEF GrantKind
  <2>2. /\ call' \in [Handler -> Call] /\ crossed' \in BOOLEAN
        /\ \A i \in Handler : call'[i] = call[i] \/ call'[i].op = "none"
        /\ ~crossed' => ~crossed /\ \A i \in Handler : call'[i].op = "none"
    BY <1>4, <1>6
  <2>3. QED
    BY <1>2, <1>6, <2>1, <2>2, MakesKeeps
<1>7. CASE Authorize
  BY <1>3, <1>7 DEF Authorize
<1>8. CASE StartDevice
  BY <1>3, <1>8 DEF StartDevice
<1>9. ASSUME NEW h \in Handler, MintCode(h) PROVE GrantsIInv'
  <2>1. call[h].op = "code" /\ Made("code", call[h].of) /\ Done(h) /\ UNCHANGED <<accountVars, ended>>
    BY <1>9 DEF MintCode
  <2>2. call[h].of \in 1..made /\ Kind(call[h].of) = "request"
    BY <1>1, <2>1 DEF Calls, CallOf
  <2>3. QED
    BY <1>5, <2>1, <2>2 DEF GrantsTakes
<1>10. ASSUME NEW h \in Handler, SaveTokens(h) PROVE GrantsIInv'
  <2>1. call[h].op = "save" /\ Made("tokens", call[h].of) /\ Done(h) /\ UNCHANGED <<accountVars, ended>>
    BY <1>10 DEF SaveTokens
  <2>2. call[h].of \in 1..made
    BY <1>1, <2>1 DEF Calls, CallOf
  <2>3. QED
    BY <1>5, <2>1, <2>2 DEF GrantsTakes
<1>11. ASSUME NEW h \in Handler, CreateKey(h) PROVE GrantsIInv'
  <2>1. call[h].op = "key" /\ Made("key", call[h].of) /\ Done(h) /\ UNCHANGED <<accountVars, ended>>
    BY <1>11 DEF CreateKey
  <2>2. call[h].of = 0 \/ (call[h].of \in 1..made /\ Kind(call[h].of) = "device")
    BY <1>1, <2>1 DEF Calls, CallOf
  <2>3. CASE call[h].of = 0
    BY <1>6, <2>1, <2>3 DEF Busy
  <2>4. CASE call[h].of # 0
    BY <1>5, <2>1, <2>2, <2>4 DEF GrantsTakes
  <2>5. QED
    BY <2>3, <2>4
<1>12. ASSUME NEW h \in Handler, CreateWebdav(h) PROVE GrantsIInv'
  <2>1. Done(h) /\ Busy(h) /\ UNCHANGED <<accountVars, ended>>
        /\ (Made("webdav", 0) \/ UNCHANGED <<made, grant>>)
    BY <1>12 DEF CreateWebdav, Busy
  <2>2. CASE Made("webdav", 0)
    BY <1>6, <2>1, <2>2
  <2>3. CASE UNCHANGED <<made, grant>>
    <3>1. grant' \in [GrantId -> Grant] /\ Weaker /\ \A g \in GrantId : grant'[g].said = grant[g].said
      BY <1>1, <2>3, GrantTypes DEF Weaker, Same
    <3>2. QED
      BY <2>1, <2>3, <3>1, RestingKeeps
  <2>4. QED
    BY <2>1, <2>2, <2>3
<1>13. QED
  BY <1>7, <1>8, <1>9, <1>10, <1>11, <1>12

LEMMA BeginningKeeps ==
  ASSUME GrantsIInv, NEW h \in Handler,
         CheckConsent(h) \/ LoadCode(h) \/ LoadRefresh(h) \/ CheckSubmit(h) \/ Poll(h) \/ CheckKey(h)
  PROVE  GrantsIInv'
<1>1. GrantsTypeOK /\ GrantsInTurn
  BY DEF GrantsIInv
<1>2. 1..made \subseteq 0..MaxGrants /\ 0 \in 0..MaxGrants /\ 1..made \subseteq GrantId /\ "pending" \in Said
  BY <1>1, Numbers, GrantsAssumption DEF Said
<1>3. ASSUME NEW g \in 1..made, Starts(h, "consent", g, "pending"), Kind(g) = "request", grant[g].open,
             UNCHANGED <<accountVars, made, grant, ended>>
      PROVE  GrantsIInv'
  <2>1. ~crossed => ~Over(g)
    <3>1. g \in GrantId
      BY <1>2
    <3>2. QED
      BY <1>1, <1>3, <3>1 DEF GrantsInTurn, Spent
  <2>2. \A q \in Call : q.op = "consent" /\ q.of = g => CallOf(q) /\ (~crossed => StillTrue(q))
    BY <1>3, <2>1 DEF CallOf, StillTrue
  <2>3. "consent" \in GrantOps \ {"code", "issue", "save", "device"}
    BY DEF GrantOps
  <2>4. g \in 0..MaxGrants
    BY <1>2
  <2>5. QED
    BY <1>2, <1>3, <2>2, <2>3, <2>4, StartKeeps
<1>4. ASSUME NEW op \in {"exchange", "refresh"}, NEW g \in 1..made, Starts(h, op, g, "pending"),
             Kind(g) \in {"code", "tokens"}, UNCHANGED <<accountVars, made, grant, ended>>
      PROVE  GrantsIInv'
  <2>1. \A q \in Call : q.op = op /\ q.of = g => CallOf(q) /\ (~crossed => StillTrue(q))
    BY <1>4 DEF CallOf, StillTrue
  <2>2. op \in GrantOps \ {"code", "issue", "save", "device"} /\ op # "key"
    BY DEF GrantOps
  <2>3. g \in 0..MaxGrants
    BY <1>2
  <2>4. QED
    BY <1>2, <1>4, <2>1, <2>2, <2>3, StartKeeps
<1>5. ASSUME NEW op \in {"submit", "poll"}, NEW g \in 1..made, NEW read \in Said, Starts(h, op, g, read),
             Kind(g) = "device", op = "submit" => grant[g].open /\ grant[g].said = "pending",
             op = "poll" => grant[g].said = read, UNCHANGED <<accountVars, made, grant, ended>>
      PROVE  GrantsIInv'
  <2>1. \A q \in Call : q.op = op /\ q.of = g /\ q.read = read => CallOf(q) /\ (~crossed => StillTrue(q))
    BY <1>5 DEF CallOf, StillTrue
  <2>2. op \in GrantOps \ {"code", "issue", "save", "device"} /\ op # "key"
    BY DEF GrantOps
  <2>3. g \in 0..MaxGrants
    BY <1>2
  <2>4. QED
    BY <1>5, <2>1, <2>2, <2>3, StartKeeps
<1>6. CASE CheckConsent(h)
  <2>1. PICK g \in 1..made : Starts(h, "consent", g, "pending") /\ Kind(g) = "request" /\ grant[g].open
    BY <1>6 DEF CheckConsent, Open, Kind
  <2>2. UNCHANGED <<accountVars, made, grant, ended>>
    BY <1>6 DEF CheckConsent
  <2>3. QED
    BY <1>3, <2>1, <2>2
<1>7. CASE LoadCode(h)
  <2>1. PICK g \in 1..made : Starts(h, "exchange", g, "pending") /\ Kind(g) = "code"
    BY <1>7 DEF LoadCode, Open, Kind
  <2>2. UNCHANGED <<accountVars, made, grant, ended>>
    BY <1>7 DEF LoadCode
  <2>3. QED
    BY <1>4, <2>1, <2>2
<1>8. CASE LoadRefresh(h)
  <2>1. PICK g \in 1..made : Starts(h, "refresh", g, "pending") /\ Kind(g) = "tokens"
    BY <1>8 DEF LoadRefresh, Open, Kind
  <2>2. UNCHANGED <<accountVars, made, grant, ended>>
    BY <1>8 DEF LoadRefresh
  <2>3. QED
    BY <1>4, <2>1, <2>2
<1>9. CASE CheckSubmit(h)
  <2>1. PICK g \in Open("device"), verdict \in {"approved", "denied"} :
          grant[g].said = "pending" /\ Starts(h, "submit", g, verdict)
    BY <1>9 DEF CheckSubmit
  <2>2. g \in 1..made /\ Kind(g) = "device" /\ grant[g].open
    BY DEF Open, Kind
  <2>3. UNCHANGED <<accountVars, made, grant, ended>>
    BY <1>9 DEF CheckSubmit
  <2>4. verdict \in Said
    BY DEF Said
  <2>5. QED
    BY <1>5, <2>1, <2>2, <2>3, <2>4
<1>10. CASE Poll(h)
  <2>1. PICK g \in Open("device") : Starts(h, "poll", g, grant[g].said)
    BY <1>10 DEF Poll
  <2>2. g \in 1..made /\ Kind(g) = "device"
    BY DEF Open, Kind
  <2>3. UNCHANGED <<accountVars, made, grant, ended>>
    BY <1>10 DEF Poll
  <2>4. grant[g].said \in Said
    <3>1. g \in GrantId /\ grant \in [GrantId -> Grant]
      BY <1>1, <1>2, <2>2, GrantTypes
    <3>2. QED
      BY <3>1 DEF Grant
  <2>5. QED
    BY <1>5, <2>1, <2>2, <2>3, <2>4
<1>11. CASE CheckKey(h)
  <2>1. Starts(h, "key", 0, "pending") /\ UNCHANGED <<accountVars, made, grant, ended>>
    BY <1>11 DEF CheckKey
  <2>2. \A q \in Call : q.op = "key" /\ q.of = 0 => CallOf(q) /\ (~crossed => StillTrue(q))
    BY DEF CallOf, StillTrue
  <2>3. "key" \in GrantOps \ {"code", "issue", "save", "device"}
    BY DEF GrantOps
  <2>4. QED
    BY <1>2, <2>1, <2>2, <2>3, StartKeeps
<1>12. QED
  BY <1>6, <1>7, <1>8, <1>9, <1>10, <1>11

(* Who takes what is still there has it alone. *)
LEMMA TakingKeeps ==
  ASSUME GrantsIInv, NEW h \in Handler, Busy(h), NEW op \in {"code", "issue", "device"}, Goes(h, op),
         UNCHANGED <<accountVars, made, ended>>, NEW g \in 1..made, call[h].of = g,
         grant' \in [GrantId -> Grant], Weaker, \A f \in GrantId : grant'[f].said = grant[f].said,
         ~grant'[g].open,
         op = "code" => Kind(g) = "request" /\ call[h].op = "consent",
         op = "issue" => Kind(g) \in {"code", "tokens"} /\ grant[g].open,
         op = "device" => /\ Kind(g) = "device" /\ grant[g].open /\ call[h].op = "poll" /\ call[h].read = "approved"
  PROVE  GrantsIInv'
<1>1. GrantsTypeOK /\ GrantsTaken /\ GrantsInTurn
  BY DEF GrantsIInv
<1>2. op \in GrantOps
  BY DEF GrantOps
<1>3. /\ call' \in [Handler -> Call] /\ crossed' = crossed
      /\ call'[h].op = op /\ call'[h].of = g
      /\ \A i \in Handler \ {h} : call'[i] = call[i]
  BY <1>1, <1>2, GoesIs
<1>4. g \in GrantId
  BY <1>1, Numbers
<1>5. CallOf(call'[h])
  BY <1>3 DEF CallOf
<1>6. ~crossed => ~Over(g)
  <2> SUFFICES ASSUME ~crossed PROVE ~Over(g)
    OBVIOUS
  <2>1. StillTrue(call[h]) /\ (Over(g) => Spent(g))
    BY <1>1, <1>4 DEF GrantsInTurn
  <2>2. CASE op = "code"
    <3>1. g # 0
      BY <1>1, <1>4, Numbers
    <3>2. QED
      BY <2>1, <2>2, <3>1 DEF StillTrue
  <2>3. CASE op = "issue"
    BY <2>1, <2>3 DEF Spent
  <2>4. CASE op = "device"
    BY <2>1, <2>4 DEF Spent, StillTrue
  <2>5. QED
    BY <2>2, <2>3, <2>4
<1>7. ~crossed => StillTrue(call'[h])
  BY <1>3, <1>6 DEF StillTrue
<1>8. GrantsTaken'
  <2>1. \A f \in GrantId : GrantsTakes(call'[h], f) => f = g
    BY <1>3 DEF GrantsTakes
  <2>2. Kind(g) = "request" \/ grant[g].open
    OBVIOUS
  <2>3. QED
    BY <1>1, <1>3, <1>4, <2>1, <2>2, TakenOver
<1>9. QED
  BY <1>3, <1>5, <1>7, <1>8, GoKeeps

LEMMA GoingKeeps ==
  ASSUME GrantsIInv, NEW h \in Handler,
         Consent(h) \/ TakeCode(h) \/ TakeRefresh(h) \/ CheckAccount(h) \/ DropDevice(h) \/ CheckDevice(h)
  PROVE  GrantsIInv'
<1>1. GrantsTypeOK /\ Calls /\ GrantsTaken /\ GrantsInTurn
  BY DEF GrantsIInv
<1> DEFINE g == call[h].of
<1>2. /\ call[h].op = "consent" => g \in 1..made /\ Kind(g) = "request"
      /\ call[h].op \in {"poll", "device"} => g \in 1..made /\ Kind(g) = "device"
      /\ call[h].op \in {"exchange", "refresh", "issue"} => g \in 1..made /\ Kind(g) \in {"code", "tokens"}
      /\ 1..made \subseteq GrantId
  BY <1>1, Numbers DEF Calls, CallOf
<1>3. CASE Consent(h)
  <2>1. Busy(h) /\ call[h].op = "consent" /\ Closed({g}) /\ Goes(h, "code") /\ UNCHANGED <<accountVars, made, ended>>
    BY <1>3 DEF Consent, Busy
  <2>2. /\ grant' \in [GrantId -> Grant] /\ Weaker /\ (\A f \in GrantId : grant'[f].said = grant[f].said)
        /\ ~grant'[g].open
    BY <1>1, <1>2, <2>1, ClosedIs
  <2>3. QED
    BY <1>2, <2>1, <2>2, TakingKeeps
<1>4. CASE TakeCode(h)
  <2>1. /\ Busy(h) /\ call[h].op = "exchange" /\ Closed({g}) /\ UNCHANGED <<accountVars, made, ended>>
        /\ (grant[g].open /\ Goes(h, "issue")) \/ Done(h)
    BY <1>4 DEF TakeCode, Busy
  <2>2. /\ grant' \in [GrantId -> Grant] /\ Weaker /\ (\A f \in GrantId : grant'[f].said = grant[f].said)
        /\ ~grant'[g].open
    BY <1>1, <1>2, <2>1, ClosedIs
  <2>3. CASE grant[g].open /\ Goes(h, "issue")
    BY <1>2, <2>1, <2>2, <2>3, TakingKeeps
  <2>4. CASE Done(h)
    BY <2>1, <2>2, <2>4, RestingKeeps
  <2>5. QED
    BY <2>1, <2>3, <2>4
<1>5. CASE TakeRefresh(h)
  <2>1. /\ Busy(h) /\ call[h].op = "refresh" /\ UNCHANGED <<accountVars, made, ended>>
        /\ grant' = [grant EXCEPT ![g].open = FALSE]
        /\ (grant[g].open /\ Goes(h, "issue")) \/ Done(h)
    BY <1>5 DEF TakeRefresh, Busy
  <2>2. /\ grant' \in [GrantId -> Grant] /\ Weaker /\ (\A f \in GrantId : grant'[f].said = grant[f].said)
        /\ ~grant'[g].open
    <3>1. g \in GrantId /\ grant \in [GrantId -> Grant]
      BY <1>1, <1>2, <2>1, GrantTypes
    <3>2. \A r \in Grant :
            /\ [r EXCEPT !.open = FALSE] \in Grant /\ ~[r EXCEPT !.open = FALSE].open
            /\ [r EXCEPT !.open = FALSE].kind = r.kind /\ [r EXCEPT !.open = FALSE].from = r.from
            /\ [r EXCEPT !.open = FALSE].said = r.said /\ [r EXCEPT !.open = FALSE].access = r.access
      BY DEF Grant
    <3>3. QED
      BY <2>1, <3>1, <3>2 DEF Weaker, Same
  <2>3. CASE grant[g].open /\ Goes(h, "issue")
    BY <1>2, <2>1, <2>2, <2>3, TakingKeeps
  <2>4. CASE Done(h)
    BY <2>1, <2>2, <2>4, RestingKeeps
  <2>5. QED
    BY <2>1, <2>3, <2>4
<1>6. CASE DropDevice(h)
  <2>1. /\ Busy(h) /\ call[h].op = "poll" /\ Closed({g}) /\ UNCHANGED <<accountVars, made, ended>>
        /\ (grant[g].open /\ call[h].read = "approved" /\ Goes(h, "device")) \/ Done(h)
    BY <1>6 DEF DropDevice, Busy
  <2>2. /\ grant' \in [GrantId -> Grant] /\ Weaker /\ (\A f \in GrantId : grant'[f].said = grant[f].said)
        /\ ~grant'[g].open
    BY <1>1, <1>2, <2>1, ClosedIs
  <2>3. CASE grant[g].open /\ call[h].read = "approved" /\ Goes(h, "device")
    BY <1>2, <2>1, <2>2, <2>3, TakingKeeps
  <2>4. CASE Done(h)
    BY <2>1, <2>2, <2>4, RestingKeeps
  <2>5. QED
    BY <2>1, <2>3, <2>4
<1>7. ASSUME UNCHANGED grant
      PROVE  grant' \in [GrantId -> Grant] /\ Weaker /\ \A f \in GrantId : grant'[f].said = grant[f].said
  BY <1>1, <1>7, GrantTypes DEF Weaker, Same
<1>8. ASSUME NEW op \in {"save", "key"}, op = "save" => call[h].op = "issue", op = "key" => call[h].op = "device",
             Goes(h, op), UNCHANGED <<accountVars, made, grant, ended>>
      PROVE  GrantsIInv'
  <2>1. op \in GrantOps /\ Busy(h)
    BY <1>8 DEF GrantOps, Busy
  <2>2. /\ call' \in [Handler -> Call] /\ crossed' = crossed
        /\ call'[h].op = op /\ call'[h].of = g
        /\ \A i \in Handler \ {h} : call'[i] = call[i]
    BY <1>1, <1>8, <2>1, GoesIs
  <2>3. CallOf(call'[h])
    BY <1>2, <1>8, <2>2 DEF CallOf
  <2>4. ~crossed => StillTrue(call'[h])
    BY <1>1, <1>8, <2>2 DEF GrantsInTurn, StillTrue
  <2>5. GrantsTaken'
    <3>1. \A i \in Handler, f \in GrantId : GrantsTakes(call'[i], f) => GrantsTakes(call[i], f)
      BY <1>8, <2>2 DEF GrantsTakes
    <3>2. QED
      BY <1>1, <1>7, <1>8, <3>1, TakenStays
  <2>6. QED
    BY <1>7, <1>8, <2>1, <2>2, <2>3, <2>4, <2>5, GoKeeps
<1>9. CASE CheckAccount(h)
  <2>1. /\ Busy(h) /\ call[h].op = "issue" /\ UNCHANGED <<accountVars, made, grant, ended>>
        /\ Goes(h, "save") \/ Done(h)
    BY <1>9 DEF CheckAccount, Busy
  <2>2. QED
    BY <1>7, <1>8, <2>1, RestingKeeps
<1>10. CASE CheckDevice(h)
  <2>1. /\ Busy(h) /\ call[h].op = "device" /\ UNCHANGED <<accountVars, made, grant, ended>>
        /\ Goes(h, "key") \/ Done(h)
    BY <1>10 DEF CheckDevice, Busy
  <2>2. QED
    BY <1>7, <1>8, <2>1, RestingKeeps
<1>11. QED
  BY <1>3, <1>4, <1>5, <1>6, <1>9, <1>10

(* What a person says of a device. *)
LEMMA SubmitKeeps ==
  ASSUME GrantsIInv, NEW h \in Handler, Submit(h)
  PROVE  GrantsIInv'
<1>1. GrantsTypeOK /\ Descents /\ Calls /\ GrantsTaken /\ Ended /\ GrantsInTurn
  BY DEF GrantsIInv
<1>2. PICK g : g = call[h].of
  OBVIOUS
<1>3. /\ call[h].op = "submit" /\ Busy(h) /\ g \in 1..made /\ g \in GrantId
      /\ Kind(g) = "device" /\ call[h].read \in Said
  <2>1. call[h].op = "submit" /\ Busy(h) /\ call[h] \in Call
    BY <1>1, GrantTypes DEF Submit, Busy
  <2>2. QED
    BY <1>1, <1>2, <2>1, Numbers DEF Calls, CallOf, Call
<1>4. /\ grant' \in [GrantId -> Grant] /\ Weaker
      /\ \A f \in GrantId : grant'[f].open = grant[f].open /\ grant'[f].access = grant[f].access
      /\ \A f \in GrantId : f # g => grant'[f].said = grant[f].said
      /\ grant'[g].said = call[h].read
  <2>1. grant \in [GrantId -> Grant] /\ grant' = [grant EXCEPT ![g].said = call[h].read]
    BY <1>1, <1>2, GrantTypes DEF Submit
  <2>2. \A r \in Grant, s \in Said :
          /\ [r EXCEPT !.said = s] \in Grant /\ [r EXCEPT !.said = s].said = s
          /\ [r EXCEPT !.said = s].kind = r.kind /\ [r EXCEPT !.said = s].from = r.from
          /\ [r EXCEPT !.said = s].open = r.open /\ [r EXCEPT !.said = s].access = r.access
    BY DEF Grant
  <2>3. QED
    BY <1>3, <2>1, <2>2 DEF Weaker, Same
<1>5. /\ call' \in [Handler -> Call] /\ crossed' = crossed /\ call'[h].op = "none"
      /\ \A i \in Handler \ {h} : call'[i] = call[i]
  <2>1. Done(h)
    BY DEF Submit
  <2>2. QED
    BY <1>1, <2>1, DoneIs
<1>6. UNCHANGED <<member, active, made>> /\ ended' = IF call[h].read = "denied" THEN ended \cup {g} ELSE ended
  BY <1>2 DEF Submit, accountVars
<1>7. GrantsTypeOK'
  BY <1>1, <1>3, <1>4, <1>5, <1>6, GrantTypes
<1>8. Descents'
  BY <1>1, <1>4, <1>6, DescentsStay
<1>9. Calls'
  <2>1. CallOf(call[h])'
    BY <1>5 DEF CallOf
  <2>2. made \in Nat /\ 1..made \subseteq GrantId
    BY <1>1, Numbers
  <2>3. \A f \in 1..made : Kind(f)' = Kind(f)
    BY <1>4, <2>2 DEF Weaker, Same, Kind
  <2>4. QED
    BY <1>1, <1>5, <1>6, <2>1, <2>2, <2>3, CallsStay
<1>10. GrantsTaken'
  <2>1. \A i \in Handler, f \in GrantId : GrantsTakes(call'[i], f) => GrantsTakes(call[i], f)
    BY <1>5 DEF GrantsTakes
  <2>2. QED
    BY <1>1, <1>4, <2>1, TakenStays
<1>11. Ended'
  BY <1>1, <1>3, <1>6 DEF Ended
<1>12. GrantsInTurn'
  <2> SUFFICES ASSUME ~crossed
               PROVE  /\ \A i \in Handler \ {h} : call'[i].op = "none"
                      /\ \A f \in GrantId : Over(f)' => Spent(f)'
                      /\ StillTrue(call[h])'
    BY <1>5, TurnGoes
  <2>1. \A i \in Handler \ {h} : call'[i].op = "none"
    BY <1>1, <1>3, <1>5, OthersRest
  <2>2. grant[g].open /\ grant[g].said = "pending" /\ \A f \in GrantId : Over(f) => Spent(f)
    BY <1>1, <1>2, <1>3 DEF GrantsInTurn, StillTrue
  <2>3. Childless(g)
    BY <1>1, <1>3, <2>2 DEF GrantsTaken, Unused
  <2>4. ASSUME NEW f \in GrantId, f # g PROVE (Over(f)' => Over(f)) /\ (Spent(f) => Spent(f)')
    BY <1>4, <1>6, <2>3, <2>4 DEF Weaker, Same, Over, Spent, Kind, From, Childless
  <2>5. Over(g)' => Spent(g)'
    <3>1. ~Over(g)
      BY <1>3, <2>2 DEF Spent
    <3>2. ~grant[g].access
      BY <1>1, <1>3 DEF Descents, Descent
    <3>3. Over(g)' => call[h].read = "denied"
      BY <1>3, <1>4, <1>6, <3>1 DEF Weaker, Same, Over, From
    <3>4. Kind(g)' = "device"
      BY <1>3, <1>4 DEF Weaker, Same, Kind
    <3>5. QED
      BY <1>3, <1>4, <3>2, <3>3, <3>4 DEF Spent
  <2>6. StillTrue(call[h])'
    BY <1>5 DEF StillTrue
  <2>7. QED
    BY <2>1, <2>2, <2>4, <2>5, <2>6
<1>13. QED
  BY <1>7, <1>8, <1>9, <1>10, <1>11, <1>12 DEF GrantsIInv

(* Whoever ends open grants, or all pairs of tokens, leaves nothing of use that came from them. *)
LEMMA EndedAreSpent ==
  ASSUME GrantsIInv, NEW gs, NEW es \in SUBSET gs, Closed(gs), ended' = ended \cup es, es \subseteq 1..made,
         \A f \in es : grant[f].open \/ (grant[f].access /\ Tokens \subseteq gs)
  PROVE  \A g \in GrantId : Over(g)' => Over(g) \/ Spent(g)'
<1>1. GrantsTypeOK /\ Descents
  BY DEF GrantsIInv
<1>2. /\ Weaker /\ \A g \in GrantId : g \in gs => ~grant'[g].open /\ ~grant'[g].access
  BY <1>1, ClosedIs
<1> SUFFICES ASSUME NEW g \in GrantId, Over(g)', ~Over(g) PROVE Spent(g)'
  OBVIOUS
<1>3. CASE g \in es
  BY <1>2, <1>3 DEF Spent
<1>4. CASE From(g) \cap es # {}
  <2>1. PICK f \in es : f \in From(g)
    BY <1>4
  <2>2. f \in GrantId /\ g \in 1..made
    BY <1>1, <2>1, Numbers DEF Descents, Descent
  <2>3. ~grant[f].open /\ Kind(g) = "tokens" /\ Tokens \subseteq gs
    BY <2>1, <2>2, OnlyTokensLive
  <2>4. g \in gs \/ (~grant[g].open /\ ~grant[g].access)
    BY <2>2, <2>3 DEF Tokens, Kind
  <2>5. ~grant'[g].open /\ ~grant'[g].access
    BY <1>2, <2>4 DEF Weaker
  <2>6. QED
    BY <2>5 DEF Spent
<1>5. QED
  BY <1>2, <1>3, <1>4 DEF Weaker, Same, Over, From

LEMMA EndingKeeps ==
  ASSUME GrantsIInv, \/ Decline \/ DeviceExpires \/ RevokeKey \/ Disconnect \/ RevokeGrant \/ RemoveMember
                     \/ Rejoin \/ SetStatus
  PROVE  GrantsIInv'
<1>1. GrantsTypeOK /\ Ended
  BY DEF GrantsIInv
<1>2. member \in BOOLEAN /\ active \in BOOLEAN /\ ended \subseteq 1..made
  BY <1>1, GrantTypes DEF Ended
<1>3. ASSUME NEW gs, NEW es \in SUBSET gs, Closed(gs), ended' = ended \cup es, es \subseteq 1..made, AtOnce,
             \A f \in es : grant[f].open \/ (grant[f].access /\ Tokens \subseteq gs),
             member' \in BOOLEAN, active' = active, made' = made
      PROVE  GrantsIInv'
  <2>1. /\ grant' \in [GrantId -> Grant] /\ Weaker /\ \A g \in GrantId : grant'[g].said = grant[g].said
    BY <1>1, <1>3, ClosedIs
  <2>2. \A g \in GrantId : Over(g)' => Over(g) \/ Spent(g)'
    BY <1>3, EndedAreSpent
  <2>3. ended' \subseteq 1..made /\ active' \in BOOLEAN
    BY <1>2, <1>3
  <2>4. QED
    BY <1>3, <2>1, <2>2, <2>3, AtOnceKeeps
<1>4. ASSUME UNCHANGED <<made, grant, ended>>, AtOnce, member' \in BOOLEAN, active' \in BOOLEAN
      PROVE  GrantsIInv'
  <2>1. /\ grant' \in [GrantId -> Grant] /\ Weaker /\ \A g \in GrantId : grant'[g].said = grant[g].said
    BY <1>1, <1>4, GrantTypes DEF Weaker, Same
  <2>2. \A g \in GrantId : Over(g)' => Over(g)
    BY <1>4 DEF Over, From
  <2>3. QED
    BY <1>2, <1>4, <2>1, <2>2, AtOnceKeeps
<1>5. CASE Decline
  <2>1. PICK g \in Open("request") : Closed({g}) /\ ended' = ended \cup {g}
    BY <1>5 DEF Decline
  <2>2. AtOnce /\ member' = member /\ active' = active /\ made' = made
    BY <1>5 DEF Decline, accountVars
  <2>3. g \in 1..made /\ grant[g].open
    BY DEF Open
  <2>4. QED
    BY <1>2, <1>3, <2>1, <2>2, <2>3
<1>6. CASE DeviceExpires
  <2>1. PICK g \in Open("device") : Closed({g})
    BY <1>6 DEF DeviceExpires
  <2>2. AtOnce /\ member' = member /\ active' = active /\ made' = made /\ ended' = ended
    BY <1>6 DEF DeviceExpires, accountVars
  <2>3. {} \in SUBSET {g} /\ ended' = ended \cup {} /\ {} \subseteq 1..made
    BY <2>2
  <2>4. QED
    BY <1>2, <1>3, <2>1, <2>2, <2>3
<1>7. CASE RevokeKey
  <2>1. PICK g \in Keys : EndsGrants({g})
    BY <1>7 DEF RevokeKey
  <2>2. g \in 1..made /\ grant[g].open
    BY DEF Keys, Open
  <2>3. Closed({g}) /\ ended' = ended \cup {g} /\ AtOnce /\ member' = member /\ active' = active /\ made' = made
    BY <2>1 DEF EndsGrants, accountVars
  <2>4. QED
    BY <1>2, <1>3, <2>2, <2>3
<1>8. CASE Disconnect
  <2>1. /\ Closed(Tokens) /\ ended' = ended \cup Tokens /\ AtOnce
        /\ member' = member /\ active' = active /\ made' = made
    BY <1>8 DEF Disconnect, EndsGrants, accountVars
  <2>2. Tokens \subseteq 1..made /\ \A f \in Tokens : grant[f].open \/ grant[f].access
    BY DEF Tokens
  <2>3. QED
    BY <1>2, <1>3, <2>1, <2>2
<1>9. CASE RevokeGrant
  <2>1. PICK g \in Tokens : Closed({g}) /\ ended' = ended \cup (Open("tokens") \cap {g})
    BY <1>9 DEF RevokeGrant
  <2>2. AtOnce /\ member' = member /\ active' = active /\ made' = made
    BY <1>9 DEF RevokeGrant, accountVars
  <2>3. /\ Open("tokens") \cap {g} \subseteq {g} /\ Open("tokens") \cap {g} \subseteq 1..made
        /\ \A f \in Open("tokens") \cap {g} : grant[f].open
    BY DEF Open
  <2>4. QED
    BY <1>2, <1>3, <2>1, <2>2, <2>3
<1>10. CASE RemoveMember
  <2> DEFINE theirs == Keys \cup Tokens \cup {g \in Open("device") : grant[g].said # "pending"}
  <2>1. /\ Closed(theirs) /\ ended' = ended \cup theirs /\ AtOnce
        /\ member' = FALSE /\ active' = active /\ made' = made
    BY <1>10 DEF RemoveMember
  <2>2. /\ theirs \subseteq 1..made /\ Tokens \subseteq theirs
        /\ \A f \in theirs : grant[f].open \/ grant[f].access
    BY DEF Keys, Tokens, Open
  <2>3. member' \in BOOLEAN
    BY <2>1, Zenon
  <2> HIDE DEF theirs
  <2>4. QED
    BY <1>3, <2>1, <2>2, <2>3
<1>11. CASE Rejoin
  <2>1. UNCHANGED <<made, grant, ended>> /\ AtOnce /\ member' = TRUE /\ active' = active
    BY <1>11 DEF Rejoin
  <2>2. member' \in BOOLEAN /\ active' \in BOOLEAN
    BY <1>2, <2>1
  <2>3. QED
    BY <1>4, <2>1, <2>2
<1>12. CASE SetStatus
  <2>1. UNCHANGED <<made, grant, ended>> /\ AtOnce /\ active' = ~active /\ member' = member
    BY <1>12 DEF SetStatus
  <2>2. member' \in BOOLEAN /\ active' \in BOOLEAN
    BY <1>2, <2>1
  <2>3. QED
    BY <1>4, <2>1, <2>2
<1>13. QED
  BY <1>5, <1>6, <1>7, <1>8, <1>9, <1>10, <1>11, <1>12

LEMMA AccessExpiresKeeps == ASSUME GrantsIInv, AccessExpires PROVE GrantsIInv'
<1>1. GrantsTypeOK /\ Calls /\ GrantsTaken /\ Ended /\ GrantsInTurn
  BY DEF GrantsIInv
<1>2. PICK g \in Tokens : grant' = [grant EXCEPT ![g].access = FALSE]
  BY DEF AccessExpires
<1>3. UNCHANGED <<member, active, made, call, ended, crossed>>
  BY DEF AccessExpires, accountVars
<1>4. g \in GrantId /\ grant \in [GrantId -> Grant]
  BY <1>1, Numbers, GrantTypes DEF Tokens
<1>5. /\ grant' \in [GrantId -> Grant] /\ Weaker
      /\ \A f \in GrantId : grant'[f].said = grant[f].said /\ grant'[f].open = grant[f].open
  <2>1. \A r \in Grant :
          /\ [r EXCEPT !.access = FALSE] \in Grant /\ ~[r EXCEPT !.access = FALSE].access
          /\ [r EXCEPT !.access = FALSE].kind = r.kind /\ [r EXCEPT !.access = FALSE].from = r.from
          /\ [r EXCEPT !.access = FALSE].open = r.open /\ [r EXCEPT !.access = FALSE].said = r.said
    BY DEF Grant
  <2>2. QED
    BY <1>2, <1>4, <2>1 DEF Weaker, Same
<1>6. \A f \in GrantId : Over(f)' <=> Over(f)
  BY <1>3, <1>5 DEF Weaker, Same, Over, From
<1>7. GrantsTaken'
  BY <1>1, <1>3, <1>5, TakenStays
<1>8. 1..made \subseteq GrantId /\ made \in Nat
  BY <1>1, Numbers
<1>9. Calls'
  <2>1. \A f \in 1..made : Kind(f)' = Kind(f)
    BY <1>5, <1>8 DEF Weaker, Same, Kind
  <2>2. QED
    BY <1>1, <1>3, <1>8, <2>1, CallsStay
<1>10. ~crossed => \A h \in Handler : StillTrue(call[h])'
  <2> SUFFICES ASSUME ~crossed, NEW h \in Handler PROVE StillTrue(call[h])'
    OBVIOUS
  <2>1. StillTrue(call[h]) /\ CallOf(call[h])
    BY <1>1 DEF GrantsInTurn, Calls
  <2>2. call[h].op \in {"consent", "code", "issue", "save", "device", "key", "submit", "poll"} /\ call[h].of # 0
        => call[h].of \in GrantId
    BY <1>8, <2>1 DEF CallOf
  <2>3. call[h].op \in {"submit", "poll"} => call[h].of # 0
    BY <1>8, <2>1 DEF CallOf
  <2>4. QED
    BY <1>3, <1>5, <1>6, <2>1, <2>2, <2>3 DEF StillTrue
<1>11. ~crossed' /\ (\A f \in GrantId : Over(f)' => Spent(f)') => GrantsInTurn'
  BY <1>1, <1>3, <1>10 DEF GrantsInTurn, GrantsAlone, Busy
<1>12. /\ call' \in [Handler -> Call] /\ crossed' \in BOOLEAN /\ member' \in BOOLEAN /\ active' \in BOOLEAN
       /\ ended' \subseteq 1..made
  BY <1>1, <1>3, GrantTypes DEF Ended
<1>13. QED
  BY <1>3, <1>5, <1>6, <1>7, <1>9, <1>11, <1>12, EndKeeps

LEMMA RevokeWebdavKeeps == ASSUME GrantsIInv, NEW h \in Handler, RevokeWebdav(h) PROVE GrantsIInv'
<1>1. GrantsTypeOK /\ Calls /\ GrantsTaken /\ Ended
  BY DEF GrantsIInv
<1> DEFINE old == Open("webdav")
<1>2. /\ Starts(h, "webdav", 0, "pending") /\ Closed(old) /\ ended' = ended \cup old
      /\ member' = member /\ active' = active /\ made' = made
  BY DEF RevokeWebdav, accountVars
<1>3. old \subseteq 1..made /\ \A f \in old : grant[f].open
  BY DEF Open
<1> HIDE DEF old
<1>4. "webdav" \in GrantOps /\ "pending" \in Said /\ 0 \in 0..MaxGrants
  BY GrantsAssumption DEF GrantOps, Said
<1>5. /\ call' \in [Handler -> Call] /\ crossed' \in BOOLEAN
      /\ call'[h].op = "webdav" /\ call'[h].of = 0
      /\ \A i \in Handler \ {h} : call'[i] = call[i]
      /\ ~crossed' => ~crossed /\ \A i \in Handler : call[i].op = "none"
  BY <1>1, <1>2, <1>4, StartsIs
<1>6. /\ grant' \in [GrantId -> Grant] /\ Weaker /\ \A g \in GrantId : grant'[g].said = grant[g].said
  BY <1>1, <1>2, ClosedIs
<1>7. \A g \in GrantId : Over(g)' => Over(g) \/ Spent(g)'
  BY <1>2, <1>3, EndedAreSpent
<1>8. Calls'
  <2>1. CallOf(call[h])'
    BY <1>5 DEF CallOf
  <2>2. made \in Nat /\ 1..made \subseteq GrantId
    BY <1>1, Numbers
  <2>3. \A g \in 1..made : Kind(g)' = Kind(g)
    BY <1>6, <2>2 DEF Weaker, Same, Kind
  <2>4. QED
    BY <1>1, <1>2, <1>5, <2>1, <2>2, <2>3, CallsStay
<1>9. GrantsTaken'
  <2>1. \A i \in Handler, f \in GrantId : GrantsTakes(call'[i], f) => GrantsTakes(call[i], f)
    BY <1>5 DEF GrantsTakes
  <2>2. QED
    BY <1>1, <1>6, <2>1, TakenStays
<1>10. ~crossed' /\ (\A g \in GrantId : Over(g)' => Spent(g)') => GrantsInTurn'
  <2>1. StillTrue(call[h])'
    BY <1>5 DEF StillTrue
  <2>2. QED
    BY <1>5, <2>1, TurnGoes
<1>11. ended' \subseteq 1..made /\ member' \in BOOLEAN /\ active' \in BOOLEAN
  BY <1>1, <1>2, <1>3, GrantTypes DEF Ended
<1>12. QED
  BY <1>2, <1>5, <1>6, <1>7, <1>8, <1>9, <1>10, <1>11, EndKeeps

LEMMA GrantsIInvStays == GrantsIInv /\ [GrantsNext]_grantsVars => GrantsIInv'
<1> SUFFICES ASSUME GrantsIInv, [GrantsNext]_grantsVars PROVE GrantsIInv'
  OBVIOUS
<1>1. CASE GrantsNext
  BY <1>1, MakingKeeps, BeginningKeeps, GoingKeeps, SubmitKeeps, EndingKeeps, AccessExpiresKeeps, RevokeWebdavKeeps
     DEF GrantsNext
<1>2. CASE UNCHANGED grantsVars
  <2>1. UNCHANGED <<member, active, made, grant, call, ended, crossed>>
    BY <1>2 DEF grantsVars, accountVars
  <2>2. GrantsTypeOK'
    BY <2>1, GrantTypes DEF GrantsIInv
  <2>3. Descents' /\ Calls'
    BY <2>1 DEF GrantsIInv, Descents, OnlyChild, Child, Descent, Calls, CallOf, Kind, From
  <2>4. GrantsTaken'
    BY <2>1 DEF GrantsIInv, GrantsTaken, Unused, InOneHand, Childless, GrantsTakes, Kind, From
  <2>5. Ended' /\ GrantsInTurn'
    BY <2>1 DEF GrantsIInv, Ended, GrantsInTurn, GrantsAlone, Busy, StillTrue, Over, Spent, Kind, From
  <2>6. QED
    BY <2>2, <2>3, <2>4, <2>5 DEF GrantsIInv
<1>3. QED
  BY <1>1, <1>2

(* A child has all of its parent's descent and the parent, and one more than the parent has is no more than *)
(* that.                                                                                                    *)
LEMMA ChildrenAre ==
  ASSUME GrantsIInv, NEW g \in GrantId, NEW c \in Children(g)
  PROVE  c \in GrantId /\ Child(g, c)
<1>1. GrantsTypeOK /\ Descents
  BY DEF GrantsIInv
<1>2. c \in GrantId /\ g \in From(c) /\ Cardinality(From(c)) = Cardinality(From(g)) + 1
  BY <1>1, Numbers DEF Children, From
<1>3. From(g) \subseteq From(c) /\ From(c) \subseteq GrantId /\ g \notin From(g)
  <2>1. From(g) \subseteq From(c) /\ \A f \in From(g) : f < g
    BY <1>1, <1>2 DEF Descents, Descent
  <2>2. From(c) \subseteq GrantId
    BY <1>1, <1>2, GrantTypes DEF From, Grant
  <2>3. g \in Nat
    BY <1>1, Numbers
  <2>4. QED
    BY <2>1, <2>2, <2>3
<1>4. IsFiniteSet(GrantId)
  BY GrantsAssumption, FS_Interval DEF GrantId
<1>5. IsFiniteSet(From(c)) /\ IsFiniteSet(From(g))
  BY <1>3, <1>4, FS_Subset
<1>6. Cardinality({g} \cup From(g)) = Cardinality(From(g)) + 1
  <2>1. Cardinality(From(g) \cup {g}) = Cardinality(From(g)) + 1
    BY <1>3, <1>5, FS_AddElement
  <2>2. {g} \cup From(g) = From(g) \cup {g}
    OBVIOUS
  <2>3. QED
    BY <2>1, <2>2
<1>7. {g} \cup From(g) \subseteq From(c)
  BY <1>2, <1>3
<1>8. From(c) = {g} \cup From(g)
  BY <1>2, <1>5, <1>6, <1>7, FS_Subset
<1>9. QED
  BY <1>2, <1>8 DEF Child

LEMMA GrantsInvFollows == GrantsIInv => GrantsInv
<1> SUFFICES ASSUME GrantsIInv PROVE GrantsInv
  OBVIOUS
<1>1. GrantsTypeOK /\ 1..made \subseteq GrantId
  BY Numbers DEF GrantsIInv
<1>2. OneSuccessor
  <2> SUFFICES ASSUME NEW g \in 1..made, grant[g].kind \in {"code", "tokens", "device"}
               PROVE  Cardinality(Children(g)) <= 1
    BY DEF OneSuccessor
  <2>1. \A c, d \in Children(g) : c = d
    <3>1. \A c \in Children(g) : c \in GrantId /\ Child(g, c)
      BY <1>1, ChildrenAre
    <3>2. g \in GrantId /\ Kind(g) # "request"
      BY <1>1 DEF Kind
    <3>3. QED
      BY <3>1, <3>2 DEF GrantsIInv, Descents, OnlyChild
  <2>2. CASE Children(g) = {}
    BY <2>2, FS_EmptySet
  <2>3. CASE Children(g) # {}
    <3>1. PICK c : Children(g) = {c}
      BY <2>1, <2>3
    <3>2. Cardinality({c}) = 1
      BY FS_Singleton
    <3>3. QED
      BY <3>1, <3>2
  <2>4. QED
    BY <2>2, <2>3
<1>3. EndedForGood
  <2> SUFFICES ASSUME ~crossed, NEW g \in 1..made, g \in ended \/ grant[g].from \cap ended # {}
               PROVE  ~Admits(g) /\ ~Renews(g)
    BY DEF EndedForGood
  <2>1. Spent(g)
    BY <1>1 DEF GrantsIInv, GrantsInTurn, Over, From
  <2>2. g \in Keys => grant[g].open /\ Kind(g) \in {"key", "webdav"}
    BY DEF Keys, Open, Kind
  <2>3. QED
    BY <2>1, <2>2 DEF Spent, Admits, Renews, Kind
<1>4. QED
  BY <1>1, <1>2, <1>3 DEF GrantsInv

(* For any servers and grants, whatever requests overlap: each code, refresh token and approved device has at  *)
(* most one successor (hosted.py, device.py).  As long as none do, what has been revoked, disconnected, denied *)
(* or lost with the membership never opens the vault again, and neither does anything that came from it.       *)
THEOREM GrantsEnd == GrantsSpec => []GrantsInv
<1>1. GrantsSpec => []GrantsIInv
  BY GrantsInitHolds, GrantsIInvStays, PTL DEF GrantsSpec
<1>2. QED
  BY <1>1, GrantsInvFollows, PTL
=============================================================================
