----------------------------- MODULE Membership -----------------------------
(***************************************************************************)
(* Accounts, their vaults and who else is in them: HostedStore             *)
(* (hosted_store.py) with the rules of hosted_vaults.py, as the vault      *)
(* pages, the members pages and the accounts command call them, and the    *)
(* deletion of an account (hosted_keys.py).                                *)
(*                                                                         *)
(* Several processes share the database: servers and the command line.     *)
(* sqlite3 begins a transaction at the first write of a connection, so     *)
(* what an operation checked before that may be gone when it writes; each  *)
(* operation is a check and a write.  Vaults are numbered as they are made,*)
(* and an invitation names the account its address belongs to, or will.    *)
(***************************************************************************)
EXTENDS Naturals, FiniteSets

CONSTANTS
  Account,
  Slug,
  FirstSlug,    \* FIRST_VAULT_SLUG
  MaxVaults,    \* bound: vaults ever made
  Process,
  NoOne

ASSUME MembershipAssumption == FirstSlug \in Slug /\ MaxVaults \in Nat /\ NoOne \notin Account

VaultId == 1..MaxVaults

VARIABLES
  accounts,     \* the accounts there are
  vaultsMade,         \* vaults made so far
  owner,        \* of each vault, NoOne when it has no row
  shared,       \* the shared vaults
  slug,         \* the address of each vault
  members,      \* vault_members: pairs of vault and account
  invitations,  \* vault_invitations: pairs of vault and account
  job,          \* the operation each process is in
  overlapped    \* whether two operations have ever overlapped

membershipVars == <<accounts, vaultsMade, owner, shared, slug, members, invitations, job, overlapped>>
rows == <<accounts, vaultsMade, owner, shared, slug, members, invitations>>

Resting == [op |-> "none", vault |-> 0, account |-> NoOne, slug |-> FirstSlug, todo |-> {}]

MembershipInit ==
  /\ accounts = {} /\ vaultsMade = 0
  /\ owner = [v \in VaultId |-> NoOne] /\ shared = {} /\ slug = [v \in VaultId |-> FirstSlug]
  /\ members = {} /\ invitations = {}
  /\ job = [p \in Process |-> Resting] /\ overlapped = FALSE

-----------------------------------------------------------------------------
(* What the queries of hosted_vaults.py answer. *)

Vaults == {v \in VaultId : owner[v] # NoOne}
Owned(a) == {v \in Vaults : owner[v] = a}
Reached(a) == Owned(a) \cup {v \in Vaults \cap shared : <<v, a>> \in members}
Reaches(v, a) == v \in Reached(a)
Holders(v) == {a \in Account : Reaches(v, a)}
Clash(a, s, other) == \E v \in Reached(a) \ {other} : slug[v] = s

(* vaults_account_slug: an account's own vaults have different addresses. *)
Unique(a, s, other) == \A v \in Owned(a) \ {other} : slug[v] # s

Begins(p, to) ==
  /\ job[p].op = "none" /\ job' = [job EXCEPT ![p] = to]
  /\ overlapped' = (overlapped \/ \E q \in Process \ {p} : job[q].op # "none")
Answered(p) == job' = [job EXCEPT ![p] = Resting] /\ UNCHANGED overlapped

Checked(p, to) == Begins(p, to) /\ UNCHANGED rows

-----------------------------------------------------------------------------
(* An account begins with a vault of its own, in one transaction. *)
SignUp(p, a) ==
  /\ job[p].op = "none" /\ a \notin accounts /\ vaultsMade < MaxVaults
  /\ accounts' = accounts \cup {a} /\ vaultsMade' = vaultsMade + 1
  /\ owner' = [owner EXCEPT ![vaultsMade + 1] = a] /\ slug' = [slug EXCEPT ![vaultsMade + 1] = FirstSlug]
  /\ UNCHANGED <<shared, members, invitations, job, overlapped>>

(* create_vault: an address that is free among all the account reaches. *)
CheckCreate(p) ==
  \E a \in accounts, s \in Slug :
    /\ ~Clash(a, s, 0)
    /\ Checked(p, [Resting EXCEPT !.op = "create", !.account = a, !.slug = s])

Create(p) ==
  LET a == job[p].account  s == job[p].slug IN
  /\ job[p].op = "create"
  /\ IF vaultsMade < MaxVaults /\ a \in accounts /\ Unique(a, s, 0)
       THEN /\ vaultsMade' = vaultsMade + 1
            /\ owner' = [owner EXCEPT ![vaultsMade + 1] = a] /\ slug' = [slug EXCEPT ![vaultsMade + 1] = s]
            /\ shared' \in {shared, shared \cup {vaultsMade + 1}}
       ELSE UNCHANGED <<vaultsMade, owner, slug, shared>>
  /\ Answered(p) /\ UNCHANGED <<accounts, members, invitations>>

\* Mutant: an address free among the vaults of the owner only.
CheckRenameOwn(p) ==
  \E v \in Vaults, s \in Slug :
    /\ s # slug[v] /\ ~Clash(owner[v], s, v)
    /\ Checked(p, [Resting EXCEPT !.op = "rename", !.vault = v, !.slug = s])

(* rename_vault: free among all that any of its holders reaches. *)
CheckRename(p) ==
  \E v \in Vaults, s \in Slug :
    /\ s # slug[v] /\ \A a \in Holders(v) : ~Clash(a, s, v)
    /\ Checked(p, [Resting EXCEPT !.op = "rename", !.vault = v, !.slug = s])

Rename(p) ==
  LET v == job[p].vault IN
  /\ job[p].op = "rename"
  /\ slug' = IF v \in Vaults /\ Unique(owner[v], job[p].slug, v) THEN [slug EXCEPT ![v] = job[p].slug] ELSE slug
  /\ Answered(p) /\ UNCHANGED <<accounts, vaultsMade, owner, shared, members, invitations>>

-----------------------------------------------------------------------------
(* Invitations. *)

CheckInvite(p) ==
  \E v \in Vaults \cap shared, a \in Account :
    /\ ~(a \in accounts /\ Reaches(v, a)) /\ <<v, a>> \notin invitations
    /\ Checked(p, [Resting EXCEPT !.op = "invite", !.vault = v, !.account = a])

Invite(p) ==
  LET v == job[p].vault IN
  /\ job[p].op = "invite"
  /\ invitations' = IF v \in Vaults THEN invitations \cup {<<v, job[p].account>>} ELSE invitations
  /\ Answered(p) /\ UNCHANGED <<accounts, vaultsMade, owner, shared, slug, members>>

(* By its owner, or because the email could not be sent. *)
Withdraw(p) ==
  /\ job[p].op = "none"
  /\ \E i \in invitations : invitations' = invitations \ {i}
  /\ UNCHANGED <<accounts, vaultsMade, owner, shared, slug, members, job, overlapped>>

(* accept_invitations, on a page of the account: the invitations are read  *)
(* first, one whose address is taken waits, and with the first that does   *)
(* not a transaction begins that takes the others.                         *)
ReadInvitations(p) ==
  \E a \in accounts :
    LET to == {v \in Vaults : <<v, a>> \in invitations /\ owner[v] # a} IN
    /\ to # {}
    /\ Checked(p, [Resting EXCEPT !.op = "accept", !.account = a, !.todo = to])

CheckAccept(p) ==
  LET a == job[p].account  todo == job[p].todo IN
  /\ job[p].op = "accept"
  /\ \/ \E v \in todo :
          /\ \A w \in todo : v <= w
          /\ job' = IF Clash(a, slug[v], v) THEN [job EXCEPT ![p].todo = @ \ {v}]
                    ELSE [job EXCEPT ![p].op = "join", ![p].vault = v]
     \/ todo = {} /\ job' = [job EXCEPT ![p] = Resting]
  /\ UNCHANGED <<rows, overlapped>>

Joins(a, v, rest) ==
  {v} \cup {w \in rest : ~Clash(a, slug[w], w) /\ slug[w] # slug[v] /\ \A u \in rest : u < w => slug[u] # slug[w]}

(* A vault deleted meanwhile cannot be joined, and nothing is kept. *)
Join(p) ==
  LET a == job[p].account
      joined == Joins(a, job[p].vault, job[p].todo \ {job[p].vault}) IN
  /\ job[p].op = "join"
  /\ IF joined \subseteq Vaults /\ a \in accounts
       THEN /\ members' = members \cup (joined \X {a})
            /\ invitations' = invitations \ (joined \X {a})
       ELSE UNCHANGED <<members, invitations>>
  /\ Answered(p) /\ UNCHANGED <<accounts, vaultsMade, owner, shared, slug>>

-----------------------------------------------------------------------------
(* remove_member, by the owner or by a member that leaves. *)
CheckRemove(p) ==
  \E v \in Vaults, a \in Account :
    /\ <<v, a>> \in members /\ a # owner[v]
    /\ Checked(p, [Resting EXCEPT !.op = "remove", !.vault = v, !.account = a])

Remove(p) ==
  /\ job[p].op = "remove"
  /\ members' = members \ {<<job[p].vault, job[p].account>>}
  /\ Answered(p) /\ UNCHANGED <<accounts, vaultsMade, owner, shared, slug, invitations>>

(* hand_over: the old owner stays as a member.  todo has the vault's owner *)
(* as the page read it.                                                    *)
CheckHandOver(p) ==
  \E v \in Vaults \cap shared, a \in accounts :
    /\ a # owner[v] /\ Reaches(v, a) /\ ~Clash(a, slug[v], v)
    /\ Checked(p, [Resting EXCEPT !.op = "handover", !.vault = v, !.account = a, !.todo = {owner[v]}])

HandOver(p) ==
  LET v == job[p].vault  a == job[p].account IN
  /\ job[p].op = "handover"
  /\ IF v \in Vaults /\ job[p].todo \subseteq accounts /\ a \in accounts /\ Unique(a, slug[v], v)
       THEN /\ members' = (members \ {<<v, a>>}) \cup {<<v, o>> : o \in job[p].todo}
            /\ owner' = [owner EXCEPT ![v] = a]
       ELSE UNCHANGED <<members, owner>>
  /\ Answered(p) /\ UNCHANGED <<accounts, vaultsMade, shared, slug, invitations>>

-----------------------------------------------------------------------------
(* Deleting a vault and an account. *)

Drop(vs) ==
  /\ owner' = [v \in VaultId |-> IF v \in vs THEN NoOne ELSE owner[v]]
  /\ invitations' = {i \in invitations : i[1] \notin vs}
  /\ members' = {m \in members : m[1] \notin vs}

CheckDeleteVault(p) ==
  \E v \in Vaults : Checked(p, [Resting EXCEPT !.op = "delete", !.vault = v, !.account = owner[v]])

DeleteVault(p) ==
  /\ job[p].op = "delete"
  /\ Drop({job[p].vault})
  /\ Answered(p) /\ UNCHANGED <<accounts, vaultsMade, shared, slug>>

\* Mutant: an account is deleted though others are in its vaults.
CheckNothing(p) ==
  \E a \in accounts : Checked(p, [Resting EXCEPT !.op = "account", !.account = a, !.todo = Owned(a)])

(* handed_over_first: a shared vault with other members has to go first. *)
CheckDeleteAccount(p) ==
  \E a \in accounts :
    /\ \A v \in Owned(a) \cap shared : Holders(v) = {a}
    /\ Checked(p, [Resting EXCEPT !.op = "account", !.account = a, !.todo = Owned(a)])

DeleteOneVault(p) ==
  /\ job[p].op = "account"
  /\ \E v \in job[p].todo : Drop({v}) /\ job' = [job EXCEPT ![p].todo = @ \ {v}]
  /\ UNCHANGED <<accounts, vaultsMade, shared, slug, overlapped>>

(* The rows of vaults refer to their owner's: with one left, nothing goes. *)
DeleteAccount(p) ==
  LET a == job[p].account IN
  /\ job[p].op = "account" /\ job[p].todo = {}
  /\ IF Owned(a) = {} THEN accounts' = accounts \ {a} /\ members' = {m \in members : m[2] # a}
     ELSE UNCHANGED <<accounts, members>>
  /\ Answered(p) /\ UNCHANGED <<vaultsMade, owner, shared, slug, invitations>>

-----------------------------------------------------------------------------
MembershipNext ==
  \E p \in Process :
    \/ \E a \in Account : SignUp(p, a)
    \/ CheckCreate(p) \/ Create(p) \/ CheckRename(p) \/ Rename(p)
    \/ CheckInvite(p) \/ Invite(p) \/ Withdraw(p)
    \/ ReadInvitations(p) \/ CheckAccept(p) \/ Join(p)
    \/ CheckRemove(p) \/ Remove(p) \/ CheckHandOver(p) \/ HandOver(p)
    \/ CheckDeleteVault(p) \/ DeleteVault(p)
    \/ CheckDeleteAccount(p) \/ DeleteOneVault(p) \/ DeleteAccount(p)

MembershipSpec == MembershipInit /\ [][MembershipNext]_membershipVars

-----------------------------------------------------------------------------
MembershipTypeOK ==
  /\ accounts \subseteq Account /\ vaultsMade \in 0..MaxVaults
  /\ owner \in [VaultId -> Account \cup {NoOne}] /\ shared \subseteq VaultId /\ slug \in [VaultId -> Slug]
  /\ members \subseteq VaultId \X Account /\ invitations \subseteq VaultId \X Account
  /\ job \in [Process -> [op : {"none", "create", "rename", "invite", "accept", "join", "remove", "handover",
                                "delete", "account"},
                          vault : 0..MaxVaults, account : Account \cup {NoOne}, slug : Slug,
                          todo : SUBSET (VaultId \cup Account)]]
  /\ overlapped \in BOOLEAN

(* Whatever runs at once, a vault's owner has an account, and so do its members: nobody's deletion
   leaves a vault that no one can open or delete. *)
OwnersExist ==
  /\ \A v \in Vaults : owner[v] \in accounts
  /\ \A m \in members : m[1] \in Vaults /\ m[2] \in accounts

(* "a slug is ... unique among the vaults an account reaches": whatever is created, renamed, joined
   and handed over, an address names one vault of an account. *)
AddressesUnique == \A a \in accounts : \A v, w \in Reached(a) : slug[v] = slug[w] => v = w

(* It holds as long as no two operations overlap. *)
AddressesUniqueInTurn == ~overlapped => AddressesUnique

(* Every vault has an owner with an account, and an address names one vault of an account. *)
MembershipInv == MembershipTypeOK /\ OwnersExist /\ AddressesUniqueInTurn

(* A vault only ends by its owner's deletion, and by the deletion of the owner's account only when
   nobody else was in it (as long as no two operations overlap). *)
NobodyLosesAVault ==
  [][~overlapped => \A p \in Process, v \in Vaults :
       owner'[v] = NoOne /\ job'[p] # job[p] =>
         owner[v] = job[p].account /\ (job[p].op = "account" => Holders(v) = {owner[v]})]_membershipVars
=============================================================================
