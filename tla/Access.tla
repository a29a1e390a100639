------------------------------- MODULE Access -------------------------------
(* How a request of a hosted server comes to act on a vault: HostedGuard and HostedProvider.authenticate *)
(* for MCP calls, the checks of VaultServer and of run in server.py before a tool acts, and the key of a *)
(* WebDAV request.  What a credential rests on is read row by row, and memberships, addresses, accounts  *)
(* and extensions change in between.                                                                     *)
EXTENDS Naturals, Sequences

CONSTANTS
  Vault, SharedVault, Account, Slug,
  Credential, CredOf,     \* CredOf[c] : [kind, account, vault, scopes, purpose, named]
  Request, Tool,          \* Tool : the tools the runs call, of those below
  Nothing,
  MaxChanges              \* bound: changes of members, addresses, accounts and credentials

ASSUME AccessAssumption ==
  /\ SharedVault \subseteq Vault /\ MaxChanges \in Nat /\ Nothing \notin Account \cup Vault \cup Slug \cup Credential
  /\ \A c \in Credential :
       /\ CredOf[c].account \in Account /\ CredOf[c].scopes \subseteq {"read", "write"} /\ CredOf[c].named \in BOOLEAN
       /\ CredOf[c].vault \in Vault \/ CredOf[c].kind = "forwarded"

(* The tools of build_server by what it says of them; a WebDAV request reads (GET) or writes (PUT).      *)
MachineTools == {"claim", "release", "changelog", "changelog write", "lint_and_park", "snapshot", "view"}
WritingTools == {"write_file", "append_file", "move_file", "delete_file", "close", "set_status", "backlog_add",
                 "log_append", "init", "obsidian_access", "claim", "release", "lint_and_park",
                 "changelog write", "PUT"}
SharedRefuses == {"set_status", "backlog", "backlog_add", "log_append", "init", "claim", "release", "lint_and_park",
                  "changelog write"}
DavTools == {"GET", "PUT"}

VARIABLES
  past,      \* the states of the accounts, the last of which is what the database holds now
  request    \* what each request has found out
accessVars == <<past, request>>

Now == past[Len(past)]

NoRequest == [step |-> "none", cred |-> Nothing, asked |-> Nothing, tool |-> "none", begun |-> 1,
              vault |-> Nothing, at |-> Nothing, owner |-> Nothing, active |-> FALSE, scopes |-> {}, again |-> FALSE,
              author |-> Nothing]

Reaches(state, a, v) == state.owner[v] = a \/ <<v, a>> \in state.members
AddressesClash(state) ==
  \E a \in Account, v, w \in Vault :
    v # w /\ Reaches(state, a, v) /\ Reaches(state, a, w) /\ state.slug[v] = state.slug[w]

(* A credential may be live that belongs to nobody in the vault: Grants shows how one stays behind.      *)
AccessInit ==
  /\ request = [r \in Request |-> NoRequest]
  /\ \E o \in [Vault -> Account], m \in SUBSET (SharedVault \X Account), s \in [Vault -> Slug] :
       /\ \A x \in m : o[x[1]] # x[2]
       /\ past = <<[owner |-> o, members |-> m, slug |-> s, suspended |-> {},
                    limit |-> [a \in Account |-> {"read", "write"}], live |-> Credential]>>
       /\ ~AddressesClash(past[1])

-----------------------------------------------------------------------------
(* What accounts, extensions and owners do meanwhile.                                                    *)
Changes(state) ==
  /\ Len(past) <= MaxChanges /\ ~AddressesClash(state)
  /\ past' = Append(past, state) /\ UNCHANGED request

Join == \E v \in SharedVault, a \in Account :
  ~Reaches(Now, a, v) /\ Changes([Now EXCEPT !.members = @ \cup {<<v, a>>}])

(* Removing a member revokes what they had for the vault.                                                *)
RemoveMember == \E m \in Now.members :
  Changes([Now EXCEPT !.members = @ \ {m},
                      !.live = {c \in @ : ~(CredOf[c].vault = m[1] /\ CredOf[c].account = m[2])}])

HandOver == \E m \in Now.members :
  Changes([Now EXCEPT !.owner[m[1]] = m[2], !.members = (@ \ {m}) \cup {<<m[1], Now.owner[m[1]]>>}])

Rename == \E v \in Vault, s \in Slug : s # Now.slug[v] /\ Changes([Now EXCEPT !.slug[v] = s])
Suspend == \E a \in Account \ Now.suspended : Changes([Now EXCEPT !.suspended = @ \cup {a}])
Narrow == \E a \in Account, s \in {{}, {"read"}} : s # Now.limit[a] /\ Changes([Now EXCEPT !.limit[a] = s])
Revoke == \E c \in Now.live : Changes([Now EXCEPT !.live = @ \ {c}])

-----------------------------------------------------------------------------
At(r, step) == request[r].step = step
Kind(r) == CredOf[request[r].cred].kind
Sets(r, record) == request' = [request EXCEPT ![r] = record] /\ UNCHANGED past
Refused(r) == Sets(r, NoRequest)

(* A WebDAV request asks for its key a second time, to name the author: without one the server signs.    *)
Fails(r) == IF request[r].again THEN Sets(r, [request[r] EXCEPT !.step = "acts"]) ELSE Refused(r)

(* An address in the URL names the vault; without one it is the key's or the token's own.                *)
Begin(r) ==
  /\ At(r, "none")
  /\ \E c \in Credential, s \in Slug \cup {Nothing}, t \in Tool :
       /\ t \in DavTools => CredOf[c].kind = "key" /\ s = Nothing
       /\ Sets(r, [NoRequest EXCEPT !.step = IF CredOf[c].kind = "forwarded" THEN "forwarded" ELSE "row",
                                    !.cred = c, !.asked = s, !.tool = t, !.begun = Len(past)])

(* verdict: an account that is not active, or that the extensions leave nothing, is refused.             *)
Verdict(r, record) ==
  LET scopes == CredOf[record.cred].scopes \cap Now.limit[CredOf[record.cred].account] IN
  IF ~record.active \/ scopes = {} THEN Refused(r)
  ELSE Sets(r, [record EXCEPT !.step = "admitted", !.scopes = scopes])

(* key_grant, and authenticate for a token, read the credential, the account, the vault and then the     *)
(* membership, each on its own: no transaction holds the rows of one for the next.  A token issued for a *)
(* vault's address opens nothing without one.                                                            *)
Row(r) ==
  LET c == request[r].cred IN
  /\ At(r, "row")
  /\ IF c \notin Now.live \/ (CredOf[c].named /\ request[r].asked = Nothing) THEN Fails(r)
     ELSE Sets(r, [request[r] EXCEPT !.step = "account"])

ItsAccount(r) ==
  /\ At(r, "account")
  /\ Sets(r, [request[r] EXCEPT !.step = "vault", !.active = CredOf[request[r].cred].account \notin Now.suspended])

ItsVault(r) ==
  LET v == CredOf[request[r].cred].vault IN
  /\ At(r, "vault")
  /\ Sets(r, [request[r] EXCEPT !.step = "reaches", !.vault = v, !.at = Now.slug[v], !.owner = Now.owner[v]])

\* Mutant: the membership is not looked at.
ReachesAnyhow(r) == CredOf[request[r].cred].account \in Account

(* reaches: the owner by the row read before, or a member by now.                                        *)
ReachesStill(r) ==
  LET a == CredOf[request[r].cred].account IN request[r].owner = a \/ <<request[r].vault, a>> \in Now.members

(* What then is done with it: authenticate compares the address, lookup looks at the scopes for WebDAV   *)
(* and actor, the second time, only takes the name.                                                      *)
Found(r) ==
  LET c == request[r].cred
      scopes == CredOf[c].scopes \cap Now.limit[CredOf[c].account]
  IN
  /\ At(r, "reaches")
  /\ \/ ~ReachesStill(r) /\ Fails(r)
     \/ /\ ReachesStill(r) /\ request[r].again
        /\ Sets(r, [request[r] EXCEPT !.step = "acts", !.author = CredOf[c].account])
     \/ /\ ReachesStill(r) /\ ~request[r].again /\ request[r].tool \in DavTools
        /\ IF ~request[r].active \/ scopes = {} \/ (request[r].tool = "PUT" /\ "write" \notin scopes) THEN Refused(r)
           ELSE Sets(r, [request[r] EXCEPT !.step = "row", !.scopes = scopes, !.again = TRUE])
     \/ /\ ReachesStill(r) /\ ~request[r].again /\ request[r].tool \notin DavTools
        /\ IF request[r].asked \in {Nothing, request[r].at} THEN Verdict(r, request[r]) ELSE Refused(r)

(* through_proxy: who the proxy says it is, then the vault of theirs that the address names, their own   *)
(* before those shared with them, or their first own one.                                                *)
Forwarded(r) ==
  /\ At(r, "forwarded")
  /\ Sets(r, [request[r] EXCEPT !.step = "own", !.active = CredOf[request[r].cred].account \notin Now.suspended])

Opens(r, v) == Verdict(r, [request[r] EXCEPT !.vault = v, !.at = Now.slug[v]])

OwnVault(r) ==
  LET a == CredOf[request[r].cred].account
      own == {v \in Vault : Now.owner[v] = a /\ request[r].asked \in {Nothing, Now.slug[v]}} IN
  /\ At(r, "own")
  /\ \/ \E v \in own : Opens(r, v)
     \/ own = {} /\ request[r].asked = Nothing /\ Refused(r)
     \/ own = {} /\ request[r].asked # Nothing /\ Sets(r, [request[r] EXCEPT !.step = "shared"])

SharedWith(r) ==
  LET a == CredOf[request[r].cred].account
      theirs == {v \in Vault : <<v, a>> \in Now.members /\ Now.slug[v] = request[r].asked}
  IN
  /\ At(r, "shared")
  /\ \/ \E v \in theirs : Opens(r, v)
     \/ theirs = {} /\ Refused(r)

(* A tool that writes needs the scope, one for machines a device's key, and a shared vault refuses some. *)
CallTool(r) ==
  /\ At(r, "admitted")
  /\ LET t == request[r].tool IN
     IF \/ t \in MachineTools /\ CredOf[request[r].cred].purpose # "machine"
        \/ t \in WritingTools /\ "write" \notin request[r].scopes
        \/ t \in SharedRefuses /\ request[r].vault \in SharedVault
     THEN Refused(r)
     ELSE Sets(r, [request[r] EXCEPT !.step = "acts", !.author = CredOf[request[r].cred].account])


AccessNext ==
  \/ Join \/ RemoveMember \/ HandOver \/ Rename \/ Suspend \/ Narrow \/ Revoke
  \/ \E r \in Request :
       \/ Begin(r) \/ Row(r) \/ ItsAccount(r) \/ ItsVault(r) \/ Found(r)
       \/ Forwarded(r) \/ OwnVault(r) \/ SharedWith(r) \/ CallTool(r)

AccessSpec == AccessInit /\ [][AccessNext]_accessVars

-----------------------------------------------------------------------------
AccessTypeOK ==
  /\ Len(past) \in 1..(MaxChanges + 1)
  /\ \A i \in 1..Len(past) :
       /\ past[i].owner \in [Vault -> Account] /\ past[i].members \subseteq SharedVault \X Account
       /\ past[i].slug \in [Vault -> Slug] /\ past[i].suspended \subseteq Account
       /\ past[i].limit \in [Account -> SUBSET {"read", "write"}] /\ past[i].live \subseteq Credential
  /\ \A r \in Request :
       /\ request[r].cred \in Credential \cup {Nothing} /\ request[r].asked \in Slug \cup {Nothing}
       /\ request[r].tool \in Tool \cup {"none"} /\ request[r].begun \in 1..Len(past)
       /\ request[r].vault \in Vault \cup {Nothing} /\ request[r].scopes \subseteq {"read", "write"}

(* Since(r, P): P held at one moment or another since the request began. *)
Since(r, P(_)) == \E i \in request[r].begun..Len(past) : P(past[i])

(* "Removing a member, or a member leaving, stops their keys, tokens and signed-in computers for that vault
   on their next request": whatever a request acts on, everything it rests on (credential, account,
   membership, address and scope) held at a moment since it began, by whichever of the ways it came. *)
ActsAsAllowed ==
  \A r \in Request : At(r, "acts") =>
    LET c == CredOf[request[r].cred]
        Live(state) == request[r].cred \in state.live
        Active(state) == c.account \notin state.suspended
        Reached(state) == Reaches(state, c.account, request[r].vault)
        Named(state) == request[r].asked \in {Nothing, state.slug[request[r].vault]}
        MayRead(state) == state.limit[c.account] # {}
        MayWrite(state) == "write" \in state.limit[c.account]
    IN /\ Since(r, Live) \/ c.kind = "forwarded"
       /\ Since(r, Active) /\ Since(r, Reached) /\ Since(r, Named) /\ Since(r, MayRead)
       /\ request[r].tool \in WritingTools => "write" \in c.scopes /\ Since(r, MayWrite)

(* A credential opens the vault it was made for and no other, whoever takes over its address, and a tool
   for machines answers a device only. *)
NoOtherVault ==
  \A r \in Request : At(r, "acts") =>
    LET c == CredOf[request[r].cred] IN
    /\ c.kind # "forwarded" => request[r].vault = c.vault
    /\ request[r].tool \in MachineTools => c.purpose = "machine"
    /\ request[r].vault \in SharedVault => request[r].tool \notin SharedRefuses

(* "records the path, what happened, the member's email": a change over WebDAV is its member's own.  Only if
   the key or the membership ended after the request was let in, or the vault was handed over meanwhile (the
   owner read before it, the members after it, the new owner is neither), the server signs for it. *)
WritesSigned ==
  \A r \in Request : At(r, "acts") /\ request[r].author = Nothing =>
    /\ request[r].tool \in DavTools
    /\ \E i \in request[r].begun..Len(past) :
         \/ request[r].cred \notin past[i].live
         \/ ~Reaches(past[i], CredOf[request[r].cred].account, request[r].vault)
         \/ past[i].owner[request[r].vault] # Now.owner[request[r].vault]

(* What a request acts on it may act on, by name, and the change is signed. *)
AccessInv == AccessTypeOK /\ ActsAsAllowed /\ NoOtherVault /\ WritesSigned
=============================================================================
