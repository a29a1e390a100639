------------------------------- MODULE SignIn --------------------------------
(***************************************************************************)
(* How people sign in to the hosted server: the ceremonies a browser runs  *)
(* (login.py, login_email.py, login_github.py, login_oidc.py,              *)
(* login_passkey.py), the ways in of an account (Identities in             *)
(* identities.py) and the sessions of browsers (hosted_web.py).            *)
(*                                                                         *)
(* Each person has one address and at most one account, which is named     *)
(* after them; who deletes it does not come back.  A ceremony is a row     *)
(* that is deleted by whoever takes it; between taking it and completing   *)
(* it the server waits for the provider, and other requests run, also of   *)
(* the same browser.  Rate limits, the CSRF token and signatures are left  *)
(* out: a provider or a passkey proves a way of the person in front of the *)
(* browser.                                                                *)
(***************************************************************************)
EXTENDS Naturals, FiniteSets

CONSTANTS
  Person, Browser,
  Way,              \* what an identity is a row of: a provider's user, an address, a passkey
  WayOf,            \* the person each one belongs to
  WayKind,             \* and what it is: "email", "provider" or "passkey"
  AnyoneRegisters,  \* registration = "open"
  MaxCeremonies,    \* bound: ceremonies ever begun
  NoBody

ASSUME SignInAssumption ==
  /\ WayOf \in [Way -> Person] /\ WayKind \in [Way -> {"email", "provider", "passkey"}]
  /\ AnyoneRegisters \in BOOLEAN /\ MaxCeremonies \in Nat /\ NoBody \notin Person

Ceremony == 1..MaxCeremonies

VARIABLES
  account,      \* the status of each person's account
  entered,      \* the accounts somebody has signed in to (last_login_at)
  identity,     \* the account each way opens
  invitees,     \* people invited to somebody's vault
  inFront,      \* who sits in front of each browser
  session,      \* the account of the session of each browser
  cookie,       \* the ceremony the browser's login cookie is bound to
  begun, ceremony,   \* ceremonies begun, and their rows
  request,      \* what the server does for each browser
  page,         \* ways in the settings page of each browser showed with a button to remove them
  used          \* how often each ceremony has been completed

signInVars == <<account, entered, identity, invitees, inFront, session, cookie, begun, ceremony, request, page, used>>
peopleVars == <<account, entered, identity, invitees>>
browserVars == <<inFront, session, cookie, page>>
ceremonyVars == <<begun, ceremony, used>>

Nowhere == [step |-> "none", of |-> 0, way |-> NoBody, link |-> NoBody]
NoRow == [kind |-> "none", link |-> NoBody, person |-> NoBody]

SignInInit ==
  /\ account = [p \in Person |-> "none"] /\ entered = {} /\ identity = [w \in Way |-> NoBody]
  /\ invitees = {} /\ inFront \in [Browser -> Person]
  /\ session = [b \in Browser |-> NoBody] /\ cookie = [b \in Browser |-> 0]
  /\ begun = 0 /\ ceremony = [c \in Ceremony |-> NoRow] /\ used = [c \in Ceremony |-> 0]
  /\ request = [b \in Browser |-> Nowhere] /\ page = [b \in Browser |-> {}]

-----------------------------------------------------------------------------
Ways(p) == {w \in Way : identity[w] = p}

SignedIn(b, p) == session[b] = p /\ p \in Person /\ account[p] = "active"

Idles(b) == request[b] = Nowhere

(* An account for a verified address: its own, or one with a way of that address.  A passkey and an
   account without an address of its own have none. *)
ByEmail(p) ==
  IF account[p] \notin {"none", "deleted"} THEN {p}
  ELSE {identity[w] : w \in {v \in Way : WayKind[v] # "passkey" /\ WayOf[v] = p /\ identity[v] # NoBody}}

Known(p) == AnyoneRegisters \/ ByEmail(p) # {} \/ p \in invitees

(* Identities.begin: a ceremony, which expires. *)
NewCeremony(row) ==
  /\ begun < MaxCeremonies /\ begun' = begun + 1
  /\ ceremony' = [ceremony EXCEPT ![begun + 1] = row]
  /\ UNCHANGED used

(* Identities.take: who deletes the row has it. *)
Takes(c) == ceremony' = [ceremony EXCEPT ![c] = NoRow]

-----------------------------------------------------------------------------
(* Ceremonies with a provider.                                             *)

(* start, Login.linking and Login.begin: to sign in, or to add a way to the account signed in. *)
StartProvider(b) ==
  /\ Idles(b)
  /\ \E link \in {NoBody, session[b]} :
       /\ link # NoBody => SignedIn(b, link)
       /\ NewCeremony([kind |-> "provider", link |-> link, person |-> NoBody])
  /\ cookie' = [cookie EXCEPT ![b] = begun + 1]
  /\ UNCHANGED <<peopleVars, inFront, session, page, request>>

(* callback up to the wait for the provider: the row is taken, then the browser must be the one that
   began it. *)
Resume(b) ==
  \E c \in Ceremony, w \in Way :
    /\ Idles(b) /\ ceremony[c].kind = "provider" /\ WayKind[w] = "provider" /\ WayOf[w] = inFront[b]
    /\ Takes(c)
    /\ \/ cookie[b] # c /\ UNCHANGED request
       \/ /\ cookie[b] = c
          /\ request' = [request EXCEPT ![b] = [step |-> "proof", of |-> c, way |-> w, link |-> ceremony[c].link]]
    /\ UNCHANGED <<peopleVars, browserVars, begun, used>>

ProviderFails(b) ==
  /\ request[b].step = "proof" /\ WayKind[request[b].way] = "provider"
  /\ request' = [request EXCEPT ![b] = Nowhere]
  /\ UNCHANGED <<peopleVars, browserVars, ceremonyVars>>

(* Links by email: asked for by anybody, read by the person the address belongs to. *)
SendLink ==
  /\ \E p \in Person : Known(p) /\ NewCeremony([kind |-> "email", link |-> NoBody, person |-> p])
  /\ UNCHANGED <<peopleVars, browserVars, request>>

Confirm(b) ==
  \E c \in Ceremony, w \in Way :
    /\ Idles(b) /\ ceremony[c].kind = "email" /\ ceremony[c].person = inFront[b]
    /\ WayKind[w] = "email" /\ WayOf[w] = ceremony[c].person
    /\ Takes(c)
    /\ request' = [request EXCEPT ![b] = [step |-> "proof", of |-> c, way |-> w, link |-> NoBody]]
    /\ UNCHANGED <<peopleVars, browserVars, begun, used>>

(* Passkeys: signing in needs one that is registered. *)
PasskeyOptions ==
  /\ NewCeremony([kind |-> "passkey", link |-> NoBody, person |-> NoBody])
  /\ UNCHANGED <<peopleVars, browserVars, request>>

PasskeySignIn(b) ==
  \E c \in Ceremony, w \in Way :
    /\ Idles(b) /\ ceremony[c].kind = "passkey" /\ WayKind[w] = "passkey" /\ WayOf[w] = inFront[b]
    /\ Takes(c)
    /\ \/ identity[w] = NoBody /\ UNCHANGED request
       \/ /\ identity[w] # NoBody
          /\ request' = [request EXCEPT ![b] = [step |-> "proof", of |-> c, way |-> w, link |-> NoBody]]
    /\ UNCHANGED <<peopleVars, browserVars, begun, used>>

RegisterOptions(b) ==
  /\ Idles(b) /\ SignedIn(b, session[b])
  /\ NewCeremony([kind |-> "register", link |-> session[b], person |-> NoBody])
  /\ UNCHANGED <<peopleVars, browserVars, request>>

(* register and add_passkey: an account's own ceremony, and a passkey that is registered nowhere. *)
Register(b) ==
  \E c \in Ceremony, w \in Way :
    /\ Idles(b) /\ SignedIn(b, session[b]) /\ ceremony[c].kind = "register"
    /\ WayKind[w] = "passkey" /\ WayOf[w] = inFront[b]
    /\ Takes(c)
    /\ IF ceremony[c].link = session[b] /\ identity[w] = NoBody
       THEN identity' = [identity EXCEPT ![w] = session[b]] /\ used' = [used EXCEPT ![c] = @ + 1]
       ELSE UNCHANGED <<identity, used>>
    /\ UNCHANGED <<account, entered, invitees, browserVars, begun, request>>

CeremonyExpires ==
  /\ \E c \in Ceremony : ceremony[c] # NoRow /\ Takes(c)
  /\ UNCHANGED <<peopleVars, browserVars, begun, used, request>>

-----------------------------------------------------------------------------
(* Completing one.                                                         *)

Completed(b) == used' = [used EXCEPT ![request[b].of] = @ + 1] /\ UNCHANGED <<begun, ceremony>>

(* Identities.sign_in, in one transaction, up to the account it answers. *)
Enters(b, p) ==
  /\ entered' = entered \cup {p}
  /\ request' = [request EXCEPT ![b] = [step |-> "session", of |-> request[b].of, way |-> NoBody, link |-> p]]

(* A way that is known opens its account, if that is active. *)
SignInKnown(b) ==
  LET p == identity[request[b].way] IN
  /\ request[b].step = "proof" /\ request[b].link = NoBody /\ p # NoBody
  /\ IF account[p] = "active"
     THEN invitees' = invitees \ {p} /\ Enters(b, p)
     ELSE request' = [request EXCEPT ![b] = Nowhere] /\ UNCHANGED <<entered, invitees>>
  /\ Completed(b) /\ UNCHANGED <<account, identity, browserVars>>

(* One that is new opens the account of its address, or a new account for somebody invited. *)
SignInNew(b) ==
  LET w == request[b].way  who == WayOf[w]  found == ByEmail(who) IN
  /\ request[b].step = "proof" /\ request[b].link = NoBody /\ identity[w] = NoBody /\ WayKind[w] # "passkey"
  /\ \/ /\ account[who] = "none" /\ found = {} /\ (AnyoneRegisters \/ who \in invitees)
        /\ account' = [account EXCEPT ![who] = "active"]
        /\ identity' = [identity EXCEPT ![w] = who] /\ invitees' = invitees \ {who} /\ Enters(b, who)
     \/ \E p \in found :
          /\ account[p] # "suspended"
          /\ account' = [account EXCEPT ![p] = "active"]
          /\ identity' = [identity EXCEPT ![w] = p] /\ invitees' = invitees \ {who, p} /\ Enters(b, p)
  /\ Completed(b) /\ UNCHANGED browserVars

SignInRefused(b) ==
  LET w == request[b].way  found == ByEmail(WayOf[w]) IN
  /\ request[b].step = "proof" /\ request[b].link = NoBody /\ identity[w] = NoBody
  /\ \/ WayKind[w] = "passkey"
     \/ found = {} /\ ~AnyoneRegisters /\ WayOf[w] \notin invitees
     \/ \E p \in found : account[p] = "suspended"
  /\ request' = [request EXCEPT ![b] = Nowhere]
  /\ UNCHANGED <<peopleVars, browserVars, ceremonyVars>>

(* start_session: it ends the browser's session, and the row names an account that is still there. *)
StartSession(b) ==
  LET p == request[b].link IN
  /\ request[b].step = "session"
  /\ IF account[p] = "deleted"
     THEN session' = [session EXCEPT ![b] = NoBody] /\ UNCHANGED <<cookie, page>>
     ELSE /\ session' = [session EXCEPT ![b] = p] /\ cookie' = [cookie EXCEPT ![b] = 0]
          /\ page' = [page EXCEPT ![b] = {}]
  /\ request' = [request EXCEPT ![b] = Nowhere]
  /\ UNCHANGED <<peopleVars, ceremonyVars, inFront>>

\* Mutant: a way is added to the account that began the ceremony, whoever is signed in now.
AttachToBeginner(b) ==
  LET p == request[b].link  w == request[b].way IN
  /\ request[b].step = "proof" /\ p # NoBody
  /\ IF account[p] = "active" /\ identity[w] = NoBody
     THEN identity' = [identity EXCEPT ![w] = p]
     ELSE UNCHANGED identity
  /\ request' = [request EXCEPT ![b] = Nowhere]
  /\ Completed(b) /\ UNCHANGED <<account, entered, invitees, browserVars>>

(* Login.attach and Identities.link: the account that began it must still be signed in. *)
Attach(b) ==
  LET p == request[b].link  w == request[b].way IN
  /\ request[b].step = "proof" /\ p # NoBody
  /\ IF SignedIn(b, p) /\ identity[w] = NoBody
     THEN identity' = [identity EXCEPT ![w] = p]
     ELSE UNCHANGED identity
  /\ request' = [request EXCEPT ![b] = Nowhere]
  /\ Completed(b) /\ UNCHANGED <<account, entered, invitees, browserVars>>

-----------------------------------------------------------------------------
(* The account page.                                                       *)

(* account_section: a button for each way in, unless there is only one. *)
ShowWays(b) ==
  /\ SignedIn(b, session[b])
  /\ page' = [page EXCEPT ![b] = IF Cardinality(Ways(session[b])) > 1 THEN Ways(session[b]) ELSE {}]
  /\ UNCHANGED <<peopleVars, inFront, session, cookie, ceremonyVars, request>>

(* Identities.remove: whatever the page showed, the last one stays. *)
RemoveWay(b) ==
  \E w \in page[b] :
    /\ SignedIn(b, session[b])
    /\ IF identity[w] = session[b] /\ Cardinality(Ways(session[b])) > 1
       THEN identity' = [identity EXCEPT ![w] = NoBody]
       ELSE UNCHANGED identity
    /\ page' = [page EXCEPT ![b] = {}]
    /\ UNCHANGED <<account, entered, invitees, inFront, session, cookie, ceremonyVars, request>>

SignOut(b) ==
  /\ SignedIn(b, session[b])
  /\ session' = [session EXCEPT ![b] = NoBody] /\ page' = [page EXCEPT ![b] = {}]
  /\ UNCHANGED <<peopleVars, inFront, cookie, ceremonyVars, request>>

(* A browser without a session passes to somebody else, with its tabs and cookies. *)
HandOn(b) ==
  /\ session[b] = NoBody /\ Idles(b)
  /\ \E p \in Person \ {inFront[b]} : inFront' = [inFront EXCEPT ![b] = p]
  /\ UNCHANGED <<peopleVars, session, cookie, page, ceremonyVars, request>>

-----------------------------------------------------------------------------
(* What an operator and the members of vaults do.                          *)

InvitePerson(p) ==
  /\ account[p] = "none" /\ account' = [account EXCEPT ![p] = "invited"]
  /\ UNCHANGED <<entered, identity, invitees, browserVars, ceremonyVars, request>>

(* invite_member, and withdraw, which takes the link of the invitation with it. *)
InviteMember(p) ==
  /\ p \notin invitees /\ account[p] = "none" /\ invitees' = invitees \cup {p}
  /\ UNCHANGED <<account, entered, identity, browserVars, ceremonyVars, request>>

WithdrawPerson(p) ==
  /\ p \in invitees /\ invitees' = invitees \ {p}
  /\ \/ UNCHANGED ceremony
     \/ \E c \in Ceremony : ceremony[c].kind = "email" /\ ceremony[c].person = p /\ Takes(c)
  /\ UNCHANGED <<account, entered, identity, browserVars, begun, used, request>>

SetAccountStatus(p) ==
  /\ account[p] \in {"invited", "active", "suspended"}
  /\ account' = [account EXCEPT ![p] = IF @ = "active" THEN "suspended" ELSE "active"]
  /\ UNCHANGED <<entered, identity, invitees, browserVars, ceremonyVars, request>>

(* delete_account: with its ways in and its sessions. *)
EndAccount(p) ==
  /\ account[p] \notin {"none", "deleted"} /\ account' = [account EXCEPT ![p] = "deleted"]
  /\ identity' = [w \in Way |-> IF identity[w] = p THEN NoBody ELSE identity[w]]
  /\ session' = [b \in Browser |-> IF session[b] = p THEN NoBody ELSE session[b]]
  /\ page' = [b \in Browser |-> IF session[b] = p THEN {} ELSE page[b]]
  /\ UNCHANGED <<entered, invitees, inFront, cookie, ceremonyVars, request>>

-----------------------------------------------------------------------------
SignInNext ==
  \/ SendLink \/ PasskeyOptions \/ CeremonyExpires
  \/ \E p \in Person : InvitePerson(p) \/ InviteMember(p) \/ WithdrawPerson(p) \/ SetAccountStatus(p) \/ EndAccount(p)
  \/ \E b \in Browser :
       \/ StartProvider(b) \/ Resume(b) \/ ProviderFails(b) \/ Confirm(b) \/ PasskeySignIn(b)
       \/ RegisterOptions(b) \/ Register(b)
       \/ SignInKnown(b) \/ SignInNew(b) \/ SignInRefused(b) \/ StartSession(b) \/ Attach(b)
       \/ ShowWays(b) \/ RemoveWay(b) \/ SignOut(b) \/ HandOn(b)

SignInSpec == SignInInit /\ [][SignInNext]_signInVars

-----------------------------------------------------------------------------
SignInTypeOK ==
  /\ account \in [Person -> {"none", "invited", "active", "suspended", "deleted"}]
  /\ entered \subseteq Person /\ identity \in [Way -> Person \cup {NoBody}] /\ invitees \subseteq Person
  /\ inFront \in [Browser -> Person] /\ session \in [Browser -> Person \cup {NoBody}]
  /\ cookie \in [Browser -> 0..MaxCeremonies] /\ begun \in 0..MaxCeremonies
  /\ ceremony \in [Ceremony -> [kind : {"none", "provider", "email", "passkey", "register"},
                                link : Person \cup {NoBody}, person : Person \cup {NoBody}]]
  /\ request \in [Browser -> [step : {"none", "proof", "session"}, of : 0..MaxCeremonies,
                              way : Way \cup {NoBody}, link : Person \cup {NoBody}]]
  /\ page \in [Browser -> SUBSET Way] /\ used \in [Ceremony -> Nat]

(* A way in belongs to the account of the person it is a way of, whatever ceremonies ran in the same
   browser, or in several, between the start and the end of the one that added it. *)
WaysOfTheirOwn == \A w \in Way : identity[w] \in {WayOf[w], NoBody}

(* An account somebody has signed in to keeps a way in, also when it removes them from two pages at once. *)
AWayIn == \A p \in entered : account[p] # "deleted" => Ways(p) # {}

(* A ceremony signs in, or adds a way, at most once: a link works once. *)
WorksOnce == \A c \in Ceremony : used[c] <= 1
(* Ways in belong to their persons, an account in use keeps one, and a ceremony works once. *)
SignInInv == SignInTypeOK /\ WaysOfTheirOwn /\ AWayIn /\ WorksOnce
=============================================================================
