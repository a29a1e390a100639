--------------------------- MODULE RequestProofs ----------------------------
(* The theorems about what a server lets a request do: members and their programs (Access), the staff     *)
(* (Support), how often an address may ask (RateLimits), and what the note tools write (Lifecycle).       *)
EXTENDS Access, Support, RateLimits, Lifecycle, WellFoundedInduction, SequenceTheorems, FunctionTheorems, FiniteSetTheorems, TLAPS

-----------------------------------------------------------------------------
(* The theorem about Access: for any number of requests, credentials, accounts and vaults, and whatever     *)
(* changes in between, what a request acts on it was allowed to act on.                                     *)

State == [owner : [Vault -> Account], members : SUBSET (SharedVault \X Account), slug : [Vault -> Slug],
          suspended : SUBSET Account, limit : [Account -> SUBSET {"read", "write"}], live : SUBSET Credential]
Steps == {"none", "row", "account", "vault", "reaches", "admitted", "acts", "forwarded", "own", "shared"}
Held == [step : Steps, cred : Credential \cup {Nothing}, asked : Slug \cup {Nothing}, tool : Tool \cup {"none"},
         begun : Nat, vault : Vault \cup {Nothing}, at : Slug \cup {Nothing}, owner : Account \cup {Nothing},
         active : BOOLEAN, scopes : SUBSET {"read", "write"}, again : BOOLEAN, author : Account \cup {Nothing}]

Past == past \in Seq(State) /\ Len(past) \in 1..(MaxChanges + 1)

(* What held at one moment or another since a request began. *)
Moments(q) == q.begun..Len(past)
Holder(q) == CredOf[q.cred].account
WasLive(q) == \E i \in Moments(q) : q.cred \in past[i].live
WasActive(q) == \E i \in Moments(q) : Holder(q) \notin past[i].suspended
WasReached(q) == \E i \in Moments(q) : Reaches(past[i], Holder(q), q.vault)
WasNamed(q) == \E i \in Moments(q) : q.asked \in {Nothing, past[i].slug[q.vault]}
CouldRead(q) == \E i \in Moments(q) : past[i].limit[Holder(q)] # {}
CouldWrite(q) == \E i \in Moments(q) : "write" \in past[i].limit[Holder(q)]
WasRow(q) == \E i \in Moments(q) : past[i].owner[q.vault] = q.owner /\ past[i].slug[q.vault] = q.at

(* The key or the membership was not there, or the vault had two owners in turn. *)
Unsigned(q) ==
  \/ \E i \in Moments(q) : q.cred \notin past[i].live \/ ~Reaches(past[i], Holder(q), q.vault)
  \/ \E i, j \in Moments(q) : past[i].owner[q.vault] # past[j].owner[q.vault]

Admitted(q) ==
  /\ CredOf[q.cred].kind = "forwarded" \/ (WasLive(q) /\ q.vault = CredOf[q.cred].vault)
  /\ WasActive(q) /\ WasReached(q) /\ WasNamed(q) /\ CouldRead(q) /\ q.vault \in Vault
MayWrite(q) == "write" \in CredOf[q.cred].scopes /\ CouldWrite(q)
Allowed(q) == Admitted(q) /\ (q.tool \in WritingTools => MayWrite(q))

(* What a request knows at each of its steps. *)
Good(q) ==
  /\ q \in Held /\ q.begun \in 1..Len(past)
  /\ q.step # "none" => q.cred \in Credential
  /\ q.step \in {"row", "account", "vault", "reaches"} => CredOf[q.cred].kind # "forwarded"
  /\ q.step \in {"forwarded", "own", "shared"} => CredOf[q.cred].kind = "forwarded" /\ q.tool \notin DavTools
  /\ q.step \in {"account", "vault", "reaches"} => WasLive(q)
  /\ q.step \in {"vault", "reaches", "own", "shared"} /\ q.active => WasActive(q)
  /\ q.step = "reaches" => q.vault = CredOf[q.cred].vault /\ WasRow(q)
  /\ q.step # "none" /\ q.tool \in DavTools => q.asked = Nothing /\ CredOf[q.cred].kind # "forwarded"
  /\ q.step # "none" /\ q.again => q.tool \in DavTools /\ Allowed(q) /\ ~CredOf[q.cred].named
  /\ q.step \in {"account", "vault", "reaches"} => ~CredOf[q.cred].named \/ q.asked # Nothing
  /\ q.step = "admitted" => Admitted(q) /\ ("write" \in q.scopes => MayWrite(q)) /\ q.tool \notin DavTools
  /\ q.step = "acts" =>
       /\ Allowed(q) /\ (q.tool \in MachineTools => CredOf[q.cred].purpose = "machine")
       /\ q.vault \in SharedVault => q.tool \notin SharedRefuses
       /\ q.author = Nothing => q.tool \in DavTools /\ Unsigned(q)

AccessIInv == Past /\ request \in [Request -> Held] /\ \A r \in Request : Good(request[r])
-----------------------------------------------------------------------------
LEMMA NoRequestGood == Past => NoRequest \in Held /\ Good(NoRequest)
<1> SUFFICES ASSUME Past PROVE NoRequest \in Held /\ Good(NoRequest)
  OBVIOUS
<1>1. NoRequest \in Held /\ NoRequest.step = "none" /\ NoRequest.begun = 1
  BY DEF NoRequest, Held, Steps
<1>2. 1 \in 1..Len(past)
  BY DEF Past
<1>3. QED
  BY <1>1, <1>2 DEF Good

LEMMA AccessInitHolds == AccessInit => AccessIInv
<1> SUFFICES ASSUME AccessInit PROVE AccessIInv
  OBVIOUS
<1>1. PICK o \in [Vault -> Account], m \in SUBSET (SharedVault \X Account), s \in [Vault -> Slug] :
        past = <<[owner |-> o, members |-> m, slug |-> s, suspended |-> {},
                  limit |-> [a \in Account |-> {"read", "write"}], live |-> Credential]>>
  BY DEF AccessInit
<1>2. [owner |-> o, members |-> m, slug |-> s, suspended |-> {},
       limit |-> [a \in Account |-> {"read", "write"}], live |-> Credential] \in State
  BY DEF State
<1>3. Past
  <2>1. past \in Seq(State) /\ Len(past) = 1
    BY <1>1, <1>2
  <2>2. QED
    BY <2>1, AccessAssumption DEF Past
<1>4. QED
  BY <1>3, NoRequestGood DEF AccessInit, AccessIInv

(* The past grows, and what held once, held. *)
LEMMA Grows ==
  ASSUME Past, NEW state \in State, past' = Append(past, state), Len(past) <= MaxChanges
  PROVE  /\ Past' /\ Len(past') = Len(past) + 1 /\ \A i \in 1..Len(past) : past'[i] = past[i]
<1>1. past' \in Seq(State) /\ Len(past') = Len(past) + 1 /\ \A i \in 1..Len(past) : past'[i] = past[i]
  BY DEF Past
<1>2. QED
  BY <1>1, AccessAssumption DEF Past

LEMMA GoodStays ==
  ASSUME Past, NEW state \in State, past' = Append(past, state), Len(past) <= MaxChanges, NEW q, Good(q)
  PROVE  Good(q)'
<1>1. Past' /\ Len(past') = Len(past) + 1 /\ \A i \in 1..Len(past) : past'[i] = past[i]
  BY Grows
<1>2. q.begun \in 1..Len(past) /\ Len(past) \in Nat
  BY DEF Good, Past
<1>3. \A i \in Moments(q) : i \in Moments(q)' /\ past'[i] = past[i]
  BY <1>1, <1>2 DEF Moments
<1>4. (WasLive(q) => WasLive(q)') /\ (WasActive(q) => WasActive(q)')
  BY <1>3 DEF WasLive, WasActive
<1>5. (WasReached(q) => WasReached(q)') /\ (WasNamed(q) => WasNamed(q)') /\ (WasRow(q) => WasRow(q)')
  BY <1>3 DEF WasReached, WasNamed, WasRow
<1>6. (CouldRead(q) => CouldRead(q)') /\ (CouldWrite(q) => CouldWrite(q)')
  BY <1>3 DEF CouldRead, CouldWrite
<1>7. Unsigned(q) => Unsigned(q)'
  <2>1. ASSUME NEW i \in Moments(q), q.cred \notin past[i].live \/ ~Reaches(past[i], Holder(q), q.vault)
        PROVE  Unsigned(q)'
    BY <1>3, <2>1 DEF Unsigned
  <2>2. ASSUME NEW i \in Moments(q), NEW j \in Moments(q), past[i].owner[q.vault] # past[j].owner[q.vault]
        PROVE  Unsigned(q)'
    <3>1. i \in Moments(q)' /\ j \in Moments(q)' /\ past'[i].owner[q.vault] # past'[j].owner[q.vault]
      BY <1>3, <2>2
    <3>2. QED
      BY <3>1 DEF Unsigned
  <2>3. QED
    BY <2>1, <2>2 DEF Unsigned
<1>8. (Admitted(q) => Admitted(q)') /\ (MayWrite(q) => MayWrite(q)') /\ (Allowed(q) => Allowed(q)')
  BY <1>4, <1>5, <1>6 DEF Admitted, MayWrite, Allowed
<1>9. q.begun \in 1..Len(past')
  BY <1>1, <1>2
<1>10. QED
  BY <1>4, <1>5, <1>7, <1>8, <1>9 DEF Good

LEMMA ChangesKeep ==
  ASSUME AccessIInv, NEW state \in State, Changes(state)
  PROVE  AccessIInv'
<1>1. Past' 
  BY Grows DEF AccessIInv, Changes
<1>2. \A r \in Request : Good(request[r])'
  <2> SUFFICES ASSUME NEW r \in Request PROVE Good(request[r])'
    OBVIOUS
  <2>1. request' = request
    BY DEF Changes
  <2>2. \A q : Good(q) => Good(q)'
    BY GoodStays DEF AccessIInv, Changes
  <2>3. QED
    BY <2>1, <2>2 DEF AccessIInv
<1>3. QED
  BY <1>1, <1>2 DEF AccessIInv, Changes

(* What a step makes of one request's record. *)
LEMMA SetsKeep ==
  ASSUME AccessIInv, NEW r \in Request, NEW q, q \in Held, Good(q), Sets(r, q)
  PROVE  AccessIInv'
<1>1. Past' /\ past' = past /\ request' \in [Request -> Held] /\ request'[r] = q
  BY DEF AccessIInv, Sets, Past
<1>2. ASSUME NEW s \in Request PROVE Good(request[s])'
  <2>1. \A x : Good(x) => Good(x)'
    BY <1>1 DEF Good, WasLive, WasActive, WasReached, WasNamed, CouldRead, CouldWrite, WasRow, Unsigned,
                Admitted, MayWrite, Allowed, Moments
  <2>2. Good(request'[s])
    BY <1>1 DEF AccessIInv, Sets
  <2>3. QED
    BY <2>1, <2>2
<1>3. QED
  BY <1>1, <1>2 DEF AccessIInv

(* What is now is a moment of every request. *)
LEMMA NowIsAMoment ==
  ASSUME Past, NEW q, q.begun \in 1..Len(past)
  PROVE  Len(past) \in Moments(q) /\ Now = past[Len(past)] /\ Now \in State
BY DEF Past, Moments, Now

LEMMA ChangeSteps ==
  ASSUME AccessIInv, Join \/ RemoveMember \/ HandOver \/ Rename \/ Suspend \/ Narrow \/ Revoke
  PROVE  AccessIInv'
<1>1. Now \in State
  BY DEF AccessIInv, Past, Now
<1>2. CASE Join
  <2>1. PICK v \in SharedVault, a \in Account : Changes([Now EXCEPT !.members = @ \cup {<<v, a>>}])
    BY <1>2 DEF Join
  <2>2. [Now EXCEPT !.members = @ \cup {<<v, a>>}] \in State
    BY <1>1 DEF State
  <2>3. QED
    BY <2>1, <2>2, ChangesKeep
<1>3. CASE RemoveMember
  <2> DEFINE Left(x) == [Now EXCEPT !.members = @ \ {x},
                                    !.live = {c \in @ : ~(CredOf[c].vault = x[1] /\ CredOf[c].account = x[2])}]
  <2>1. PICK x \in Now.members : Changes(Left(x))
    BY <1>3 DEF RemoveMember
  <2>2. Left(x) \in State
    BY <1>1 DEF State
  <2>3. QED
    BY <2>1, <2>2, ChangesKeep
<1>4. CASE HandOver
  <2> DEFINE Left(x) == [Now EXCEPT !.owner[x[1]] = x[2], !.members = (@ \ {x}) \cup {<<x[1], Now.owner[x[1]]>>}]
  <2>1. PICK x \in Now.members : Changes(Left(x))
    BY <1>4 DEF HandOver
  <2>2. x \in SharedVault \X Account
    BY <1>1 DEF State
  <2>3. x[1] \in SharedVault /\ x[2] \in Account /\ Now.owner[x[1]] \in Account
    BY <1>1, <2>2, AccessAssumption DEF State
  <2>4. [Now.owner EXCEPT ![x[1]] = x[2]] \in [Vault -> Account]
    BY <1>1, <2>3, AccessAssumption DEF State
  <2>5. <<x[1], Now.owner[x[1]]>> \in SharedVault \X Account
    BY <2>3
  <2>6. Left(x) \in State
    BY <1>1, <2>4, <2>5 DEF State
  <2>7. QED
    BY <2>1, <2>6, ChangesKeep
<1>5. CASE Rename
  <2>1. PICK v \in Vault, s \in Slug : Changes([Now EXCEPT !.slug[v] = s])
    BY <1>5 DEF Rename
  <2>2. [Now EXCEPT !.slug[v] = s] \in State
    BY <1>1 DEF State
  <2>3. QED
    BY <2>1, <2>2, ChangesKeep
<1>6. CASE Suspend
  <2>1. PICK a \in Account : Changes([Now EXCEPT !.suspended = @ \cup {a}])
    BY <1>6 DEF Suspend
  <2>2. [Now EXCEPT !.suspended = @ \cup {a}] \in State
    BY <1>1 DEF State
  <2>3. QED
    BY <2>1, <2>2, ChangesKeep
<1>7. CASE Narrow
  <2>1. PICK a \in Account, s \in {{}, {"read"}} : Changes([Now EXCEPT !.limit[a] = s])
    BY <1>7 DEF Narrow
  <2>2. [Now EXCEPT !.limit[a] = s] \in State
    BY <1>1 DEF State
  <2>3. QED
    BY <2>1, <2>2, ChangesKeep
<1>8. CASE Revoke
  <2>1. PICK c \in Now.live : Changes([Now EXCEPT !.live = @ \ {c}])
    BY <1>8 DEF Revoke
  <2>2. [Now EXCEPT !.live = @ \ {c}] \in State
    BY <1>1 DEF State
  <2>3. QED
    BY <2>1, <2>2, ChangesKeep
<1>9. QED
  BY <1>2, <1>3, <1>4, <1>5, <1>6, <1>7, <1>8

LEMMA RefusedKeeps ==
  ASSUME AccessIInv, NEW r \in Request, Refused(r)
  PROVE  AccessIInv'
BY NoRequestGood, SetsKeep DEF AccessIInv, Refused

(* What a request knows rests on these of its fields only. *)
SameRequest(q, p) == q.cred = p.cred /\ q.asked = p.asked /\ q.tool = p.tool /\ q.begun = p.begun
LEMMA Alike ==
  ASSUME NEW q, NEW p, SameRequest(q, p)
  PROVE  /\ Moments(q) = Moments(p) /\ Holder(q) = Holder(p)
         /\ WasLive(q) <=> WasLive(p)
         /\ WasActive(q) <=> WasActive(p)
         /\ MayWrite(q) <=> MayWrite(p)
         /\ CouldRead(q) <=> CouldRead(p)
         /\ q.vault = p.vault => (Admitted(q) <=> Admitted(p)) /\ (Allowed(q) <=> Allowed(p))
         /\ q.vault = p.vault => (Unsigned(q) <=> Unsigned(p))
         /\ q.vault = p.vault /\ q.owner = p.owner /\ q.at = p.at => (WasRow(q) <=> WasRow(p))
<1>1. Moments(q) = Moments(p) /\ Holder(q) = Holder(p)
  BY DEF SameRequest, Moments, Holder
<1>2. (WasLive(q) <=> WasLive(p)) /\ (WasActive(q) <=> WasActive(p))
  BY <1>1 DEF SameRequest, WasLive, WasActive
<1>3. (MayWrite(q) <=> MayWrite(p)) /\ (CouldRead(q) <=> CouldRead(p))
  BY <1>1 DEF SameRequest, MayWrite, CouldWrite, CouldRead
<1>4. ASSUME q.vault = p.vault 
      PROVE  (Admitted(q) <=> Admitted(p)) /\ (Allowed(q) <=> Allowed(p)) /\ (Unsigned(q) <=> Unsigned(p))
  <2>1. (WasReached(q) <=> WasReached(p)) /\ (WasNamed(q) <=> WasNamed(p))
    BY <1>1, <1>4 DEF SameRequest, WasReached, WasNamed
  <2>2. Unsigned(q) <=> Unsigned(p)
    BY <1>1, <1>4 DEF SameRequest, Unsigned
  <2>3. QED
    BY <1>2, <1>3, <1>4, <2>1, <2>2 DEF Allowed, Admitted, SameRequest
<1>5. ASSUME q.vault = p.vault, q.owner = p.owner, q.at = p.at PROVE WasRow(q) <=> WasRow(p)
  BY <1>1, <1>5 DEF WasRow
<1>6. QED
  BY <1>1, <1>2, <1>3, <1>4, <1>5, Zenon

(* A WebDAV request that was let in acts unsigned, when its key or its membership is gone. *)
LEMMA FailsKeeps ==
  ASSUME AccessIInv, NEW r \in Request, Fails(r), request[r].step \in {"row", "reaches"},
         request[r].again => Unsigned(request[r])
  PROVE  AccessIInv'
<1> DEFINE q == [request[r] EXCEPT !.step = "acts"]
<1>1. CASE ~request[r].again
  BY <1>1, RefusedKeeps DEF Fails
<1>2. CASE request[r].again
  <2>1. request[r] \in Held /\ Good(request[r])
    BY DEF AccessIInv
  <2>2. q \in Held /\ q.step = "acts" /\ q.again /\ q.vault = request[r].vault /\ SameRequest(q, request[r])
    BY <1>2, <2>1 DEF Held, SameRequest, Steps
  <2> HIDE DEF q
  <2>3. Allowed(q) /\ Unsigned(q) /\ q.tool \in DavTools /\ ~CredOf[q.cred].named
    <3>1. Allowed(request[r]) /\ request[r].tool \in DavTools /\ ~CredOf[request[r].cred].named
      BY <1>2, <2>1 DEF Good
    <3>2. (Allowed(q) <=> Allowed(request[r])) /\ (Unsigned(q) <=> Unsigned(request[r]))
      BY <2>2, Alike, Zenon
    <3>3. QED
      BY <1>2, <2>2, <3>1, <3>2 DEF SameRequest
  <2>4. q.tool \notin MachineTools /\ q.tool \notin SharedRefuses
    BY <2>3 DEF DavTools, MachineTools, SharedRefuses
  <2>5. /\ q.begun \in 1..Len(past) /\ q.cred \in Credential
        /\ q.asked = Nothing /\ CredOf[q.cred].kind # "forwarded"
    BY <2>1, <2>2, <2>3 DEF Good, SameRequest
  <2>6. Good(q)
    BY <2>2, <2>3, <2>4, <2>5 DEF Good
  <2>7. Sets(r, q)
    BY <1>2 DEF Fails, q
  <2>8. QED
    BY <2>2, <2>6, <2>7, SetsKeep
<1>3. QED
  BY <1>1, <1>2 DEF AccessIInv, Held

LEMMA BeginKeeps ==
  ASSUME AccessIInv, NEW r \in Request, Begin(r)
  PROVE  AccessIInv'
<1>1. PICK c \in Credential, s \in Slug \cup {Nothing}, t \in Tool :
        /\ t \in DavTools => CredOf[c].kind = "key" /\ s = Nothing
        /\ Sets(r, [NoRequest EXCEPT !.step = IF CredOf[c].kind = "forwarded" THEN "forwarded" ELSE "row",
                                     !.cred = c, !.asked = s, !.tool = t, !.begun = Len(past)])
  BY DEF Begin
<1> DEFINE q == [NoRequest EXCEPT !.step = IF CredOf[c].kind = "forwarded" THEN "forwarded" ELSE "row",
                                  !.cred = c, !.asked = s, !.tool = t, !.begun = Len(past)]
<1>2. q \in Held /\ q.step = IF CredOf[c].kind = "forwarded" THEN "forwarded" ELSE "row"
  <2>1. Len(past) \in Nat
    BY DEF AccessIInv, Past
  <2>2. QED
    BY <2>1 DEF NoRequest, Held, Steps
<1>3. q.cred = c /\ q.asked = s /\ q.tool = t /\ q.begun = Len(past) /\ q.again = FALSE
  BY DEF NoRequest
<1>4. Len(past) \in 1..Len(past)
  BY DEF AccessIInv, Past
<1>5. Sets(r, q)
  BY <1>1
<1> HIDE DEF q
<1>6. Good(q)
  BY <1>1, <1>2, <1>3, <1>4 DEF Good
<1>7. QED
  BY <1>2, <1>5, <1>6, SetsKeep

LEMMA RowKeeps ==
  ASSUME AccessIInv, NEW r \in Request, Row(r)
  PROVE  AccessIInv'
<1> DEFINE p == request[r]
           q == [p EXCEPT !.step = "account"]
<1>1. p \in Held /\ Good(p) /\ p.step = "row"
  BY DEF AccessIInv, Row, At
<1>2. Len(past) \in Moments(p) /\ Now = past[Len(past)]
  BY <1>1, NowIsAMoment DEF AccessIInv, Good
<1>3. CASE p.cred \notin Now.live \/ (CredOf[p.cred].named /\ p.asked = Nothing)
  <2>1. Fails(r)
    BY <1>3 DEF Row
  <2>2. p.again => Unsigned(p)
    BY <1>1, <1>2, <1>3 DEF Good, Unsigned
  <2>3. QED
    BY <1>1, <2>1, <2>2, FailsKeeps
<1>4. CASE p.cred \in Now.live /\ (~CredOf[p.cred].named \/ p.asked # Nothing)
  <2>1. Sets(r, q)
    BY <1>4 DEF Row
  <2>2. q \in Held /\ q.step = "account" /\ q.vault = p.vault /\ q.again = p.again /\ SameRequest(q, p)
    BY <1>1 DEF Held, SameRequest, Steps
  <2> HIDE DEF q
  <2>3. WasLive(q)
    BY <1>2, <1>4, <2>2, Alike DEF WasLive
  <2>4. q.again => Allowed(q)
    <3>1. p.again => Allowed(p)
      BY <1>1 DEF Good
    <3>2. Allowed(q) <=> Allowed(p)
      BY <2>2, Alike, Zenon
    <3>3. QED
      BY <2>2, <3>1, <3>2
  <2>5. Good(q)
    BY <1>1, <1>4, <2>2, <2>3, <2>4 DEF Good, SameRequest
  <2>6. QED
    BY <2>1, <2>2, <2>5, SetsKeep
<1>5. QED
  BY <1>3, <1>4

LEMMA ItsAccountKeeps ==
  ASSUME AccessIInv, NEW r \in Request, ItsAccount(r)
  PROVE  AccessIInv'
<1> DEFINE p == request[r]
           active == Holder(p) \notin Now.suspended
           q == [p EXCEPT !.step = "vault", !.active = active]
<1>1. p \in Held /\ Good(p) /\ p.step = "account" /\ Sets(r, q)
  BY DEF AccessIInv, ItsAccount, At, Holder
<1>2. Len(past) \in Moments(p) /\ Now = past[Len(past)]
  BY <1>1, NowIsAMoment DEF AccessIInv, Good
<1>a. active \in BOOLEAN /\ (active => Holder(p) \notin Now.suspended)
  OBVIOUS
<1> HIDE DEF active
<1>3. q \in Held /\ q.step = "vault" /\ q.vault = p.vault /\ q.again = p.again /\ SameRequest(q, p) /\ q.active = active
  BY <1>1, <1>a DEF Held, SameRequest, Steps
<1> HIDE DEF q
<1>4. /\ WasActive(q) <=> WasActive(p)
      /\ WasLive(q) <=> WasLive(p)
      /\ Allowed(q) <=> Allowed(p)
  BY <1>3, Alike, Zenon
<1>5. q.active => WasActive(q)
  BY <1>2, <1>a, <1>3, <1>4 DEF WasActive
<1>6. WasLive(q) /\ (q.again => Allowed(q))
  BY <1>1, <1>3, <1>4 DEF Good
<1>7. Good(q)
  BY <1>1, <1>3, <1>5, <1>6 DEF Good, SameRequest
<1>8. QED
  BY <1>1, <1>3, <1>7, SetsKeep

LEMMA ItsVaultKeeps ==
  ASSUME AccessIInv, NEW r \in Request, ItsVault(r)
  PROVE  AccessIInv'
<1> DEFINE p == request[r]
           v == CredOf[p.cred].vault
           q == [p EXCEPT !.step = "reaches", !.vault = v, !.at = Now.slug[v], !.owner = Now.owner[v]]
<1>1. p \in Held /\ Good(p) /\ p.step = "vault" /\ Sets(r, q)
  BY DEF AccessIInv, ItsVault, At
<1>2. Len(past) \in Moments(p) /\ Now = past[Len(past)] /\ Now \in State
  BY <1>1, NowIsAMoment DEF AccessIInv, Good
<1>3. p.cred \in Credential /\ CredOf[p.cred].kind # "forwarded" /\ v \in Vault
  BY <1>1, AccessAssumption DEF Good
<1>4. Now.slug[v] \in Slug /\ Now.owner[v] \in Account
  BY <1>2, <1>3 DEF State
<1>5. /\ q \in Held /\ q.step = "reaches" /\ q.again = p.again /\ q.active = p.active /\ SameRequest(q, p)
      /\ q.vault = v /\ q.at = Now.slug[v] /\ q.owner = Now.owner[v]
  BY <1>1, <1>3, <1>4 DEF Held, SameRequest, Steps
<1>6. q.again => q.vault = p.vault
  BY <1>1, <1>3, <1>5 DEF Good, Allowed, Admitted
<1> HIDE DEF q
<1>7. /\ WasActive(q) <=> WasActive(p)
      /\ WasLive(q) <=> WasLive(p)
      /\ q.vault = p.vault => (Allowed(q) <=> Allowed(p))
      /\ Moments(q) = Moments(p)
  BY <1>5, Alike, Zenon
<1>8. WasRow(q)
  BY <1>2, <1>5, <1>7 DEF WasRow
<1>9. WasLive(q) /\ (q.active => WasActive(q)) /\ (q.again => Allowed(q))
  BY <1>1, <1>5, <1>6, <1>7 DEF Good
<1>10. Good(q)
  BY <1>1, <1>5, <1>8, <1>9 DEF Good, SameRequest
<1>11. QED
  BY <1>1, <1>5, <1>10, SetsKeep

(* A request whose account reaches the vault, by the address it asked for. *)
LEMMA VerdictKeeps ==
  ASSUME AccessIInv, NEW r \in Request, NEW x, Verdict(r, x), x \in Held, x.begun \in 1..Len(past), x.cred \in Credential,
         x.tool \notin DavTools, ~x.again, x.vault \in Vault, WasReached(x), WasNamed(x), x.active => WasActive(x),
         CredOf[x.cred].kind = "forwarded" \/ (WasLive(x) /\ x.vault = CredOf[x.cred].vault)
  PROVE  AccessIInv'
<1> DEFINE scopes == CredOf[x.cred].scopes \cap Now.limit[CredOf[x.cred].account]
           q == [x EXCEPT !.step = "admitted", !.scopes = scopes]
<1>1. CASE ~x.active \/ scopes = {}
  BY <1>1, RefusedKeeps DEF Verdict
<1>2. CASE x.active /\ scopes # {}
  <2>1. Sets(r, q)
    BY <1>2 DEF Verdict
  <2>2. Len(past) \in Moments(x) /\ Now = past[Len(past)] /\ Now \in State
    BY NowIsAMoment DEF AccessIInv
  <2>3. scopes \subseteq {"read", "write"}
    BY AccessAssumption
  <2>4. /\ q \in Held /\ q.step = "admitted" /\ q.vault = x.vault /\ q.again = x.again /\ SameRequest(q, x)
        /\ q.scopes = scopes
    BY <2>3 DEF Held, SameRequest, Steps
  <2> HIDE DEF q
  <2>5. CouldRead(x)
    BY <1>2, <2>2 DEF CouldRead, Holder
  <2>6. "write" \in scopes => MayWrite(x)
    BY <2>2 DEF MayWrite, CouldWrite, Holder
  <2>7. Admitted(x)
    BY <1>2, <2>5 DEF Admitted
  <2>8. (Admitted(q) <=> Admitted(x)) /\ (MayWrite(q) <=> MayWrite(x))
    BY <2>4, Alike, Zenon
  <2>9. Good(q)
    BY <2>4, <2>6, <2>7, <2>8 DEF Good, SameRequest
  <2>10. QED
    BY <2>1, <2>4, <2>9, SetsKeep
<1>3. QED
  BY <1>1, <1>2 DEF Held

LEMMA FoundKeeps ==
  ASSUME AccessIInv, NEW r \in Request, Found(r)
  PROVE  AccessIInv'
<1> DEFINE p == request[r]
           c == p.cred
           a == CredOf[c].account
           scopes == CredOf[c].scopes \cap Now.limit[a]
<1>1. p \in Held /\ Good(p) /\ p.step = "reaches"
  BY DEF AccessIInv, Found, At
<1>2. /\ Len(past) \in Moments(p) /\ Now = past[Len(past)] /\ Now \in State
      /\ \A i \in Moments(p) : past[i] \in State
  BY <1>1, NowIsAMoment DEF AccessIInv, Good, Past, Moments
<1>3. c \in Credential /\ CredOf[c].kind # "forwarded" /\ p.vault = CredOf[c].vault /\ p.vault \in Vault
  BY <1>1, AccessAssumption DEF Good
<1>4. WasLive(p) /\ (p.active => WasActive(p)) /\ p.begun \in 1..Len(past) /\ a \in Account
  BY <1>1, <1>3, AccessAssumption DEF Good
<1>5. PICK i \in Moments(p) : past[i].owner[p.vault] = p.owner /\ past[i].slug[p.vault] = p.at
  BY <1>1 DEF Good, WasRow
<1>6. CASE ~ReachesStill(r) /\ Fails(r)
  <2>1. ~Reaches(Now, a, p.vault) \/ past[i].owner[p.vault] # Now.owner[p.vault]
    BY <1>5, <1>6 DEF ReachesStill, Reaches
  <2>2. Unsigned(p)
    BY <1>2, <2>1 DEF Unsigned, Holder
  <2>3. QED
    BY <1>1, <1>6, <2>2, FailsKeeps
<1>7. CASE ReachesStill(r) /\ p.again /\ Sets(r, [p EXCEPT !.step = "acts", !.author = a])
  <2> DEFINE q == [p EXCEPT !.step = "acts", !.author = a]
  <2>1. /\ q \in Held /\ q.step = "acts" /\ q.vault = p.vault /\ q.again = p.again /\ SameRequest(q, p)
        /\ q.author # Nothing
    BY <1>1, <1>4, AccessAssumption DEF Held, SameRequest, Steps
  <2> HIDE DEF q
  <2>2. Allowed(p) /\ p.tool \in DavTools /\ ~CredOf[p.cred].named
    BY <1>1, <1>7 DEF Good
  <2>3. Allowed(q) <=> Allowed(p)
    BY <2>1, Alike, Zenon
  <2>4. q.tool \notin MachineTools /\ q.tool \notin SharedRefuses
    BY <2>1, <2>2 DEF SameRequest, DavTools, MachineTools, SharedRefuses
  <2>5. Good(q)
    BY <1>1, <2>1, <2>2, <2>3, <2>4 DEF Good, SameRequest
  <2>6. QED
    BY <1>7, <2>1, <2>5, SetsKeep DEF q
<1>8. ReachesStill(r) => WasReached(p)
  BY <1>2, <1>3, <1>5 DEF ReachesStill, WasReached, Reaches, Holder
<1>9. ASSUME ReachesStill(r), ~p.again, p.tool \in DavTools, p.active, scopes # {}, p.tool = "PUT" => "write" \in scopes,
             Sets(r, [p EXCEPT !.step = "row", !.scopes = scopes, !.again = TRUE])
      PROVE  AccessIInv'
  <2> DEFINE q == [p EXCEPT !.step = "row", !.scopes = scopes, !.again = TRUE]
  <2>1. scopes \subseteq {"read", "write"}
    BY <1>3, AccessAssumption
  <2>2. q \in Held /\ q.step = "row" /\ q.vault = p.vault /\ SameRequest(q, p)
    BY <1>1, <2>1 DEF Held, SameRequest, Steps
  <2>3. CouldRead(p) /\ ("write" \in scopes => MayWrite(p))
    BY <1>2, <1>9 DEF CouldRead, MayWrite, CouldWrite, Holder
  <2>4. p.asked = Nothing /\ ~CredOf[c].named
    BY <1>1, <1>9 DEF Good
  <2>5. WasNamed(p)
    BY <1>2, <2>4 DEF WasNamed
  <2>6. p.tool \in WritingTools => p.tool = "PUT"
    BY <1>9 DEF DavTools, WritingTools
  <2>7. Allowed(p)
    BY <1>3, <1>4, <1>8, <1>9, <2>3, <2>5, <2>6 DEF Allowed, Admitted
  <2> HIDE DEF q
  <2>8. Allowed(q) <=> Allowed(p)
    BY <2>2, Alike, Zenon
  <2>9. Good(q)
    BY <1>1, <1>3, <1>4, <1>9, <2>2, <2>4, <2>7, <2>8 DEF Good, SameRequest
  <2>10. QED
    BY <1>9, <2>2, <2>9, SetsKeep DEF q
<1>10. ASSUME ReachesStill(r), ~p.again, p.tool \notin DavTools, p.asked \in {Nothing, p.at}, Verdict(r, p) PROVE AccessIInv'
  <2>1. WasNamed(p)
    BY <1>5, <1>10 DEF WasNamed
  <2>2. QED
    BY <1>1, <1>3, <1>4, <1>8, <1>10, <2>1, VerdictKeeps
<1>11. CASE Refused(r)
  BY <1>11, RefusedKeeps
<1>12. QED
  BY <1>6, <1>7, <1>9, <1>10, <1>11 DEF Found

LEMMA ForwardedKeeps ==
  ASSUME AccessIInv, NEW r \in Request, Forwarded(r)
  PROVE  AccessIInv'
<1> DEFINE p == request[r]
           active == Holder(p) \notin Now.suspended
           q == [p EXCEPT !.step = "own", !.active = active]
<1>1. p \in Held /\ Good(p) /\ p.step = "forwarded" /\ Sets(r, q)
  BY DEF AccessIInv, Forwarded, At, Holder
<1>2. Len(past) \in Moments(p) /\ Now = past[Len(past)]
  BY <1>1, NowIsAMoment DEF AccessIInv, Good
<1>3. active \in BOOLEAN /\ (active => Holder(p) \notin Now.suspended)
  OBVIOUS
<1> HIDE DEF active
<1>4. q \in Held /\ q.step = "own" /\ q.vault = p.vault /\ q.again = p.again /\ SameRequest(q, p) /\ q.active = active
  BY <1>1, <1>3 DEF Held, SameRequest, Steps
<1> HIDE DEF q
<1>5. WasActive(q) <=> WasActive(p)
  BY <1>4, Alike, Zenon
<1>6. q.active => WasActive(q)
  BY <1>2, <1>3, <1>4, <1>5 DEF WasActive
<1>7. ~q.again
  BY <1>1, <1>4 DEF Good
<1>8. Good(q)
  BY <1>1, <1>4, <1>6, <1>7 DEF Good, SameRequest
<1>9. QED
  BY <1>1, <1>4, <1>8, SetsKeep

(* By whichever way a forwarded account reaches the vault it has now, the request is judged. *)
LEMMA OpensKeeps ==
  ASSUME AccessIInv, NEW r \in Request, request[r].step \in {"own", "shared"}, NEW v \in Vault, Opens(r, v),
         Reaches(Now, CredOf[request[r].cred].account, v), request[r].asked \in {Nothing, Now.slug[v]}
  PROVE  AccessIInv'
<1> DEFINE p == request[r]
           x == [p EXCEPT !.vault = v, !.at = Now.slug[v]]
<1>1. p \in Held /\ Good(p) /\ Verdict(r, x)
  BY DEF AccessIInv, Opens
<1>2. Len(past) \in Moments(p) /\ Now = past[Len(past)] /\ Now \in State
  BY <1>1, NowIsAMoment DEF AccessIInv, Good
<1>3. Now.slug[v] \in Slug
  BY <1>2 DEF State
<1>4. x \in Held /\ x.vault = v /\ x.again = p.again /\ x.active = p.active /\ SameRequest(x, p) /\ x.step = p.step
  BY <1>1, <1>3 DEF Held, SameRequest
<1> HIDE DEF x
<1>5. Moments(x) = Moments(p) /\ Holder(x) = Holder(p) /\ (WasActive(x) <=> WasActive(p))
  BY <1>4, Alike, Zenon
<1>6. WasReached(x)
  BY <1>2, <1>4, <1>5 DEF WasReached, Holder
<1>7. WasNamed(x)
  BY <1>2, <1>4, <1>5 DEF WasNamed, SameRequest
<1>8. /\ x.begun \in 1..Len(past) /\ x.cred \in Credential /\ CredOf[x.cred].kind = "forwarded"
      /\ x.tool \notin DavTools /\ ~x.again /\ (x.active => WasActive(x))
  BY <1>1, <1>4, <1>5 DEF Good, SameRequest
<1>9. QED
  BY <1>1, <1>4, <1>6, <1>7, <1>8, VerdictKeeps

LEMMA OwnVaultKeeps ==
  ASSUME AccessIInv, NEW r \in Request, OwnVault(r)
  PROVE  AccessIInv'
<1> DEFINE p == request[r]
           q == [p EXCEPT !.step = "shared"]
<1>1. p \in Held /\ Good(p) /\ p.step = "own"
  BY DEF AccessIInv, OwnVault, At
<1>2. ASSUME NEW v \in Vault, Now.owner[v] = CredOf[p.cred].account, p.asked \in {Nothing, Now.slug[v]}, Opens(r, v)
      PROVE  AccessIInv'
  BY <1>1, <1>2, OpensKeeps DEF Reaches
<1>3. CASE Refused(r)
  BY <1>3, RefusedKeeps
<1>4. CASE Sets(r, q)
  <2>1. /\ q \in Held /\ q.step = "shared" /\ q.vault = p.vault /\ q.again = p.again /\ q.active = p.active
        /\ SameRequest(q, p)
    BY <1>1 DEF Held, SameRequest, Steps
  <2> HIDE DEF q
  <2>2. WasActive(q) <=> WasActive(p)
    BY <2>1, Alike, Zenon
  <2>3. ~q.again /\ (q.active => WasActive(q))
    BY <1>1, <2>1, <2>2 DEF Good
  <2>4. Good(q)
    BY <1>1, <2>1, <2>3 DEF Good, SameRequest
  <2>5. QED
    BY <1>4, <2>1, <2>4, SetsKeep
<1>5. QED
  BY <1>2, <1>3, <1>4 DEF OwnVault

LEMMA SharedWithKeeps ==
  ASSUME AccessIInv, NEW r \in Request, SharedWith(r)
  PROVE  AccessIInv'
<1>1. ASSUME NEW v \in Vault, <<v, CredOf[request[r].cred].account>> \in Now.members,
             Now.slug[v] = request[r].asked, Opens(r, v)
      PROVE  AccessIInv'
  BY <1>1, OpensKeeps DEF Reaches, SharedWith, At
<1>2. CASE Refused(r)
  BY <1>2, RefusedKeeps
<1>3. QED
  BY <1>1, <1>2 DEF SharedWith

LEMMA CallToolKeeps ==
  ASSUME AccessIInv, NEW r \in Request, CallTool(r)
  PROVE  AccessIInv'
<1> DEFINE p == request[r]
           t == p.tool
           a == CredOf[p.cred].account
           q == [p EXCEPT !.step = "acts", !.author = a]
<1>1. p \in Held /\ Good(p) /\ p.step = "admitted"
  BY DEF AccessIInv, CallTool, At
<1>2. CASE Refused(r)
  BY <1>2, RefusedKeeps
<1>3. ASSUME t \in MachineTools => CredOf[p.cred].purpose = "machine", t \in WritingTools => "write" \in p.scopes,
             t \in SharedRefuses => p.vault \notin SharedVault, Sets(r, q)
      PROVE  AccessIInv'
  <2>1. p.cred \in Credential /\ a \in Account
    BY <1>1, AccessAssumption DEF Good
  <2>2. /\ q \in Held /\ q.step = "acts" /\ q.vault = p.vault /\ q.again = p.again /\ q.author # Nothing
        /\ SameRequest(q, p)
    BY <1>1, <2>1, AccessAssumption DEF Held, SameRequest, Steps
  <2> HIDE DEF q
  <2>3. Allowed(p)
    BY <1>1, <1>3 DEF Good, Allowed
  <2>4. Allowed(q) <=> Allowed(p)
    BY <2>2, Alike, Zenon
  <2>5. ~q.again
    BY <1>1, <2>2 DEF Good
  <2>6. Good(q)
    BY <1>1, <1>3, <2>1, <2>2, <2>3, <2>4, <2>5 DEF Good, SameRequest
  <2>7. QED
    BY <1>3, <2>2, <2>6, SetsKeep
<1>4. QED
  BY <1>2, <1>3 DEF CallTool

-----------------------------------------------------------------------------
LEMMA AccessIInvStays == AccessIInv /\ [AccessNext]_accessVars => AccessIInv'
<1> SUFFICES ASSUME AccessIInv, [AccessNext]_accessVars PROVE AccessIInv'
  OBVIOUS
<1>1. CASE Join \/ RemoveMember \/ HandOver \/ Rename \/ Suspend \/ Narrow \/ Revoke
  BY <1>1, ChangeSteps
<1>2. ASSUME NEW r \in Request,
             \/ Begin(r) \/ Row(r) \/ ItsAccount(r) \/ ItsVault(r) \/ Found(r)
             \/ Forwarded(r) \/ OwnVault(r) \/ SharedWith(r) \/ CallTool(r)
      PROVE  AccessIInv'
  BY <1>2, BeginKeeps, RowKeeps, ItsAccountKeeps, ItsVaultKeeps, FoundKeeps, ForwardedKeeps, OwnVaultKeeps,
     SharedWithKeeps, CallToolKeeps
<1>3. CASE UNCHANGED accessVars
  BY <1>3 DEF accessVars, AccessIInv, Past, Good, WasLive, WasActive, WasReached, WasNamed, CouldRead, CouldWrite, WasRow,
              Unsigned, Admitted, MayWrite, Allowed, Moments
<1>4. QED
  BY <1>1, <1>2, <1>3 DEF AccessNext

LEMMA AccessInvFollows == AccessIInv => AccessInv
<1> SUFFICES ASSUME AccessIInv PROVE AccessInv
  OBVIOUS
<1>1. AccessTypeOK
  <2>1. \A i \in 1..Len(past) : past[i] \in State
    BY DEF AccessIInv, Past
  <2>2. \A r \in Request : request[r] \in Held /\ request[r].begun \in 1..Len(past)
    BY DEF AccessIInv, Good
  <2>3. \A r \in Request :
          /\ request[r].cred \in Credential \cup {Nothing} /\ request[r].asked \in Slug \cup {Nothing}
          /\ request[r].tool \in Tool \cup {"none"}
          /\ request[r].vault \in Vault \cup {Nothing} /\ request[r].scopes \subseteq {"read", "write"}
    BY <2>2 DEF Held
  <2>4. \A i \in 1..Len(past) :
          /\ past[i].owner \in [Vault -> Account] /\ past[i].members \subseteq SharedVault \X Account
          /\ past[i].slug \in [Vault -> Slug] /\ past[i].suspended \subseteq Account
          /\ past[i].limit \in [Account -> SUBSET {"read", "write"}] /\ past[i].live \subseteq Credential
    BY <2>1 DEF State
  <2>5. QED
    BY <2>2, <2>3, <2>4 DEF AccessTypeOK, AccessIInv, Past
<1>2. ASSUME NEW r \in Request, At(r, "acts")
      PROVE  /\ Good(request[r]) /\ request[r].step = "acts" /\ Allowed(request[r])
             /\ request[r].tool \in MachineTools => CredOf[request[r].cred].purpose = "machine"
             /\ request[r].vault \in SharedVault => request[r].tool \notin SharedRefuses
             /\ request[r].author = Nothing => request[r].tool \in DavTools /\ Unsigned(request[r])
  BY <1>2 DEF AccessIInv, At, Good
<1>3. ActsAsAllowed
  BY <1>2 DEF ActsAsAllowed, Since, Allowed, Admitted, MayWrite, WasLive, WasActive, WasReached, WasNamed, CouldRead,
              CouldWrite, Moments, Holder
<1>4. NoOtherVault
  BY <1>2 DEF NoOtherVault, Allowed, Admitted
<1>5. WritesSigned
  <2> SUFFICES ASSUME NEW r \in Request, At(r, "acts"), request[r].author = Nothing
               PROVE  /\ request[r].tool \in DavTools
                      /\ \E i \in request[r].begun..Len(past) :
                           \/ request[r].cred \notin past[i].live
                           \/ ~Reaches(past[i], CredOf[request[r].cred].account, request[r].vault)
                           \/ past[i].owner[request[r].vault] # Now.owner[request[r].vault]
    BY DEF WritesSigned
  <2>1. request[r].tool \in DavTools /\ Unsigned(request[r])
    BY <1>2
  <2>2. QED
    BY <2>1 DEF Unsigned, Moments, Holder
<1>6. QED
  BY <1>1, <1>3, <1>4, <1>5 DEF AccessInv

(* Whatever a request of a hosted server acts on, everything it rests on held at a moment since it began, it  *)
(* is the vault the credential was made for, and a change over WebDAV is signed by who made it, unless the    *)
(* right to make it ended or was handed over meanwhile: for every number of requests and of changes.          *)
THEOREM RequestsAllowed == AccessSpec => []AccessInv
<1>1. AccessSpec => []AccessIInv
  BY AccessInitHolds, AccessIInvStays, PTL DEF AccessSpec
<1>2. QED
  BY <1>1, AccessInvFollows, PTL

-----------------------------------------------------------------------------
(* The theorem about Support: for any number of accounts, servers and commands, who lets the staff in is   *)
(* the owner, and nobody of the staff looks unlogged, but for what the module excepts.                     *)

DeskState == [step : {"none", "allow", "end"}, account : Owner \cup {NoGrant}, hands : Nat]
Command == [step : {"none", "chosen", "admitted", "refused", "looked"}, account : Owner \cup {NoGrant},
            action : {"none", "read", "import"}]
GrantRow == [by : Owner, until : 0..(MaxDays + 2), late : BOOLEAN]

SupportTypes ==
  /\ clock \in 0..MaxDays /\ hands \in 0..MaxHands /\ holder \in Owner \cup {Gone}
  /\ grant \in GrantRow \cup {NoGrant}
  /\ desk \in [Desk -> DeskState] /\ operator \in [Operator -> Command]

(* A page that has found the vault has found its owner, who owns it still if it was not handed over since. *)
ReadOwner == \A d \in Desk : desk[d].step # "none" =>
  /\ desk[d].account \in Owner /\ desk[d].hands <= hands
  /\ desk[d].hands = hands => holder \in {desk[d].account, Gone}

(* A command is logged from when it is let in. *)
LoggedFirst ==
  \A o \in Operator : operator[o].step \in {"admitted", "looked"} => \E row \in log : row.operator = o
RowsTrue == \A row \in log : row.owner = row.account => row.giver = row.account \/ row.late

SupportIInv == SupportTypes /\ ReadOwner /\ SupportIsTheOwners /\ LoggedFirst /\ RowsTrue

USE SupportAssumption
-----------------------------------------------------------------------------
LEMMA SupportInitHolds == SupportInit => SupportIInv
<1> SUFFICES ASSUME SupportInit PROVE SupportIInv
  OBVIOUS
<1>1. NoDesk \in DeskState /\ NoCommand \in Command
  BY DEF NoDesk, NoCommand, DeskState, Command
<1>2. SupportTypes
  BY <1>1 DEF SupportInit, SupportTypes
<1>3. QED
  BY <1>2 DEF SupportInit, SupportIInv, ReadOwner, SupportIsTheOwners, LoggedFirst, RowsTrue, NoDesk, NoCommand

LEMMA GrantIsSome == ASSUME NEW g \in GrantRow PROVE g # NoGrant => g.by \in Owner
BY DEF GrantRow

LEMMA TypeHolds == SupportTypes /\ ReadOwner /\ [SupportNext]_supportVars => SupportTypes'
<1> SUFFICES ASSUME SupportTypes, ReadOwner, [SupportNext]_supportVars PROVE SupportTypes'
  OBVIOUS
<1>1. CASE Tick
  BY <1>1 DEF Tick, SupportTypes
<1>2. CASE DeleteVault
  BY <1>2 DEF DeleteVault, SupportTypes
<1>3. ASSUME NEW a \in Owner, HandVault(a) PROVE SupportTypes'
  BY <1>3 DEF HandVault, SupportTypes
<1>4. ASSUME NEW d \in Desk, NEW step \in {"allow", "end"}, Ask(d, step) PROVE SupportTypes'
  BY <1>4 DEF Ask, AtDesk, DeskState, SupportTypes
<1>5. ASSUME NEW d \in Desk, EndEarly(d) PROVE SupportTypes'
  BY <1>5 DEF EndEarly, NoDesk, DeskState, SupportTypes
<1>6. ASSUME NEW d \in Desk, NEW seconds \in Duration, Grant(d, seconds) PROVE SupportTypes'
  <2>1. desk' \in [Desk -> DeskState]
    BY <1>6 DEF Grant, NoDesk, DeskState, SupportTypes
  <2>2. desk[d].account \in Owner /\ clock + seconds \in 0..(MaxDays + 2)
    BY <1>6 DEF Grant, ReadOwner, Duration, SupportTypes
  <2>3. [by |-> desk[d].account, until |-> clock + seconds, late |-> desk[d].hands # hands] \in GrantRow
    BY <2>2 DEF GrantRow
  <2>4. grant' \in GrantRow \cup {NoGrant}
    BY <1>6, <2>3 DEF Grant, SupportTypes
  <2>5. QED
    BY <1>6, <2>1, <2>4 DEF Grant, SupportTypes
<1>7. ASSUME NEW o \in Operator, NEW action \in {"read", "import"}, Choose(o, action) PROVE SupportTypes'
  BY <1>7 DEF Choose, Command, SupportTypes
<1>8. ASSUME NEW o \in Operator, Admit(o) \/ Looks(o) PROVE SupportTypes'
  <2>1. \A step \in {"admitted", "refused", "looked"} : [operator EXCEPT ![o].step = step] \in [Operator -> Command]
    BY DEF SupportTypes, Command
  <2>2. operator' \in [Operator -> Command]
    BY <1>8, <2>1 DEF Admit, Looks
  <2>3. QED
    BY <1>8, <2>2 DEF Admit, Looks, SupportTypes
<1>9. CASE UNCHANGED supportVars
  BY <1>9 DEF supportVars, SupportTypes
<1>10. QED
  BY <1>1, <1>2, <1>3, <1>4, <1>5, <1>6, <1>7, <1>8, <1>9 DEF SupportNext

(* What the pages know, and whose the grant is. *)
LEMMA GrantHolds == SupportIInv /\ [SupportNext]_supportVars => ReadOwner' /\ SupportIsTheOwners'
<1> SUFFICES ASSUME SupportIInv, [SupportNext]_supportVars PROVE ReadOwner' /\ SupportIsTheOwners'
  OBVIOUS
<1> USE DEF SupportIInv, ReadOwner, SupportIsTheOwners
<1>1. CASE Tick \/ UNCHANGED supportVars
  BY <1>1 DEF Tick, supportVars
<1>2. CASE DeleteVault
  BY <1>2 DEF DeleteVault
<1>3. ASSUME NEW a \in Owner, HandVault(a) PROVE ReadOwner' /\ SupportIsTheOwners'
  BY <1>3 DEF HandVault, SupportTypes, DeskState
<1>4. ASSUME NEW d \in Desk, NEW step \in {"allow", "end"}, Ask(d, step) PROVE ReadOwner' /\ SupportIsTheOwners'
  BY <1>4 DEF Ask, AtDesk, SupportTypes
<1>5. ASSUME NEW d \in Desk, EndEarly(d) PROVE ReadOwner' /\ SupportIsTheOwners'
  BY <1>5 DEF EndEarly, NoDesk, SupportTypes
<1>6. ASSUME NEW d \in Desk, NEW seconds \in Duration, Grant(d, seconds) PROVE ReadOwner' /\ SupportIsTheOwners'
  <2>1. ReadOwner'
    BY <1>6 DEF Grant, NoDesk, SupportTypes
  <2>2. ASSUME holder = Gone PROVE SupportIsTheOwners'
    BY <1>6, <2>2 DEF Grant
  <2>3. ASSUME holder # Gone PROVE SupportIsTheOwners'
    <3> DEFINE late == desk[d].hands # hands
    <3>1. holder' = holder /\ grant'.by = desk[d].account /\ grant'.late = late
      BY <1>6, <2>3 DEF Grant
    <3>2. ~late => holder = desk[d].account
      BY <1>6, <2>3 DEF Grant
    <3> HIDE DEF late
    <3>3. QED
      BY <2>3, <3>1, <3>2
  <2>4. QED
    BY <2>1, <2>2, <2>3
<1>7. ASSUME NEW o \in Operator, NEW action \in {"read", "import"}, Choose(o, action)
      PROVE ReadOwner' /\ SupportIsTheOwners'
  BY <1>7 DEF Choose
<1>8. ASSUME NEW o \in Operator, Admit(o) \/ Looks(o) PROVE ReadOwner' /\ SupportIsTheOwners'
  BY <1>8 DEF Admit, Looks
<1>9. QED
  BY <1>1, <1>2, <1>3, <1>4, <1>5, <1>6, <1>7, <1>8 DEF SupportNext

(* The log. *)
LEMMA LogHolds == SupportIInv /\ [SupportNext]_supportVars => LoggedFirst' /\ RowsTrue'
<1> SUFFICES ASSUME SupportIInv, [SupportNext]_supportVars PROVE LoggedFirst' /\ RowsTrue'
  OBVIOUS
<1> USE DEF SupportIInv, LoggedFirst, RowsTrue
<1>1. CASE UNCHANGED <<operator, log>>
  BY <1>1
<1>2. ASSUME NEW o \in Operator, NEW action \in {"read", "import"}, Choose(o, action) PROVE LoggedFirst' /\ RowsTrue'
  BY <1>2 DEF Choose, SupportTypes
<1>3. ASSUME NEW o \in Operator, Looks(o) PROVE LoggedFirst' /\ RowsTrue'
  BY <1>3 DEF Looks, SupportTypes, Command
<1>4. ASSUME NEW o \in Operator, Admit(o) PROVE LoggedFirst' /\ RowsTrue'
  <2> DEFINE row == [operator |-> o, account |-> operator[o].account, giver |-> grant.by,
                     owner |-> holder, late |-> grant.late, at |-> clock]
  <2>1. CASE Live
    <3>1. log' = log \cup {row} /\ operator' = [operator EXCEPT ![o].step = "admitted"]
      BY <1>4, <2>1 DEF Admit
    <3>2. row.operator = o /\ (row.owner = row.account => row.giver = row.account \/ row.late)
      BY <2>1 DEF Live, SupportIsTheOwners
    <3> HIDE DEF row
    <3>3. RowsTrue'
      BY <3>1, <3>2
    <3>4. ASSUME NEW p \in Operator, operator'[p].step \in {"admitted", "looked"}
          PROVE \E r \in log' : r.operator = p
      BY <3>1, <3>2, <3>4 DEF SupportTypes, Command
    <3>5. QED
      BY <3>3, <3>4
  <2>2. CASE ~Live
    BY <1>4, <2>2 DEF Admit, SupportTypes, Command
  <2>3. QED
    BY <2>1, <2>2
<1>5. QED
  BY <1>1, <1>2, <1>3, <1>4
     DEF SupportNext, supportVars, Tick, DeleteVault, HandVault, Ask, EndEarly, Grant

(* Whoever is let in was let in by the owner, or by one who was when the page was read; and whoever of the *)
(* staff has looked is in the log of who let them (Support.grant, revoke, admit; HostedStore.hand_over).   *)
THEOREM SupportIsTold == SupportSpec => []SupportInv
<1>1. SupportIInv /\ [SupportNext]_supportVars => SupportIInv'
  BY TypeHolds, GrantHolds, LogHolds DEF SupportIInv
<1>2. SupportIInv => SupportInv
  <2> SUFFICES ASSUME SupportIInv PROVE SupportInv
    OBVIOUS
  <2>1. grant # NoGrant => grant.by \in Owner /\ grant.until \in 0..(MaxDays + 2) /\ grant.late \in BOOLEAN
    BY DEF SupportIInv, SupportTypes, GrantRow
  <2>2. \A d \in Desk : desk[d].step \in {"none", "allow", "end"} /\ desk[d].account \in Owner \cup {NoGrant}
    BY DEF SupportIInv, SupportTypes, DeskState
  <2>3. \A o \in Operator : operator[o].step \in {"none", "chosen", "admitted", "refused", "looked"}
    BY DEF SupportIInv, SupportTypes, Command
  <2>4. QED
    BY <2>1, <2>2, <2>3 DEF SupportInv, SupportTypeOK, LooksAreLogged, SupportIInv, SupportTypes, LoggedFirst, RowsTrue
<1>3. QED
  BY <1>1, <1>2, SupportInitHolds, PTL DEF SupportSpec

HIDE SupportAssumption

-----------------------------------------------------------------------------
-----------------------------------------------------------------------------
(* The theorem about RateLimits: for any number of servers, clocks, limits and hits, a server that counts *)
(* by itself keeps the limit in every window, and servers that share the counts keep it in every row, and  *)
(* what they let through keeps to it, in a slot and in a burst.                                            *)

Hit == [id : Nat, at : Nat]
Counting == [step : {"rest", "select", "answer"}, at : Nat, seen : BOOLEAN]

AtWork == \A s \in Server : count[s].step # "rest" => s \in sharing /\ count[s].at \in Seconds..Clock(s)

RateTypes ==
  /\ sharing \subseteq Server /\ time \in 0..MaxTime /\ asked \in 0..MaxHits /\ rows \in [Slots -> Nat]
  /\ hits \in [Server -> SUBSET Hit] /\ blocked \in [Server -> Nat] /\ swept \in [Server -> Nat]
  /\ count \in [Server -> Counting] /\ allowed \subseteq [id : Nat, at : Nat, by : Server]
  /\ IsFiniteSet(allowed)
  /\ Seconds <= time /\ AtWork

(* A server that counts by itself has each hit it let through that is still in the window.                *)
ByThis(s) == {hit \in allowed : hit.by = s}
OwnHits == sharing = {} => \A s \in Server :
  /\ IsFiniteSet(hits[s])
  /\ \A hit \in ByThis(s) :
       hit.at <= Clock(s) /\ (Clock(s) - hit.at < Seconds => [id |-> hit.id, at |-> hit.at] \in hits[s])

(* Each row and each hit on its way to it was asked for; and those on their way fit, but for one of each  *)
(* other server.                                                                                          *)
Busy == {s \in Server : count[s].step # "rest"}
Due(slot) == {s \in Server : count[s].step = "answer" /\ ~count[s].seen /\ SlotOf(count[s].at) = slot}
Asked == \A slot \in Slots : rows[slot] + Cardinality(Busy) <= asked
Room == sharing # {} => \A slot \in Slots : rows[slot] + Cardinality(Due(slot)) <= Limit + Others

RateIInv == RateTypes /\ OwnHits /\ OwnLimit /\ Asked /\ Room
-----------------------------------------------------------------------------
LEMMA RateBounds ==
  /\ IsFiniteSet(Server) /\ MaxAhead \in Nat /\ Ahead \in [Server -> 0..MaxAhead]
  /\ Limit \in Nat /\ Limit >= 1 /\ MaxTime \in Nat /\ MaxHits \in Nat
  /\ Seconds \in Nat /\ Seconds >= 1 /\ Seconds <= MaxTime
BY RateAssumption DEF RateAssumption

LEMMA Division ==
  ASSUME NEW a \in Nat, NEW b \in Nat, b >= 1
  PROVE  a \div b \in Nat /\ (a \div b) * b <= a /\ a < (a \div b) * b + b
OBVIOUS

LEMMA ProductGrows ==
  ASSUME NEW a \in Nat, NEW b \in Nat, NEW c \in Nat, c >= 1
  PROVE  (a * c >= b * c) <=> (a >= b)
OBVIOUS

(* The slots of the moments there may be are slots that are counted, and not the first.                   *)
LEMMA SlotFacts ==
  ASSUME NEW moment \in Nat, Seconds <= moment, moment <= MaxTime + MaxAhead
  PROVE  /\ SlotOf(moment) \in Slots /\ SlotOf(moment) >= 1 /\ SlotOf(moment) - 1 \in Slots
         /\ moment - SlotOf(moment) * Seconds \in 0..(Seconds - 1)
<1> DEFINE slot == moment \div Seconds
           top == (MaxTime + MaxAhead) \div Seconds
<1>0. Seconds \in Nat /\ Seconds >= 1 /\ MaxTime + MaxAhead \in Nat
  BY RateBounds
<1>1. slot \in Nat /\ slot * Seconds <= moment /\ moment < slot * Seconds + Seconds
  BY <1>0, Division
<1>2. top \in Nat /\ top * Seconds <= MaxTime + MaxAhead /\ MaxTime + MaxAhead < top * Seconds + Seconds
  BY <1>0, Division
<1> HIDE DEF slot, top
<1>3. slot >= 1
  <2>1. CASE slot = 0
    BY <1>0, <1>1, <2>1
  <2>2. QED
    BY <1>1, <2>1
<1>4. slot <= top
  <2>1. ASSUME slot >= top + 1 PROVE FALSE
    <3>1. slot * Seconds >= (top + 1) * Seconds
      BY <1>0, <1>1, <1>2, <2>1, ProductGrows
    <3>2. (top + 1) * Seconds = top * Seconds + Seconds
      BY <1>0, <1>2
    <3>3. slot * Seconds \in Nat /\ top * Seconds \in Nat
      BY <1>0, <1>1, <1>2
    <3>4. QED
      BY <1>0, <1>1, <1>2, <3>1, <3>2, <3>3
  <2>2. QED
    BY <1>1, <1>2, <2>1
<1>5. SlotOf(moment) = slot /\ Slots = 0..top
  BY DEF SlotOf, Slots, slot, top
<1>6. slot * Seconds \in Nat
  BY <1>0, <1>1
<1>7. QED
  BY <1>0, <1>1, <1>2, <1>3, <1>4, <1>5, <1>6

LEMMA ClockFacts ==
  ASSUME RateTypes, NEW s \in Server
  PROVE  /\ Clock(s) \in Nat /\ Seconds <= Clock(s) /\ Clock(s) <= MaxTime + MaxAhead /\ Clock(s) - time = Ahead[s]
BY RateBounds DEF RateTypes, Clock

LEMMA SlotsStay == Slots' = Slots
BY DEF Slots

LEMMA SomeServers ==
  ASSUME NEW S \in SUBSET Server
  PROVE  IsFiniteSet(S) /\ Cardinality(S) \in Nat /\ \A T \in SUBSET S : Cardinality(T) <= Cardinality(S)
BY RateBounds, FS_Subset, FS_CardinalityType

LEMMA OneMore ==
  ASSUME NEW S, IsFiniteSet(S), NEW e
  PROVE  Cardinality(S \cup {e}) <= Cardinality(S) + 1
<1>1. Cardinality(S) \in Nat
  BY FS_CardinalityType
<1>2. Cardinality(S \cup {e}) = IF e \in S THEN Cardinality(S) ELSE Cardinality(S) + 1
  BY FS_AddElement
<1> QED
  BY <1>1, <1>2

RowLimit == sharing # {} => \A slot \in Slots : rows[slot] <= Limit + Others

LEMMA LimitsFollow == RateIInv => RateTypeOK /\ OwnLimit /\ RowLimit
<1> SUFFICES ASSUME RateIInv PROVE RateTypeOK /\ OwnLimit /\ RowLimit
  OBVIOUS
<1>1. \A slot \in Slots : Cardinality(Busy) \in Nat /\ Cardinality(Due(slot)) \in Nat
  BY SomeServers DEF Busy, Due
<1>2. \A slot \in Slots : rows[slot] \in 0..MaxHits
  BY <1>1, RateBounds DEF RateIInv, RateTypes, Asked
<1>3. rows \in [Slots -> 0..MaxHits]
  BY <1>2 DEF RateIInv, RateTypes
<1>4. RateTypeOK
  BY <1>3 DEF RateIInv, RateTypes, RateTypeOK, Counting
<1>5. RowLimit
  <2>1. Others \in Int
    BY SomeServers DEF Others, RateIInv, RateTypes
  <2>2. QED
    BY <1>1, <2>1, RateBounds DEF RateIInv, Room, RowLimit, RateTypes
<1>6. QED
  BY <1>4, <1>5 DEF RateIInv

LEMMA RateInitHolds == RateInit => RateIInv
<1> SUFFICES ASSUME RateInit PROVE RateIInv
  OBVIOUS
<1>1. RateTypes
  BY RateBounds, FS_EmptySet DEF RateInit, RateTypes, AtWork, Resting, Counting
<1>2. \A s \in Server : ByThis(s) = {}
  BY DEF RateInit, ByThis
<1>3. OwnHits
  BY <1>2, FS_EmptySet DEF RateInit, OwnHits
<1>4. OwnLimit
  <2>1. ASSUME NEW s \in Server, NEW from \in 0..MaxTime
        PROVE  Cardinality({hit \in Within(from, from + Seconds - 1) : hit.by = s}) <= Limit
    <3>1. {hit \in Within(from, from + Seconds - 1) : hit.by = s} = {}
      BY DEF RateInit, Within
    <3>2. Cardinality({}) = 0 /\ 0 <= Limit
      BY FS_EmptySet, RateBounds
    <3>3. QED
      BY <3>1, <3>2
  <2>2. QED
    BY <2>1 DEF OwnLimit
<1>5. Busy = {} /\ \A slot : Due(slot) = {}
  BY DEF RateInit, Busy, Due, Resting
<1>6. Asked
  BY <1>5, FS_EmptySet DEF RateInit, Asked
<1>7. Room
  <2>1. sharing # {} => Cardinality(sharing) \in Nat /\ Cardinality(sharing) >= 1
    BY RateBounds, FS_Subset, FS_EmptySet, FS_CardinalityType DEF RateInit
  <2>2. QED
    BY <1>5, <2>1, FS_EmptySet, RateBounds DEF RateInit, Room, Others
<1>8. QED
  BY <1>1, <1>3, <1>4, <1>6, <1>7 DEF RateIInv
-----------------------------------------------------------------------------
LEMMA RestingHeld == Resting \in Counting /\ Resting.step = "rest"
BY DEF Resting, Counting

(* The servers at work and those about to count, when nobody's work changes.                              *)
LEMMA WorkersStay ==
  ASSUME UNCHANGED count
  PROVE  Busy' = Busy /\ \A slot : (Due(slot))' = Due(slot)
BY DEF Busy, Due, SlotOf

LEMMA RoomStays ==
  ASSUME RateIInv, UNCHANGED <<sharing, rows, count>>
  PROVE  Room' /\ (asked' = asked => Asked')
<1>1. Busy' = Busy /\ \A slot : (Due(slot))' = Due(slot)
  BY WorkersStay
<1>2. Others' = Others
  BY DEF Others
<1>3. QED
  BY <1>1, <1>2 DEF RateIInv, Room, Asked, Slots

LEMMA PassesHolds ==
  ASSUME RateIInv, Passes
  PROVE  RateIInv'
<1>0. RateTypes
  BY DEF RateIInv
<1>1. time < MaxTime /\ time' = time + 1 /\ UNCHANGED <<sharing, asked, rows, hits, blocked, swept, count, allowed>>
  BY DEF Passes
<1>2. \A s \in Server : Clock(s) \in Nat /\ Clock(s)' = Clock(s) + 1
  BY <1>0, <1>1, RateBounds DEF RateTypes, Clock
<1>3. AtWork'
  <2>1. ASSUME NEW s \in Server, count[s].step # "rest"
        PROVE  s \in sharing /\ count[s].at \in Seconds..(Clock(s) + 1)
    BY <1>0, <1>2, <2>1, RateBounds DEF RateTypes, AtWork
  <2>2. QED
    BY <1>1, <1>2, <2>1 DEF AtWork
<1>4. RateTypes'
  <2>1. time' \in 0..MaxTime /\ Seconds <= time'
    BY <1>0, <1>1, RateBounds DEF RateTypes
  <2>2. QED
    BY <1>0, <1>1, <1>3, <2>1, SlotsStay DEF RateTypes
<1>5. OwnHits'
  <2>1. ASSUME sharing = {}, NEW s \in Server, NEW hit \in ByThis(s)
        PROVE  hit.at <= Clock(s)' /\ (Clock(s)' - hit.at < Seconds => [id |-> hit.id, at |-> hit.at] \in hits[s])
    <3>1. hit.at \in Nat /\ Clock(s) \in Nat /\ Clock(s)' = Clock(s) + 1 /\ Seconds \in Nat
      BY <1>0, <1>2, RateBounds DEF RateTypes, ByThis
    <3>2. hit.at <= Clock(s) /\ (Clock(s) - hit.at < Seconds => [id |-> hit.id, at |-> hit.at] \in hits[s])
      BY <2>1 DEF RateIInv, OwnHits
    <3>3. QED
      BY <3>1, <3>2
  <2>2. \A s \in Server : (ByThis(s))' = ByThis(s)
    BY <1>1 DEF ByThis
  <2>3. QED
    BY <1>1, <2>1, <2>2 DEF OwnHits, RateIInv
<1>6. OwnLimit'
  BY <1>1 DEF RateIInv, OwnLimit, Within
<1>7. QED
  BY <1>1, <1>4, <1>5, <1>6, RoomStays DEF RateIInv

(* The hits of a window that has not passed are among those that are remembered.                          *)
LEMMA WindowRemembered ==
  ASSUME RateIInv, sharing = {}, NEW s \in Server, NEW from \in Nat, Clock(s) \in from..(from + Seconds - 1)
  PROVE  LET W == {hit \in Within(from, from + Seconds - 1) : hit.by = s}
         IN  IsFiniteSet(W) /\ Cardinality(W) <= Cardinality(Recent(s))
<1> DEFINE W == {hit \in Within(from, from + Seconds - 1) : hit.by = s}
           f == [hit \in W |-> [id |-> hit.id, at |-> hit.at]]
<1>0. RateTypes /\ OwnHits
  BY DEF RateIInv
<1>1. ASSUME NEW hit \in W PROVE [id |-> hit.id, at |-> hit.at] \in Recent(s)
  <2>1. hit \in ByThis(s) /\ hit.at \in from..(from + Seconds - 1) /\ hit.at \in Nat
    BY <1>0 DEF Within, ByThis, RateTypes
  <2>2. hit.at <= Clock(s) /\ (Clock(s) - hit.at < Seconds => [id |-> hit.id, at |-> hit.at] \in hits[s])
    BY <1>0, <2>1 DEF OwnHits
  <2>3. Clock(s) - hit.at < Seconds
    BY <2>1, <2>2, RateBounds
  <2>4. QED
    BY <2>2, <2>3 DEF Recent
<1>2. f \in [W -> Recent(s)]
  BY <1>1
<1>3. ASSUME NEW a \in W, NEW b \in W, f[a] = f[b] PROVE a = b
  <2>1. a.by = s /\ b.by = s /\ a \in [id : Nat, at : Nat, by : Server] /\ b \in [id : Nat, at : Nat, by : Server]
    BY <1>0 DEF Within, RateTypes
  <2>2. [id |-> a.id, at |-> a.at] = [id |-> b.id, at |-> b.at]
    BY <1>3
  <2>3. a.id = b.id /\ a.at = b.at
    BY <2>2
  <2>4. QED
    BY <2>1, <2>3
<1>4. f \in Injection(W, Recent(s))
  BY <1>2, <1>3 DEF Injection, IsInjective
<1>5. IsFiniteSet(Recent(s))
  BY <1>0, FS_Subset DEF OwnHits, Recent
<1>6. IsFiniteSet(W) /\ Cardinality(W) <= Cardinality(Recent(s))
  BY <1>4, <1>5, FS_Injection
<1>7. QED
  BY <1>6

LEMMA AllowHereHolds ==
  ASSUME RateIInv, NEW s \in Server, AllowHere(s)
  PROVE  RateIInv'
<1>0. RateTypes /\ OwnHits /\ OwnLimit
  BY DEF RateIInv
<1>1. /\ sharing = {} /\ asked < MaxHits /\ asked' = asked + 1
      /\ UNCHANGED <<sharing, time, rows, blocked, swept, count>>
  BY DEF AllowHere
<1>2. Clock(s) \in Nat /\ \A t \in Server : Clock(t)' = Clock(t)
  BY <1>0, <1>1, ClockFacts DEF Clock
<1>3. Recent(s) \subseteq Hit /\ Recent(s) \subseteq hits[s] /\ IsFiniteSet(Recent(s))
  BY <1>0, <1>1, FS_Subset DEF Recent, RateTypes, OwnHits
<1>4. Asked' /\ Room'
  <2>1. Room'
    BY <1>1, RoomStays
  <2>2. Busy' = Busy /\ Cardinality(Busy) \in Nat
    BY <1>1, WorkersStay, SomeServers DEF Busy
  <2>3. \A slot \in Slots : rows[slot] \in Nat /\ asked \in Nat
    BY <1>0 DEF RateTypes
  <2>4. Asked'
    BY <1>1, <2>2, <2>3 DEF RateIInv, Asked, Slots
  <2>5. QED
    BY <2>1, <2>4
<1>7. asked' \in 0..MaxHits /\ AtWork'
  <2>1. asked' \in 0..MaxHits
    BY <1>0, <1>1, RateBounds DEF RateTypes
  <2>2. QED
    BY <1>0, <1>1, <1>2, <2>1 DEF RateTypes, AtWork
<1>5. CASE Cardinality(Recent(s)) >= Limit
  <2>1. hits' = [hits EXCEPT ![s] = Recent(s)] /\ allowed' = allowed
    BY <1>5 DEF AllowHere
  <2>2. RateTypes'
    <3>1. hits' \in [Server -> SUBSET Hit]
      BY <1>0, <1>3, <2>1 DEF RateTypes
    <3>2. QED
      BY <1>0, <1>1, <1>7, <2>1, <3>1, SlotsStay DEF RateTypes
  <2>3. OwnHits'
    <3>1. ASSUME NEW t \in Server, NEW hit \in ByThis(t), Clock(t) - hit.at < Seconds
          PROVE  [id |-> hit.id, at |-> hit.at] \in hits'[t]
      <4>1. [id |-> hit.id, at |-> hit.at] \in hits[t]
        BY <1>0, <1>1, <3>1 DEF OwnHits
      <4>2. QED
        BY <1>0, <2>1, <3>1, <4>1 DEF Recent, RateTypes
    <3>2. \A t \in Server : IsFiniteSet(hits'[t])
      BY <1>0, <1>1, <1>3, <2>1 DEF OwnHits, RateTypes
    <3>3. \A t \in Server : (ByThis(t))' = ByThis(t)
      BY <2>1 DEF ByThis
    <3>4. \A t \in Server : \A hit \in ByThis(t) : hit.at <= Clock(t)
      BY <1>0, <1>1 DEF OwnHits
    <3>5. QED
      BY <1>1, <1>2, <3>1, <3>2, <3>3, <3>4 DEF OwnHits
  <2>4. OwnLimit'
    BY <1>0, <1>1, <2>1 DEF OwnLimit, Within
  <2>5. QED
    BY <1>4, <2>2, <2>3, <2>4 DEF RateIInv
<1>6. CASE ~(Cardinality(Recent(s)) >= Limit)
  <2>0. PICK new : new = [id |-> asked', at |-> Clock(s), by |-> s]
    OBVIOUS
  <2>1. hits' = [hits EXCEPT ![s] = Recent(s) \cup {[id |-> asked', at |-> Clock(s)]}] /\ allowed' = allowed \cup {new}
    BY <1>6, <2>0 DEF AllowHere
  <2>2. /\ new \in [id : Nat, at : Nat, by : Server] /\ new.by = s /\ new.at = Clock(s) /\ new.id = asked'
        /\ [id |-> asked', at |-> Clock(s)] \in Hit
    BY <1>0, <1>1, <1>2, <2>0 DEF RateTypes, Hit
  <2>3. IsFiniteSet(allowed')
    BY <1>0, <2>1, FS_AddElement DEF RateTypes
  <2>4. hits' \in [Server -> SUBSET Hit] /\ allowed' \subseteq [id : Nat, at : Nat, by : Server]
    BY <1>0, <1>3, <2>1, <2>2 DEF RateTypes
  <2>5. RateTypes'
    BY <1>0, <1>1, <1>7, <2>3, <2>4, SlotsStay DEF RateTypes
  <2>6. OwnHits'
    <3>1. \A t \in Server : (ByThis(t))' = IF t = s THEN ByThis(t) \cup {new} ELSE ByThis(t)
      BY <2>1, <2>2 DEF ByThis
    <3>2. \A t \in Server : IsFiniteSet(hits'[t])
      <4>1. IsFiniteSet(Recent(s) \cup {[id |-> asked', at |-> Clock(s)]})
        BY <1>3, FS_AddElement
      <4>2. QED
        BY <1>0, <1>1, <2>1, <4>1 DEF OwnHits, RateTypes
    <3>3. ASSUME NEW t \in Server, NEW hit \in ByThis(t), Clock(t) - hit.at < Seconds
          PROVE  [id |-> hit.id, at |-> hit.at] \in hits'[t]
      <4>1. [id |-> hit.id, at |-> hit.at] \in hits[t]
        BY <1>0, <1>1, <3>3 DEF OwnHits
      <4>2. QED
        BY <1>0, <2>1, <3>3, <4>1 DEF Recent, RateTypes
    <3>4. \A t \in Server : \A hit \in ByThis(t) : hit.at <= Clock(t)
      BY <1>0, <1>1 DEF OwnHits
    <3>5. new.at <= Clock(s) /\ [id |-> new.id, at |-> new.at] \in hits'[s]
      BY <1>0, <1>2, <2>1, <2>2 DEF RateTypes
    <3>6. ASSUME NEW t \in Server, NEW hit \in (ByThis(t))'
          PROVE  hit.at <= Clock(t) /\ (Clock(t) - hit.at < Seconds => [id |-> hit.id, at |-> hit.at] \in hits'[t])
      BY <3>1, <3>3, <3>4, <3>5, <3>6
    <3>7. QED
      BY <1>1, <1>2, <3>2, <3>6 DEF OwnHits
  <2>7. OwnLimit'
    <3>1. ASSUME NEW t \in Server, NEW from \in 0..MaxTime
          PROVE  Cardinality({hit \in Within(from, from + Seconds - 1) : hit.by = t}') <= Limit
      <4>0. PICK W : W = {hit \in Within(from, from + Seconds - 1) : hit.by = t}
        OBVIOUS
      <4>1. Cardinality(W) <= Limit
        BY <1>0, <1>1, <4>0 DEF OwnLimit
      <4>2. CASE t = s /\ Clock(s) \in from..(from + Seconds - 1)
        <5>1. {hit \in Within(from, from + Seconds - 1) : hit.by = t}' = W \cup {new}
          BY <2>1, <2>2, <4>0, <4>2 DEF Within
        <5>2. from \in Nat
          BY RateBounds
        <5>3. IsFiniteSet(W) /\ Cardinality(W) <= Cardinality(Recent(s))
          BY <1>1, <4>0, <4>2, <5>2, WindowRemembered
        <5>4. Cardinality(W) \in Nat /\ Cardinality(Recent(s)) \in Nat /\ Limit \in Nat
          BY <1>3, <5>3, FS_CardinalityType, RateBounds
        <5>5. Cardinality(W \cup {new}) <= Cardinality(W) + 1
          BY <5>3, OneMore
        <5>6. IsFiniteSet(W \cup {new}) /\ Cardinality(W \cup {new}) \in Nat
          BY <5>3, FS_AddElement, FS_CardinalityType
        <5>7. Cardinality(W \cup {new}) <= Limit
          <6> DEFINE w == Cardinality(W)
                     r == Cardinality(Recent(s))
                     n == Cardinality(W \cup {new})
          <6>1. w \in Nat /\ r \in Nat /\ n \in Nat /\ Limit \in Nat /\ w <= r /\ n <= w + 1 /\ ~(r >= Limit)
            BY <1>6, <5>3, <5>4, <5>5, <5>6
          <6> HIDE DEF w, r, n
          <6>2. n <= Limit
            BY <6>1
          <6>3. QED
            BY <6>2 DEF n
        <5>8. QED
          BY <5>1, <5>7
      <4>3. CASE ~(t = s /\ Clock(s) \in from..(from + Seconds - 1))
        <5>1. {hit \in Within(from, from + Seconds - 1) : hit.by = t}' = W
          BY <2>1, <2>2, <4>0, <4>3 DEF Within
        <5>2. QED
          BY <4>1, <5>1
      <4>4. QED
        BY <4>2, <4>3
    <3>2. QED
      BY <1>1, <3>1 DEF OwnLimit
  <2>8. QED
    BY <1>4, <2>5, <2>6, <2>7 DEF RateIInv
<1>8. QED
  BY <1>5, <1>6
-----------------------------------------------------------------------------
LEMMA SharedOnly ==
  ASSUME sharing # {}, sharing' = sharing
  PROVE  OwnHits' /\ OwnLimit'
BY DEF OwnHits, OwnLimit

(* What one server's step does to the servers at work and to those about to count.                        *)
LEMMA OneWorks ==
  ASSUME RateTypes, UNCHANGED <<sharing, time>>, NEW s \in Server, NEW c \in Counting,
         count' = [count EXCEPT ![s] = c], c.step # "rest" => s \in sharing /\ c.at \in Seconds..Clock(s)
  PROVE  /\ count' \in [Server -> Counting] /\ AtWork'
         /\ Busy' = IF c.step # "rest" THEN Busy \cup {s} ELSE Busy \ {s}
         /\ \A slot : (Due(slot))' = IF c.step = "answer" /\ ~c.seen /\ SlotOf(c.at) = slot
                                    THEN Due(slot) \cup {s} ELSE Due(slot) \ {s}
<1>0. count \in [Server -> Counting]
  BY DEF RateTypes
<1>1. count' \in [Server -> Counting] /\ count'[s] = c /\ \A t \in Server \ {s} : count'[t] = count[t]
  BY <1>0
<1>2. \A t \in Server : Clock(t)' = Clock(t)
  BY DEF Clock
<1>3. AtWork'
  BY <1>1, <1>2 DEF RateTypes, AtWork
<1>4. Busy' = IF c.step # "rest" THEN Busy \cup {s} ELSE Busy \ {s}
  BY <1>1 DEF Busy
<1>5. ASSUME NEW slot
      PROVE  (Due(slot))' = IF c.step = "answer" /\ ~c.seen /\ SlotOf(c.at) = slot
                            THEN Due(slot) \cup {s} ELSE Due(slot) \ {s}
  BY <1>1 DEF Due, SlotOf
<1>6. QED
  BY <1>1, <1>3, <1>4, <1>5

LEMMA AllowHolds ==
  ASSUME RateIInv, NEW s \in Server, Allow(s)
  PROVE  RateIInv'
<1>0. RateTypes /\ Asked /\ Room
  BY DEF RateIInv
<1>1. /\ s \in sharing /\ asked < MaxHits /\ asked' = asked + 1 /\ count[s].step = "rest"
      /\ UNCHANGED <<sharing, time, hits, blocked, allowed>>
  BY DEF Allow
<1>2. OwnHits' /\ OwnLimit'
  BY <1>1, SharedOnly
<1>3. asked \in Nat /\ asked' \in 0..MaxHits /\ Cardinality(Busy) \in Nat /\ \A slot \in Slots : rows[slot] \in Nat
  BY <1>0, <1>1, RateBounds, SomeServers DEF RateTypes, Busy
<1>4. CASE UNCHANGED <<rows, swept, count>>
  <2>1. Busy' = Busy
    BY <1>4, WorkersStay
  <2>2. Asked'
    BY <1>0, <1>1, <1>3, <1>4, <2>1, SlotsStay DEF Asked
  <2>3. Room'
    BY <1>1, <1>4, RoomStays
  <2>4. AtWork'
    BY <1>0, <1>1, <1>4 DEF RateTypes, AtWork, Clock
  <2>5. RateTypes'
    BY <1>0, <1>1, <1>3, <1>4, <2>4, SlotsStay DEF RateTypes
  <2>6. QED
    BY <1>2, <2>2, <2>3, <2>5 DEF RateIInv
<1>5. CASE ~(blocked[s] > Clock(s))
  <2>0. PICK c : c = [step |-> "select", at |-> Clock(s), seen |-> FALSE]
    OBVIOUS
  <2>1. /\ rows' = IF SlotOf(Clock(s)) = swept[s] THEN rows
                   ELSE [n \in Slots |-> IF n < SlotOf(Clock(s)) - 1 THEN 0 ELSE rows[n]]
        /\ swept' = [swept EXCEPT ![s] = SlotOf(Clock(s))]
        /\ count' = [count EXCEPT ![s] = c]
    BY <1>5, <2>0 DEF Allow
  <2>2. Clock(s) \in Nat /\ Seconds <= Clock(s) /\ SlotOf(Clock(s)) \in Nat
    BY <1>0, ClockFacts, SlotFacts, RateBounds, Division DEF SlotOf
  <2>3. c \in Counting /\ c.step = "select" /\ c.at = Clock(s) /\ c.at \in Seconds..Clock(s)
    BY <2>0, <2>2, RateBounds DEF Counting
  <2>4. /\ count' \in [Server -> Counting] /\ AtWork' /\ Busy' = Busy \cup {s}
        /\ \A slot : (Due(slot))' = Due(slot) \ {s}
    BY <1>0, <1>1, <2>1, <2>3, OneWorks
  <2>5. rows' \in [Slots -> Nat] /\ \A slot \in Slots : rows'[slot] <= rows[slot] /\ rows'[slot] \in Nat
    BY <1>0, <1>3, <2>1 DEF RateTypes
  <2>6. RateTypes'
    <3>1. swept' \in [Server -> Nat]
      BY <1>0, <2>1, <2>2 DEF RateTypes
    <3>2. QED
      BY <1>0, <1>1, <1>3, <2>4, <2>5, <3>1, SlotsStay DEF RateTypes
  <2>7. Asked'
    <3>1. Cardinality(Busy') \in Nat /\ Cardinality(Busy') <= Cardinality(Busy) + 1
      <4>1. IsFiniteSet(Busy) /\ IsFiniteSet(Busy \cup {s})
        BY SomeServers, FS_AddElement DEF Busy
      <4>2. QED
        BY <2>4, <4>1, OneMore, FS_CardinalityType
    <3>2. ASSUME NEW slot \in Slots PROVE rows'[slot] + Cardinality(Busy') <= asked'
      <4>1. rows[slot] + Cardinality(Busy) <= asked /\ rows[slot] \in Nat
        BY <1>0, <1>3 DEF Asked
      <4>2. QED
        BY <1>1, <1>3, <2>5, <3>1, <4>1
    <3>3. QED
      BY <3>2, SlotsStay DEF Asked
  <2>8. Room'
    <3>1. ASSUME NEW slot \in Slots PROVE rows'[slot] + Cardinality((Due(slot))') <= Limit + Others
      <4>1. rows[slot] + Cardinality(Due(slot)) <= Limit + Others /\ Limit + Others \in Int
        BY <1>0, <1>1, RateBounds, SomeServers DEF Room, RateTypes, Others
      <4>2. Cardinality((Due(slot))') <= Cardinality(Due(slot))
        BY <2>4, SomeServers DEF Due
      <4>3. Cardinality(Due(slot)) \in Nat /\ Cardinality((Due(slot))') \in Nat
        BY <2>4, SomeServers DEF Due
      <4>4. QED
        BY <1>3, <2>5, <4>1, <4>2, <4>3
    <3>2. QED
      BY <1>1, <3>1, SlotsStay DEF Room, Others
  <2>9. QED
    BY <1>2, <2>6, <2>7, <2>8 DEF RateIInv
<1>6. QED
  BY <1>4, <1>5 DEF Allow

(* A hit that is found to fit leaves room for itself in its slot.                                         *)
LEMMA NotFull ==
  ASSUME RateTypes, NEW moment \in Nat, Seconds <= moment, moment <= MaxTime + MaxAhead, ~Full(moment)
  PROVE  rows[SlotOf(moment)] <= Limit - 1
<1> DEFINE slot == SlotOf(moment)
           left == Seconds - (moment - slot * Seconds)
<1>1. slot \in Slots /\ slot - 1 \in Slots /\ moment - slot * Seconds \in 0..(Seconds - 1)
  BY SlotFacts
<1>2. left \in Nat /\ rows[slot] \in Nat /\ rows[slot - 1] \in Nat /\ Limit \in Nat /\ Seconds \in Nat /\ Seconds >= 1
  BY <1>1, RateBounds DEF RateTypes
<1>3. ~(rows[slot - 1] * left + rows[slot] * Seconds >= Limit * Seconds)
  BY DEF Full
<1> HIDE DEF left
<1>4. rows[slot - 1] * left \in Nat /\ rows[slot] * Seconds \in Nat /\ Limit * Seconds \in Nat
  BY <1>2
<1>5. ~(rows[slot] * Seconds >= Limit * Seconds)
  BY <1>3, <1>4
<1>6. ~(rows[slot] >= Limit)
  BY <1>2, <1>5, ProductGrows
<1>7. QED
  BY <1>2, <1>6

LEMMA SelectHolds ==
  ASSUME RateIInv, NEW s \in Server, Select(s)
  PROVE  RateIInv'
<1>0. RateTypes /\ Asked /\ Room
  BY DEF RateIInv
<1> DEFINE at == count[s].at
<1>1. count[s].step = "select" /\ UNCHANGED <<sharing, time, asked, rows, hits, blocked, swept, allowed>>
  BY DEF Select
<1>2. count[s] \in Counting /\ s \in sharing /\ at \in Seconds..Clock(s) /\ at \in Nat
  BY <1>0, <1>1 DEF RateTypes, AtWork, Counting
<1>3. at >= Seconds /\ at <= MaxTime + MaxAhead
  BY <1>0, <1>2, ClockFacts, RateBounds
<1>4. OwnHits' /\ OwnLimit'
  BY <1>1, <1>2, SharedOnly
<1>5. PICK full \in BOOLEAN : full = Full(at)
  <2>1. SlotOf(at) \in Slots /\ SlotOf(at) - 1 \in Slots /\ at - SlotOf(at) * Seconds \in 0..(Seconds - 1)
    BY <1>2, <1>3, SlotFacts
  <2>2. rows[SlotOf(at)] \in Nat /\ rows[SlotOf(at) - 1] \in Nat
    BY <1>0, <2>1 DEF RateTypes
  <2>3. Full(at) \in BOOLEAN
    BY <2>1, <2>2, RateBounds DEF Full
  <2>4. QED
    BY <2>3
<1>6. PICK c : c = [step |-> "answer", at |-> at, seen |-> full]
  OBVIOUS
<1>7. c \in Counting /\ c.step = "answer" /\ c.at = at /\ c.seen = full
  BY <1>2, <1>6 DEF Counting
<1>8. count' = [count EXCEPT ![s] = c]
  <2>1. count' = [count EXCEPT ![s] = [step |-> "answer", at |-> at, seen |-> full]]
    BY <1>0, <1>5 DEF Select, RateTypes
  <2>2. QED
    BY <1>6, <2>1
<1>9. /\ count' \in [Server -> Counting] /\ AtWork' /\ Busy' = Busy \cup {s}
      /\ \A slot : (Due(slot))' = IF ~full /\ SlotOf(at) = slot THEN Due(slot) \cup {s} ELSE Due(slot) \ {s}
  <2>1. c.step # "rest"
    BY <1>7
  <2>2. UNCHANGED <<sharing, time>> /\ c.at \in Seconds..Clock(s)
    BY <1>1, <1>2, <1>7
  <2>3. /\ count' \in [Server -> Counting] /\ AtWork' /\ Busy' = Busy \cup {s}
        /\ \A slot : (Due(slot))' = IF c.step = "answer" /\ ~c.seen /\ SlotOf(c.at) = slot
                                   THEN Due(slot) \cup {s} ELSE Due(slot) \ {s}
    BY <1>0, <1>2, <1>7, <1>8, <2>1, <2>2, OneWorks
  <2>4. QED
    BY <1>7, <2>3
<1>10. RateTypes'
  BY <1>0, <1>1, <1>9, SlotsStay DEF RateTypes
<1>11. Asked'
  <2>1. Busy' = Busy
    BY <1>1, <1>9 DEF Busy
  <2>2. QED
    BY <1>0, <1>1, <2>1, SlotsStay DEF Asked
<1>12. Room'
  <2>1. ASSUME NEW slot \in Slots PROVE rows[slot] + Cardinality((Due(slot))') <= Limit + Others
    <3>0. /\ rows[slot] \in Nat /\ Limit \in Nat /\ Cardinality(sharing) \in Nat
          /\ Cardinality(Due(slot)) \in Nat /\ Cardinality((Due(slot))') \in Nat
      BY <1>0, <1>9, RateBounds, SomeServers DEF RateTypes, Due
    <3>1. CASE ~full /\ SlotOf(at) = slot
      <4>1. rows[slot] <= Limit - 1
        BY <1>0, <1>2, <1>3, <1>5, <3>1, NotFull
      <4>2. (Due(slot))' \subseteq sharing
        <5>1. Due(slot) \subseteq sharing
          BY <1>0 DEF Due, RateTypes, AtWork
        <5>2. QED
          BY <1>2, <1>9, <5>1
      <4>3. Cardinality((Due(slot))') <= Cardinality(sharing)
        BY <1>0, <4>2, SomeServers DEF RateTypes
      <4>4. QED
        BY <3>0, <4>1, <4>3 DEF Others
    <3>2. CASE ~(~full /\ SlotOf(at) = slot)
      <4>1. (Due(slot))' \subseteq Due(slot)
        BY <1>9, <3>2
      <4>2. Cardinality((Due(slot))') <= Cardinality(Due(slot))
        BY <4>1, SomeServers DEF Due
      <4>3. rows[slot] + Cardinality(Due(slot)) <= Limit + Others
        BY <1>0, <1>2 DEF Room
      <4>4. QED
        BY <3>0, <4>2, <4>3 DEF Others
    <3>3. QED
      BY <3>1, <3>2
  <2>2. QED
    BY <1>1, <2>1, SlotsStay DEF Room, Others
<1>13. QED
  BY <1>4, <1>10, <1>11, <1>12 DEF RateIInv

LEMMA AnswerHolds ==
  ASSUME RateIInv, NEW s \in Server, Answer(s)
  PROVE  RateIInv'
<1>0. RateTypes /\ Asked /\ Room
  BY DEF RateIInv
<1> DEFINE at == count[s].at
           here == SlotOf(at)
<1>1. /\ count[s].step = "answer" /\ count' = [count EXCEPT ![s] = Resting]
      /\ UNCHANGED <<sharing, time, asked, hits, swept>>
  BY DEF Answer
<1>2. count[s] \in Counting /\ s \in sharing /\ at \in Seconds..Clock(s) /\ at \in Nat
  BY <1>0, <1>1 DEF RateTypes, AtWork, Counting
<1>3. at >= Seconds /\ at <= MaxTime + MaxAhead
  BY <1>0, <1>2, ClockFacts, RateBounds
<1>4. OwnHits' /\ OwnLimit'
  BY <1>1, <1>2, SharedOnly
<1>5. here \in Slots /\ here \in Nat
  BY <1>2, <1>3, SlotFacts, RateBounds, Division DEF SlotOf
<1>6. /\ count' \in [Server -> Counting] /\ AtWork' /\ Busy' = Busy \ {s}
      /\ \A slot : (Due(slot))' = Due(slot) \ {s}
  BY <1>0, <1>1, RestingHeld, OneWorks
<1>7. Cardinality(Busy) \in Nat /\ Cardinality(Busy') = Cardinality(Busy) - 1
  <2>1. s \in Busy /\ IsFiniteSet(Busy)
    BY <1>1, SomeServers DEF Busy
  <2>2. QED
    BY <1>6, <2>1, FS_RemoveElement, FS_CardinalityType
<1>8. ASSUME NEW slot \in Slots
      PROVE  /\ rows[slot] \in Nat /\ Cardinality(Due(slot)) \in Nat /\ Cardinality((Due(slot))') \in Nat
             /\ Cardinality((Due(slot))') <= Cardinality(Due(slot))
             /\ rows[slot] + Cardinality(Due(slot)) <= Limit + Others /\ Limit + Others \in Int
             /\ rows[slot] + Cardinality(Busy) <= asked /\ asked \in Nat
  <2>1. Limit + Others \in Int
    BY <1>0, RateBounds, SomeServers DEF RateTypes, Others
  <2>2. Due(slot) \ {s} \in SUBSET Due(slot) /\ Due(slot) \in SUBSET Server
    BY DEF Due
  <2>3. Cardinality(Due(slot)) \in Nat /\ Cardinality(Due(slot) \ {s}) \in Nat
        /\ Cardinality(Due(slot) \ {s}) <= Cardinality(Due(slot))
    BY <2>2, SomeServers
  <2>4. (Due(slot))' = Due(slot) \ {s}
    BY <1>6
  <2>5. rows[slot] \in Nat /\ asked \in Nat
    BY <1>0, RateBounds DEF RateTypes
  <2>6. rows[slot] + Cardinality(Due(slot)) <= Limit + Others /\ rows[slot] + Cardinality(Busy) <= asked
    BY <1>0, <1>2 DEF Room, Asked
  <2>7. QED
    BY <2>1, <2>3, <2>4, <2>5, <2>6
<1>9. CASE ~count[s].seen /\ rows' = [rows EXCEPT ![here] = @ + 1] /\ UNCHANGED blocked
           /\ allowed' = allowed \cup {[id |-> Cardinality(allowed) + 1, at |-> at, by |-> s]}
  <2>0. rows' \in [Slots -> Nat] /\ rows'[here] = rows[here] + 1 /\ \A slot \in Slots \ {here} : rows'[slot] = rows[slot]
    BY <1>0, <1>5, <1>9 DEF RateTypes
  <2>1. RateTypes'
    <3>1. Cardinality(allowed) + 1 \in Nat
      BY <1>0, FS_CardinalityType DEF RateTypes
    <3>2. allowed' \subseteq [id : Nat, at : Nat, by : Server]
      BY <1>0, <1>2, <1>9, <3>1 DEF RateTypes
    <3>4. IsFiniteSet(allowed')
      BY <1>0, <1>9, FS_AddElement DEF RateTypes
    <3>3. QED
      BY <1>0, <1>1, <1>6, <1>9, <2>0, <3>2, <3>4, SlotsStay DEF RateTypes
  <2>2. Asked'
    <3>1. ASSUME NEW slot \in Slots PROVE rows'[slot] + Cardinality(Busy') <= asked
      BY <1>7, <1>8, <2>0
    <3>2. QED
      BY <1>1, <3>1, SlotsStay DEF Asked
  <2>3. Room'
    <3>0. PICK h \in Slots : h = here
      BY <1>5
    <3>1. s \in Due(h) /\ IsFiniteSet(Due(h))
      BY <1>1, <1>9, <3>0, SomeServers DEF Due
    <3>2. Cardinality((Due(h))') = Cardinality(Due(h)) - 1
      <4>1. Cardinality(Due(h) \ {s}) = Cardinality(Due(h)) - 1
        BY <3>1, FS_RemoveElement
      <4>2. (Due(h))' = Due(h) \ {s}
        BY <1>6
      <4>3. QED
        BY <4>1, <4>2
    <3>3. ASSUME NEW slot \in Slots PROVE rows'[slot] + Cardinality((Due(slot))') <= Limit + Others
      <4>1. CASE slot = h
        BY <1>8, <2>0, <3>0, <3>2, <4>1
      <4>2. CASE slot # h
        BY <1>8, <2>0, <3>0, <4>2
      <4>3. QED
        BY <4>1, <4>2
    <3>4. QED
      BY <1>1, <3>3, SlotsStay DEF Room, Others
  <2>4. QED
    BY <1>4, <2>1, <2>2, <2>3 DEF RateIInv
<1>10. CASE UNCHANGED <<rows, allowed>>
            /\ \E room \in BOOLEAN : blocked' = IF room THEN [blocked EXCEPT ![s] = (here + 1) * Seconds] ELSE blocked
  <2>1. RateTypes'
    <3>1. (here + 1) * Seconds \in Nat
      BY <1>5, RateBounds
    <3>2. blocked' \in [Server -> Nat]
      BY <1>0, <1>10, <3>1 DEF RateTypes
    <3>3. QED
      BY <1>0, <1>1, <1>6, <1>10, <3>2, SlotsStay DEF RateTypes
  <2>2. Asked'
    <3>1. ASSUME NEW slot \in Slots PROVE rows[slot] + Cardinality(Busy') <= asked
      BY <1>7, <1>8
    <3>2. QED
      BY <1>1, <1>10, <3>1, SlotsStay DEF Asked
  <2>3. Room'
    <3>1. ASSUME NEW slot \in Slots PROVE rows[slot] + Cardinality((Due(slot))') <= Limit + Others
      BY <1>8
    <3>2. QED
      BY <1>1, <1>10, <3>1, SlotsStay DEF Room, Others
  <2>4. QED
    BY <1>4, <2>1, <2>2, <2>3 DEF RateIInv
<1>11. QED
  BY <1>9, <1>10 DEF Answer

LEMMA RateStutters ==
  ASSUME RateIInv, UNCHANGED rateVars
  PROVE  RateIInv'
<1>1. UNCHANGED <<sharing, time, asked, rows, hits, blocked, swept, count, allowed>>
  BY DEF rateVars
<1>2. \A s \in Server : Clock(s)' = Clock(s) /\ (ByThis(s))' = ByThis(s)
  BY <1>1 DEF Clock, ByThis
<1>3. RateTypes'
  BY <1>1, <1>2, SlotsStay DEF RateIInv, RateTypes, AtWork
<1>4. OwnHits' /\ OwnLimit'
  BY <1>1, <1>2 DEF RateIInv, OwnHits, OwnLimit, Within
<1>5. QED
  BY <1>1, <1>3, <1>4, RoomStays DEF RateIInv

LEMMA RateKept == RateIInv /\ [RateNext]_rateVars => RateIInv'
<1> SUFFICES ASSUME RateIInv, [RateNext]_rateVars PROVE RateIInv'
  OBVIOUS
<1>1. CASE Passes
  BY <1>1, PassesHolds
<1>2. ASSUME NEW s \in Server, AllowHere(s) PROVE RateIInv'
  BY <1>2, AllowHereHolds
<1>3. ASSUME NEW s \in Server, Allow(s) PROVE RateIInv'
  BY <1>3, AllowHolds
<1>4. ASSUME NEW s \in Server, Select(s) PROVE RateIInv'
  BY <1>4, SelectHolds
<1>5. ASSUME NEW s \in Server, Answer(s) PROVE RateIInv'
  BY <1>5, AnswerHolds
<1>6. CASE UNCHANGED rateVars
  BY <1>6, RateStutters
<1>7. QED
  BY <1>1, <1>2, <1>3, <1>4, <1>5, <1>6 DEF RateNext

-----------------------------------------------------------------------------
(* What servers that share the counts have let through.  A row is what was let through in its slot, until *)
(* it is forgotten; what is let through after that was asked for before.                                  *)
SlotAt(s) == SlotOf(count[s].at)
Fits(s) == count[s].step = "answer" /\ ~count[s].seen
UpTo(slot) == {s \in Server : count[s].step # "rest" /\ SlotAt(s) <= slot}
Forgot(slot) == \E s \in Server : swept[s] > slot + 1

Dated ==
  /\ \A hit \in allowed : hit.id <= Cardinality(allowed) /\ hit.by \in sharing /\ hit.at <= Clock(hit.by)
  /\ \A s \in Server : swept[s] <= SlotOf(Clock(s)) /\ (s \notin sharing => swept[s] = 0)
Recorded == \A slot \in Slots : ~Forgot(slot) => Cardinality(HitsIn(slot)) <= rows[slot]
SlotKept == MaxAhead <= Seconds => \A slot \in Slots :
  Forgot(slot) => Cardinality(HitsIn(slot)) + Cardinality(UpTo(slot)) <= Limit + 2 * Others

(* A burst is in two slots.  From the first hit that fits in the second on, those that are let through and *)
(* those that may yet be are bounded by what that server read of both rows; when the first row is          *)
(* forgotten, by that and one hit of each other server.                                                    *)
Reach(length) == Seconds * Limit + (Limit + Others) * length + Seconds + Seconds * Others
Second(from, length) == {s \in Server : Fits(s) /\ count[s].at \in from..(from + length) /\ SlotAt(s) = SlotOf(from) + 1}
Begun(from, length) ==
  Second(from, length) # {} \/ \E hit \in Within(from, from + length) : SlotOf(hit.at) = SlotOf(from) + 1
Coming(from, length) ==
  IF Forgot(SlotOf(from)) THEN UpTo(SlotOf(from) + 1) ELSE UpTo(SlotOf(from)) \cup Second(from, length)
Taken(from, length) == Seconds * (Cardinality(Within(from, from + length)) + Cardinality(Coming(from, length)))
Burst(from, length) ==
  IF Forgot(SlotOf(from)) THEN Taken(from, length) < Reach(length) + Seconds * Others
                          ELSE Begun(from, length) => Taken(from, length) < Reach(length)
Bursts == ClocksAgree => \A from \in 0..MaxTime, length \in 0..(Seconds - 1) : Burst(from, length)

SharedIInv == sharing # {} => Dated /\ Recorded /\ SlotKept /\ Bursts
-----------------------------------------------------------------------------
(* Moments and their slots.                                                                               *)
LEMMA SlotBounds ==
  ASSUME NEW a \in Nat
  PROVE  SlotOf(a) \in Nat /\ SlotOf(a) * Seconds \in Nat /\ SlotOf(a) * Seconds <= a /\ a < SlotOf(a) * Seconds + Seconds
<1>1. Seconds \in Nat /\ Seconds >= 1
  BY RateBounds
<1>2. SlotOf(a) \in Nat /\ SlotOf(a) * Seconds <= a /\ a < SlotOf(a) * Seconds + Seconds
  BY <1>1, Division DEF SlotOf
<1>3. SlotOf(a) * Seconds \in Nat
  BY <1>1, <1>2
<1>4. QED
  BY <1>2, <1>3

LEMMA SlotSteps ==
  ASSUME NEW a \in Nat, NEW b \in Nat
  PROVE  /\ a <= b => SlotOf(a) <= SlotOf(b)
         /\ a <= b + Seconds => SlotOf(a) <= SlotOf(b) + 1
<1> DEFINE i == SlotOf(a)
           j == SlotOf(b)
<1>1. Seconds \in Nat /\ Seconds >= 1
  BY RateBounds
<1>2. /\ i \in Nat /\ i * Seconds \in Nat /\ i * Seconds <= a
      /\ j \in Nat /\ j * Seconds \in Nat /\ b < j * Seconds + Seconds
  BY SlotBounds
<1> HIDE DEF i, j
<1>3. (j + 1) * Seconds = j * Seconds + Seconds /\ (j + 2) * Seconds = j * Seconds + Seconds + Seconds
  BY <1>1, <1>2
<1>4. ASSUME a <= b PROVE i <= j
  <2>1. ~(i * Seconds >= (j + 1) * Seconds)
    BY <1>1, <1>2, <1>3, <1>4
  <2>2. ~(i >= j + 1)
    BY <1>1, <1>2, <2>1, ProductGrows
  <2>3. QED
    BY <1>2, <2>2
<1>5. ASSUME a <= b + Seconds PROVE i <= j + 1
  <2>1. ~(i * Seconds >= (j + 2) * Seconds)
    BY <1>1, <1>2, <1>3, <1>5
  <2>2. ~(i >= j + 2)
    BY <1>1, <1>2, <2>1, ProductGrows
  <2>3. QED
    BY <1>2, <2>2
<1>6. QED
  BY <1>4, <1>5 DEF i, j

LEMMA BurstSlots ==
  ASSUME NEW from \in Nat, NEW length \in 0..(Seconds - 1), NEW a \in from..(from + length)
  PROVE  /\ SlotOf(a) = SlotOf(from) \/ SlotOf(a) = SlotOf(from) + 1
         /\ SlotOf(a) = SlotOf(from) + 1 => a - SlotOf(a) * Seconds \in 0..length
<1>1. Seconds \in Nat /\ Seconds >= 1 /\ a \in Nat /\ length \in Nat
  BY RateBounds
<1>2. SlotOf(a) \in Nat /\ SlotOf(from) \in Nat /\ SlotOf(from) <= SlotOf(a) /\ SlotOf(a) <= SlotOf(from) + 1
  BY <1>1, SlotBounds, SlotSteps
<1>3. ASSUME SlotOf(a) = SlotOf(from) + 1 PROVE a - SlotOf(a) * Seconds \in 0..length
  <2> DEFINE i == SlotOf(from)
  <2>1. i \in Nat /\ i * Seconds \in Nat /\ from < i * Seconds + Seconds /\ (i + 1) * Seconds <= a
    BY <1>1, <1>3, SlotBounds
  <2> HIDE DEF i
  <2>2. (i + 1) * Seconds = i * Seconds + Seconds
    BY <1>1, <2>1
  <2>3. a - (i + 1) * Seconds \in 0..length
    BY <1>1, <2>1, <2>2
  <2>4. QED
    BY <1>3, <2>3 DEF i
<1>4. QED
  BY <1>2, <1>3

LEMMA EarlySlots ==
  ASSUME NEW from \in 0..MaxTime
  PROVE  from \in Nat /\ SlotOf(from) \in Slots /\ SlotOf(from) \in Nat
<1>1. from \in Nat /\ MaxTime + MaxAhead \in Nat /\ from <= MaxTime + MaxAhead
  BY RateBounds
<1>2. SlotOf(from) \in Nat /\ SlotOf(MaxTime + MaxAhead) \in Nat /\ SlotOf(from) <= SlotOf(MaxTime + MaxAhead)
  BY <1>1, SlotBounds, SlotSteps
<1>3. SlotOf(MaxTime + MaxAhead) = (MaxTime + MaxAhead) \div Seconds
  BY DEF SlotOf
<1>4. QED
  BY <1>1, <1>2, <1>3 DEF Slots

(* What two rows let through, the first of them by what of it is in the window.                           *)
LEMMA Weighed ==
  ASSUME NEW a \in Nat, NEW b \in Nat, NEW most \in Nat, NEW offset \in Nat, NEW length \in Nat,
         offset <= length, length < Seconds, a <= most, a * (Seconds - offset) + b * Seconds < Limit * Seconds
  PROVE  Seconds * (a + b) < Seconds * Limit + most * length
<1>1. Seconds \in Nat /\ Limit \in Nat
  BY RateBounds
<1>2. a * offset <= most * length
  <2>1. most * length = a * offset + a * (length - offset) + (most - a) * length
    OBVIOUS
  <2>2. QED
    OBVIOUS
<1>3. a * (Seconds - offset) = Seconds * a - a * offset
  BY <1>1
<1>4. QED
  BY <1>1, <1>2, <1>3
-----------------------------------------------------------------------------
LEMMA OthersBound ==
  ASSUME RateTypes, sharing # {}
  PROVE  /\ Others \in Nat /\ Cardinality(sharing) = Others + 1
         /\ \A T \in SUBSET sharing : IsFiniteSet(T) /\ Cardinality(T) \in Nat /\ Cardinality(T) <= Others + 1
         /\ \A s \in sharing : \A T \in SUBSET (sharing \ {s}) : Cardinality(T) <= Others
<1>1. sharing \in SUBSET Server
  BY DEF RateTypes
<1>2. IsFiniteSet(sharing) /\ Cardinality(sharing) \in Nat /\ Cardinality(sharing) # 0
  BY <1>1, SomeServers, FS_EmptySet
<1>3. Others \in Nat /\ Cardinality(sharing) = Others + 1
  BY <1>2 DEF Others
<1>4. ASSUME NEW T \in SUBSET sharing PROVE IsFiniteSet(T) /\ Cardinality(T) \in Nat /\ Cardinality(T) <= Others + 1
  BY <1>2, <1>3, FS_Subset, FS_CardinalityType
<1>5. ASSUME NEW s \in sharing, NEW T \in SUBSET (sharing \ {s}) PROVE Cardinality(T) <= Others
  <2>1. IsFiniteSet(sharing \ {s}) /\ Cardinality(sharing \ {s}) = Cardinality(sharing) - 1
    BY <1>2, FS_RemoveElement
  <2>2. Cardinality(T) <= Cardinality(sharing \ {s})
    BY <2>1, FS_Subset
  <2>3. QED
    BY <1>2, <1>3, <2>1, <2>2
<1>6. QED
  BY <1>3, <1>4, <1>5

LEMMA AtWorkShared ==
  ASSUME RateTypes
  PROVE  /\ \A slot : UpTo(slot) \in SUBSET sharing
         /\ \A from, length : Second(from, length) \in SUBSET sharing /\ Coming(from, length) \in SUBSET sharing
<1>1. \A s \in Server : count[s].step # "rest" => s \in sharing
  BY DEF RateTypes, AtWork
<1>2. \A slot : UpTo(slot) \in SUBSET sharing
  BY <1>1 DEF UpTo
<1>3. \A from, length : Second(from, length) \in SUBSET sharing
  BY <1>1 DEF Second, Fits
<1>4. QED
  BY <1>2, <1>3 DEF Coming

LEMMA HitsFinite ==
  ASSUME RateTypes
  PROVE  /\ \A slot : IsFiniteSet(HitsIn(slot)) /\ Cardinality(HitsIn(slot)) \in Nat
         /\ \A from, till : IsFiniteSet(Within(from, till)) /\ Cardinality(Within(from, till)) \in Nat
<1>1. IsFiniteSet(allowed)
  BY DEF RateTypes
<1>2. ASSUME NEW T \in SUBSET allowed PROVE IsFiniteSet(T) /\ Cardinality(T) \in Nat
  BY <1>1, FS_Subset, FS_CardinalityType
<1>3. QED
  BY <1>2 DEF HitsIn, Within

LEMMA SlotAtType ==
  ASSUME RateTypes, NEW s \in Server
  PROVE  /\ count[s].at \in Nat /\ SlotAt(s) \in Nat /\ swept[s] \in Nat
         /\ SlotOf(Clock(s)) \in Nat /\ (count[s].step # "rest" => count[s].at <= Clock(s) /\ SlotAt(s) <= SlotOf(Clock(s)))
<1>1. count[s] \in Counting /\ count[s].at \in Nat /\ swept[s] \in Nat
  BY DEF RateTypes, Counting
<1>2. Clock(s) \in Nat
  BY ClockFacts
<1>3. count[s].step # "rest" => count[s].at <= Clock(s)
  BY <1>1, <1>2, RateBounds DEF RateTypes, AtWork
<1>4. QED
  BY <1>1, <1>2, <1>3, SlotBounds, SlotSteps DEF SlotAt

LEMMA HitTypes ==
  ASSUME RateTypes, NEW hit \in allowed
  PROVE  hit.at \in Nat /\ hit.id \in Nat /\ hit.by \in Server /\ SlotOf(hit.at) \in Nat
<1>1. hit.at \in Nat /\ hit.id \in Nat /\ hit.by \in Server
  BY DEF RateTypes
<1>2. QED
  BY <1>1, SlotBounds

(* Where the clocks agree, whoever shares the counts finds no hit and nobody at work in a slot to come.    *)
LEMMA SameSlot ==
  ASSUME RateTypes, ClocksAgree, NEW s \in sharing, NEW t \in sharing
  PROVE  Clock(s) = Clock(t)
BY DEF ClocksAgree, Clock

(* Before a row is forgotten it bounds a burst that has not come to the second slot.                       *)
LEMMA FirstSlot ==
  ASSUME RateTypes, Recorded, RowLimit, sharing # {}, NEW from \in 0..MaxTime, NEW length \in 0..(Seconds - 1),
         ~Forgot(SlotOf(from)), ~Begun(from, length)
  PROVE  Cardinality(Within(from, from + length)) <= Limit + Others
<1>1. from \in Nat /\ SlotOf(from) \in Slots
  BY EarlySlots
<1>2. Within(from, from + length) \in SUBSET HitsIn(SlotOf(from))
  <2>1. ASSUME NEW hit \in Within(from, from + length) PROVE hit \in HitsIn(SlotOf(from))
    <3>1. hit \in allowed /\ hit.at \in from..(from + length)
      BY DEF Within
    <3>2. SlotOf(hit.at) = SlotOf(from) \/ SlotOf(hit.at) = SlotOf(from) + 1
      BY <1>1, <3>1, BurstSlots
    <3>3. QED
      BY <3>1, <3>2 DEF HitsIn, Begun
  <2>2. QED
    BY <2>1
<1>3. Cardinality(Within(from, from + length)) <= Cardinality(HitsIn(SlotOf(from)))
  BY <1>2, HitsFinite, FS_Subset
<1>4. Cardinality(HitsIn(SlotOf(from))) <= rows[SlotOf(from)] /\ rows[SlotOf(from)] <= Limit + Others
  BY <1>1 DEF Recorded, RowLimit
<1>5. QED
  <2>1. rows[SlotOf(from)] \in Nat /\ Limit + Others \in Int
    BY <1>1, RateBounds, OthersBound DEF RateTypes
  <2>2. Cardinality(HitsIn(SlotOf(from))) \in Nat /\ Cardinality(Within(from, from + length)) \in Nat
    BY HitsFinite
  <2>3. QED
    BY <1>3, <1>4, <2>1, <2>2

LEMMA ReachType ==
  ASSUME RateTypes, sharing # {}, NEW length \in 0..(Seconds - 1)
  PROVE  /\ Reach(length) \in Nat /\ Seconds * Others \in Nat
         /\ Seconds * (Limit + Others) < Reach(length)
         /\ Reach(length) + Seconds * Others
              = Seconds * Limit + (Limit + Others) * length + Seconds + 2 * Seconds * Others
<1>1. Seconds \in Nat /\ Seconds >= 1 /\ Limit \in Nat /\ Others \in Nat /\ length \in Nat
  BY RateBounds, OthersBound
<1>2. (Limit + Others) * length \in Nat /\ Seconds * Limit \in Nat /\ Seconds * Others \in Nat
  BY <1>1
<1>3. Seconds * (Limit + Others) = Seconds * Limit + Seconds * Others /\ 2 * Seconds * Others = Seconds * Others + Seconds * Others
  BY <1>1
<1>4. QED
  BY <1>1, <1>2, <1>3 DEF Reach

LEMMA TimesMore ==
  ASSUME NEW a \in Nat, NEW b \in Nat, a <= b
  PROVE  Seconds * a \in Nat /\ Seconds * b \in Nat /\ Seconds * a <= Seconds * b
<1>1. Seconds \in Nat
  BY RateBounds
<1>2. QED
  BY <1>1

(* What the invariant says of bursts is the bound that a burst has.                                        *)
LEMMA BurstsBounded ==
  ASSUME RateIInv, SharedIInv
  PROVE  RatesInv
<1>1. RateTypes /\ RateTypeOK /\ OwnLimit /\ RowLimit
  BY LimitsFollow DEF RateIInv
<1>2. SlotLimit
  <2> SUFFICES ASSUME sharing # {}, NEW slot \in Slots
               PROVE  rows[slot] <= Limit + Others /\ (MaxAhead <= Seconds => Cardinality(HitsIn(slot)) <= Limit + 2 * Others)
    BY DEF SlotLimit
  <2>1. rows[slot] <= Limit + Others /\ rows[slot] \in Nat /\ Limit \in Nat /\ Others \in Nat
    BY <1>1, RateBounds, OthersBound DEF RowLimit, RateTypes
  <2>2. Cardinality(HitsIn(slot)) \in Nat /\ Cardinality(UpTo(slot)) \in Nat
    BY <1>1, HitsFinite, AtWorkShared, OthersBound
  <2>3. ASSUME MaxAhead <= Seconds PROVE Cardinality(HitsIn(slot)) <= Limit + 2 * Others
    <3>1. CASE Forgot(slot)
      BY <2>1, <2>2, <2>3, <3>1 DEF SharedIInv, SlotKept
    <3>2. CASE ~Forgot(slot)
      BY <2>1, <2>2, <3>2 DEF SharedIInv, Recorded
    <3>3. QED
      BY <3>1, <3>2
  <2>4. QED
    BY <2>1, <2>3
<1>3. BurstLimit
  <2> SUFFICES ASSUME sharing # {}, ClocksAgree, NEW from \in 0..MaxTime, NEW length \in 0..(Seconds - 1)
               PROVE  Seconds * Cardinality(Within(from, from + length))
                        < Seconds * Limit + (Limit + Others) * length + Seconds + 2 * Seconds * Others
    BY DEF BurstLimit
  <2> DEFINE w == Cardinality(Within(from, from + length))
             n == Cardinality(Coming(from, length))
  <2>1. w \in Nat /\ n \in Nat
    BY <1>1, HitsFinite, AtWorkShared, OthersBound
  <2>2. Burst(from, length)
    BY DEF SharedIInv, Bursts
  <2>3. Seconds * w <= Taken(from, length) /\ Seconds * w \in Nat /\ Taken(from, length) \in Nat
    <3>1. w + n \in Nat /\ w <= w + n
      BY <2>1
    <3>2. QED
      BY <2>1, <3>1, TimesMore DEF Taken
  <2>4. /\ Reach(length) \in Nat /\ Seconds * Others \in Nat /\ Seconds * (Limit + Others) < Reach(length)
        /\ Reach(length) + Seconds * Others
              = Seconds * Limit + (Limit + Others) * length + Seconds + 2 * Seconds * Others
    BY <1>1, ReachType
  <2>5. Seconds * w < Reach(length) + Seconds * Others
    <3>1. CASE Forgot(SlotOf(from))
      BY <2>2, <2>3, <2>4, <3>1 DEF Burst
    <3>2. CASE ~Forgot(SlotOf(from)) /\ Begun(from, length)
      BY <2>2, <2>3, <2>4, <3>2 DEF Burst
    <3>3. CASE ~Forgot(SlotOf(from)) /\ ~Begun(from, length)
      <4>1. w <= Limit + Others
        BY <1>1, <3>3, FirstSlot DEF SharedIInv
      <4>2. Limit + Others \in Nat
        BY <1>1, RateBounds, OthersBound
      <4>3. Seconds * w <= Seconds * (Limit + Others) /\ Seconds * (Limit + Others) \in Nat
        BY <2>1, <4>1, <4>2, TimesMore
      <4>4. QED
        BY <2>3, <2>4, <4>3
    <3>4. QED
      BY <3>1, <3>2, <3>3
  <2>6. QED
    BY <2>4, <2>5
<1>4. QED
  BY <1>1, <1>2, <1>3 DEF RatesInv
-----------------------------------------------------------------------------
LEMMA SharedBegins == RateInit => SharedIInv
<1> SUFFICES ASSUME RateInit, sharing # {} PROVE Dated /\ Recorded /\ SlotKept /\ Bursts
  BY DEF SharedIInv
<1>0. RateTypes
  BY RateInitHolds DEF RateIInv
<1>1. allowed = {} /\ \A s \in Server : swept[s] = 0 /\ count[s].step = "rest"
  BY DEF RateInit, Resting
<1>2. \A s \in Server : swept[s] <= SlotOf(Clock(s)) /\ swept[s] = 0
  <2>1. ASSUME NEW s \in Server PROVE SlotOf(Clock(s)) \in Nat
    BY <1>0, SlotAtType
  <2>2. QED
    BY <1>1, <2>1
<1>3. Dated
  BY <1>1, <1>2 DEF Dated
<1>4. \A slot \in Slots : ~Forgot(slot)
  BY <1>1 DEF Forgot, Slots
<1>5. Recorded
  <2>1. \A slot : HitsIn(slot) = {}
    BY <1>1 DEF HitsIn
  <2>2. QED
    BY <2>1, FS_EmptySet DEF RateInit, Recorded
<1>6. SlotKept
  BY <1>4 DEF SlotKept
<1>7. Bursts
  <2>1. ASSUME NEW from \in 0..MaxTime, NEW length \in 0..(Seconds - 1) PROVE Burst(from, length)
    <3>1. ~Forgot(SlotOf(from))
      BY <1>4, EarlySlots
    <3>2. ~Begun(from, length)
      BY <1>1 DEF Begun, Second, Fits, Within
    <3>3. QED
      BY <3>1, <3>2 DEF Burst
  <2>2. QED
    BY <2>1 DEF Bursts
<1>8. QED
  BY <1>3, <1>5, <1>6, <1>7

(* A step that changes nothing the servers share.                                                          *)
LEMMA SharedStays ==
  ASSUME RateTypes, SharedIInv, sharing # {}, UNCHANGED <<sharing, rows, swept, count, allowed>>,
         time' \in Nat, time <= time'
  PROVE  SharedIInv'
<1>1. \A s \in Server : Clock(s) \in Nat /\ Clock(s)' \in Nat /\ Clock(s) <= Clock(s)'
  BY RateBounds DEF RateTypes, Clock
<1>2. Dated'
  <2>1. ASSUME NEW hit \in allowed PROVE hit.id <= Cardinality(allowed) /\ hit.by \in sharing /\ hit.at <= Clock(hit.by)'
    <3>1. hit.at \in Nat /\ hit.by \in Server
      BY HitTypes
    <3>2. hit.id <= Cardinality(allowed) /\ hit.by \in sharing /\ hit.at <= Clock(hit.by)
      BY DEF SharedIInv, Dated
    <3>3. QED
      BY <1>1, <3>1, <3>2
  <2>2. ASSUME NEW s \in Server PROVE swept[s] <= SlotOf(Clock(s)') /\ (s \notin sharing => swept[s] = 0)
    <3>1. swept[s] \in Nat /\ swept[s] <= SlotOf(Clock(s)) /\ (s \notin sharing => swept[s] = 0)
      BY SlotAtType DEF SharedIInv, Dated
    <3>2. SlotOf(Clock(s)) \in Nat /\ SlotOf(Clock(s)') \in Nat /\ SlotOf(Clock(s)) <= SlotOf(Clock(s)')
      BY <1>1, SlotBounds, SlotSteps
    <3>3. QED
      BY <3>1, <3>2
  <2>3. QED
    BY <2>1, <2>2 DEF Dated, SlotOf
<1>3. Slots' = Slots /\ Others' = Others /\ ClocksAgree' = ClocksAgree
  BY DEF Slots, Others, ClocksAgree
<1>4. /\ \A slot : Forgot(slot)' = Forgot(slot) /\ HitsIn(slot)' = HitsIn(slot) /\ UpTo(slot)' = UpTo(slot)
  BY DEF Forgot, HitsIn, UpTo, SlotAt, SlotOf
<1>5. Recorded' /\ SlotKept'
  BY <1>3, <1>4 DEF SharedIInv, Recorded, SlotKept
<1>6. Bursts'
  <2>1. ASSUME NEW from \in 0..MaxTime, NEW length \in 0..(Seconds - 1), Burst(from, length) PROVE Burst(from, length)'
    <3>1. Within(from, from + length)' = Within(from, from + length) /\ Second(from, length)' = Second(from, length)
      BY DEF Within, Second, Fits, SlotAt, SlotOf
    <3>2. Begun(from, length)' = Begun(from, length)
      BY <3>1 DEF Begun, SlotOf
    <3>3. Forgot(SlotOf(from))' = Forgot(SlotOf(from))
      BY DEF Forgot, SlotOf
    <3>4. Coming(from, length)' = Coming(from, length)
      BY <3>1, <3>3 DEF Coming, UpTo, SlotAt, SlotOf
    <3>5. Taken(from, length)' = Taken(from, length) /\ Reach(length)' = Reach(length)
      BY <1>3, <3>1, <3>4 DEF Taken, Reach
    <3>6. QED
      BY <1>3, <2>1, <3>2, <3>3, <3>5 DEF Burst
  <2>2. QED
    BY <1>3, <2>1 DEF SharedIInv, Bursts
<1>7. QED
  BY <1>2, <1>5, <1>6 DEF SharedIInv
-----------------------------------------------------------------------------
(* A server asks, at its clock.  Where the row of a slot is forgotten nobody begins in it any more.        *)
Asks(s) ==
  /\ s \in sharing /\ count[s].step = "rest" /\ UNCHANGED <<sharing, time, allowed>>
  /\ swept' = [swept EXCEPT ![s] = SlotOf(Clock(s))]
  /\ count' = [count EXCEPT ![s] = [step |-> "select", at |-> Clock(s), seen |-> FALSE]]
  /\ rows' = IF SlotOf(Clock(s)) = swept[s] THEN rows
             ELSE [n \in Slots |-> IF n < SlotOf(Clock(s)) - 1 THEN 0 ELSE rows[n]]

LEMMA AsksFacts ==
  ASSUME RateTypes, Dated, sharing # {}, NEW s \in Server, Asks(s)
  PROVE  /\ SlotOf(Clock(s)) \in Nat
         /\ \A slot \in Nat : Forgot(slot)' <=> Forgot(slot) \/ SlotOf(Clock(s)) > slot + 1
         /\ \A slot \in Nat : UpTo(slot)' = IF SlotOf(Clock(s)) <= slot THEN UpTo(slot) \cup {s} ELSE UpTo(slot)
         /\ \A slot : s \notin UpTo(slot)
         /\ \A from, length : Second(from, length)' = Second(from, length) /\ Within(from, length)' = Within(from, length)
         /\ \A slot : HitsIn(slot)' = HitsIn(slot)
         /\ \A t \in sharing : ClocksAgree => SlotOf(Clock(t)) = SlotOf(Clock(s))
<1> DEFINE here == SlotOf(Clock(s))
           c == [step |-> "select", at |-> Clock(s), seen |-> FALSE]
<1>1. here \in Nat /\ swept[s] \in Nat /\ swept[s] <= here
  BY SlotAtType DEF Dated
<1>2. swept'[s] = here /\ \A t \in Server \ {s} : swept'[t] = swept[t]
  BY DEF Asks, RateTypes
<1>3. count'[s] = c /\ \A t \in Server \ {s} : count'[t] = count[t]
  BY DEF Asks, RateTypes
<1>4. ASSUME NEW slot \in Nat PROVE Forgot(slot)' <=> Forgot(slot) \/ here > slot + 1
  <2>1. swept[s] > slot + 1 => here > slot + 1
    BY <1>1
  <2>2. QED
    BY <1>2, <2>1 DEF Forgot
<1>5. \A slot : s \notin UpTo(slot)
  BY DEF UpTo, Asks
<1>6. ASSUME NEW slot \in Nat PROVE UpTo(slot)' = IF here <= slot THEN UpTo(slot) \cup {s} ELSE UpTo(slot)
  <2>1. \A t \in Server \ {s} : t \in UpTo(slot)' <=> t \in UpTo(slot)
    BY <1>3 DEF UpTo, SlotAt, SlotOf
  <2>2. s \in UpTo(slot)' <=> here <= slot
    <3>1. count'[s].step = "select" /\ SlotAt(s)' = here
      BY <1>3 DEF SlotAt, SlotOf
    <3>2. QED
      BY <3>1 DEF UpTo
  <2>3. UpTo(slot) \subseteq Server /\ UpTo(slot)' \subseteq Server
    BY DEF UpTo
  <2>4. QED
    BY <1>5, <2>1, <2>2, <2>3
<1>7. ASSUME NEW from, NEW length PROVE Second(from, length)' = Second(from, length)
  <2>1. \A t \in Server \ {s} : t \in Second(from, length)' <=> t \in Second(from, length)
    BY <1>3 DEF Second, Fits, SlotAt, SlotOf
  <2>2. ~Fits(s) /\ ~Fits(s)'
    BY <1>3 DEF Fits, Asks
  <2>3. QED
    BY <2>1, <2>2 DEF Second
<1>8. \A from, length : Within(from, length)' = Within(from, length)
  BY DEF Asks, Within
<1>9. \A slot : HitsIn(slot)' = HitsIn(slot)
  BY DEF Asks, HitsIn, SlotOf
<1>10. ASSUME NEW t \in sharing, ClocksAgree PROVE SlotOf(Clock(t)) = here
  BY <1>10, SameSlot DEF Asks
<1>11. QED
  BY <1>1, <1>4, <1>5, <1>6, <1>7, <1>8, <1>9, <1>10

LEMMA AsksKeeps ==
  ASSUME RateIInv, SharedIInv, sharing # {}, NEW s \in Server, Asks(s)
  PROVE  SharedIInv'
<1> DEFINE here == SlotOf(Clock(s))
<1>0. /\ RateTypes /\ RowLimit /\ Dated /\ Recorded /\ SlotKept /\ Bursts
      /\ s \in sharing /\ UNCHANGED <<sharing, time, allowed>>
  BY LimitsFollow DEF RateIInv, SharedIInv, Asks
<1>1. /\ here \in Nat
      /\ \A slot \in Nat : Forgot(slot)' <=> Forgot(slot) \/ here > slot + 1
      /\ \A slot \in Nat : UpTo(slot)' = IF here <= slot THEN UpTo(slot) \cup {s} ELSE UpTo(slot)
      /\ \A slot : s \notin UpTo(slot)
      /\ \A from, length : Second(from, length)' = Second(from, length) /\ Within(from, length)' = Within(from, length)
      /\ \A slot : HitsIn(slot)' = HitsIn(slot)
      /\ \A t \in sharing : ClocksAgree => SlotOf(Clock(t)) = here
  BY <1>0, AsksFacts
<1>2. Slots' = Slots /\ Others' = Others /\ ClocksAgree' = ClocksAgree /\ Others \in Nat /\ Limit \in Nat /\ Slots \subseteq Nat
  BY <1>0, OthersBound, RateBounds DEF Slots, Others, ClocksAgree
<1>3. Dated'
  <2>1. \A t \in Server : Clock(t)' = Clock(t) /\ SlotOf(Clock(t))' = SlotOf(Clock(t))
    BY <1>0 DEF Clock, SlotOf
  <2>2. \A t \in Server : swept'[t] = IF t = s THEN here ELSE swept[t]
    BY <1>0 DEF Asks, RateTypes
  <2>3. \A t \in Server : swept'[t] <= SlotOf(Clock(t)) /\ (t \notin sharing => swept'[t] = 0)
    BY <1>0, <1>1, <2>2 DEF Dated
  <2>4. \A hit \in allowed : hit.by \in Server
    BY <1>0, HitTypes
  <2>5. QED
    BY <1>0, <2>1, <2>3, <2>4 DEF Dated
<1>4. Recorded'
  <2>1. ASSUME NEW slot \in Slots, ~Forgot(slot)' PROVE Cardinality(HitsIn(slot)') <= rows'[slot]
    <3>1. slot \in Nat /\ ~Forgot(slot) /\ ~(here > slot + 1)
      BY <1>1, <1>2, <2>1
    <3>2. rows'[slot] = rows[slot]
      <4>1. ~(slot < here - 1)
        BY <1>1, <3>1
      <4>2. QED
        BY <4>1 DEF Asks
    <3>3. QED
      BY <1>0, <1>1, <3>1, <3>2 DEF Recorded
  <2>2. QED
    BY <1>2, <2>1 DEF Recorded
<1>5. SlotKept'
  <2>1. ASSUME MaxAhead <= Seconds, NEW slot \in Slots, Forgot(slot)'
        PROVE  Cardinality(HitsIn(slot)) + Cardinality(UpTo(slot)') <= Limit + 2 * Others
    <3>0. slot \in Nat
      BY <1>2
    <3>1. CASE Forgot(slot)
      <4>1. PICK f \in Server : swept[f] > slot + 1
        BY <3>1 DEF Forgot
      <4>2. /\ Clock(f) \in Nat /\ Clock(s) \in Nat /\ Clock(f) <= Clock(s) + Seconds
            /\ swept[f] \in Nat /\ swept[f] <= SlotOf(Clock(f)) /\ SlotOf(Clock(f)) \in Nat
        <5>1. /\ Clock(f) \in Nat /\ Clock(f) - time = Ahead[f] /\ Clock(s) \in Nat /\ Clock(s) - time = Ahead[s]
          BY <1>0, ClockFacts
        <5>2. time \in Nat /\ Ahead[f] \in 0..MaxAhead /\ Ahead[s] \in 0..MaxAhead /\ MaxAhead \in Nat /\ Seconds \in Nat
          BY <1>0, RateBounds DEF RateTypes
        <5>3. swept[f] \in Nat /\ swept[f] <= SlotOf(Clock(f)) /\ SlotOf(Clock(f)) \in Nat
          BY <1>0, SlotAtType DEF Dated
        <5>4. QED
          BY <2>1, <5>1, <5>2, <5>3
      <4>3. SlotOf(Clock(f)) <= here + 1
        BY <4>2, SlotSteps
      <4>4. here > slot
        BY <1>1, <3>0, <4>1, <4>2, <4>3
      <4>5. UpTo(slot)' = UpTo(slot)
        BY <1>1, <3>0, <4>4
      <4>6. QED
        BY <1>0, <2>1, <3>1, <4>5 DEF SlotKept
    <3>2. CASE ~Forgot(slot)
      <4>1. here > slot + 1
        BY <1>1, <2>1, <3>0, <3>2
      <4>2. UpTo(slot)' \in SUBSET (sharing \ {s})
        BY <1>0, <1>1, <3>0, <4>1, AtWorkShared
      <4>3. Cardinality(UpTo(slot)') \in Nat /\ Cardinality(UpTo(slot)') <= Others
        BY <1>0, <4>2, OthersBound
      <4>4. Cardinality(HitsIn(slot)) \in Nat /\ Cardinality(HitsIn(slot)) <= rows[slot]
        BY <1>0, <3>2, HitsFinite DEF Recorded
      <4>5. rows[slot] <= Limit + Others /\ rows[slot] \in Nat
        BY <1>0 DEF RowLimit, RateTypes
      <4>6. QED
        BY <1>2, <4>3, <4>4, <4>5
    <3>3. QED
      BY <3>1, <3>2
  <2>2. QED
    BY <1>1, <1>2, <2>1 DEF SlotKept
<1>6. Bursts'
  <2>1. ASSUME ClocksAgree, NEW from \in 0..MaxTime, NEW length \in 0..(Seconds - 1) PROVE Burst(from, length)'
    <3> DEFINE p == SlotOf(from)
               w == Cardinality(Within(from, from + length))
    <3>0. /\ p \in Nat /\ p \in Slots /\ SlotOf(from)' = p /\ Within(from, from + length)' = Within(from, from + length)
          /\ Burst(from, length) /\ Reach(length)' = Reach(length)
      BY <1>0, <1>1, <1>2, <2>1, EarlySlots DEF Bursts, SlotOf, Reach
    <3>1. Begun(from, length)' = Begun(from, length)
      BY <1>1, <3>0 DEF Begun, SlotOf
    <3>2. CASE ~Forgot(p)'
      <4>1. ~Forgot(p)
        BY <1>1, <3>0, <3>2
      <4>2. ASSUME Begun(from, length) PROVE here > p
        <5>1. ASSUME NEW t \in Second(from, length) PROVE here > p
          <6>1. t \in sharing /\ t \in Server /\ count[t].step # "rest" /\ SlotAt(t) = p + 1
            BY <1>0, AtWorkShared DEF Second, Fits
          <6>2. SlotAt(t) \in Nat /\ SlotAt(t) <= SlotOf(Clock(t)) /\ SlotOf(Clock(t)) = here
            BY <1>0, <1>1, <2>1, <6>1, SlotAtType
          <6>3. QED
            BY <1>1, <3>0, <6>1, <6>2
        <5>2. ASSUME NEW hit \in Within(from, from + length), SlotOf(hit.at) = p + 1 PROVE here > p
          <6>1. hit \in allowed /\ hit.by \in sharing /\ hit.by \in Server /\ hit.at \in Nat /\ hit.at <= Clock(hit.by)
            BY <1>0, HitTypes DEF Dated, Within
          <6>2. SlotOf(hit.at) <= SlotOf(Clock(hit.by)) /\ SlotOf(Clock(hit.by)) = here
            BY <1>0, <1>1, <2>1, <6>1, ClockFacts, SlotSteps
          <6>3. QED
            BY <1>1, <3>0, <5>2, <6>2
        <5>3. QED
          BY <4>2, <5>1, <5>2 DEF Begun
      <4>3. ASSUME Begun(from, length) PROVE Coming(from, length)' = Coming(from, length)
        <5>1. UpTo(p)' = UpTo(p)
          BY <1>1, <3>0, <4>2, <4>3
        <5>2. QED
          BY <1>1, <3>0, <3>2, <4>1, <5>1 DEF Coming
      <4>4. ASSUME Begun(from, length) PROVE Taken(from, length)' = Taken(from, length)
        BY <3>0, <4>3, <4>4 DEF Taken
      <4>5. QED
        BY <3>0, <3>1, <3>2, <4>1, <4>4 DEF Burst
    <3>3. CASE Forgot(p)
      <4>1. PICK f \in Server : swept[f] > p + 1
        BY <3>3 DEF Forgot
      <4>2. swept[f] \in Nat /\ swept[f] <= here
        <5>1. swept[f] \in Nat /\ swept[f] <= SlotOf(Clock(f))
          BY <1>0, SlotAtType DEF Dated
        <5>2. f \in sharing
          BY <1>0, <3>0, <4>1 DEF Dated
        <5>3. QED
          BY <1>1, <2>1, <5>1, <5>2
      <4>3. here > p + 1
        BY <1>1, <3>0, <4>1, <4>2
      <4>4. UpTo(p + 1)' = UpTo(p + 1) /\ Forgot(p)'
        BY <1>1, <3>0, <3>3, <4>3
      <4>5. Coming(from, length)' = Coming(from, length)
        BY <3>0, <3>3, <4>4 DEF Coming
      <4>6. QED
        BY <1>2, <3>0, <3>3, <4>4, <4>5 DEF Burst, Taken
    <3>4. CASE ~Forgot(p) /\ Forgot(p)'
      <4>1. here > p + 1
        BY <1>1, <3>0, <3>4
      <4>2. Coming(from, length)' = UpTo(p + 1)' /\ UpTo(p + 1)' = UpTo(p + 1) /\ UpTo(p + 1) \in SUBSET (sharing \ {s})
        <5>1. Coming(from, length)' = UpTo(p + 1)'
          BY <3>0, <3>4 DEF Coming
        <5>2. QED
          BY <1>0, <1>1, <3>0, <4>1, <5>1, AtWorkShared
      <4> DEFINE n == Cardinality(UpTo(p + 1))
      <4>3. w \in Nat /\ n \in Nat /\ n <= Others
        BY <1>0, <4>2, HitsFinite, OthersBound
      <4>4. Seconds * w < Reach(length) /\ Seconds * w \in Nat
        <5>1. CASE Begun(from, length)
          <6>1. Taken(from, length) < Reach(length)
            BY <3>0, <3>4, <5>1 DEF Burst
          <6>2. Cardinality(Coming(from, length)) \in Nat
            BY <1>0, AtWorkShared, OthersBound
          <6>3. w <= w + Cardinality(Coming(from, length)) /\ w + Cardinality(Coming(from, length)) \in Nat
            BY <4>3, <6>2
          <6>4. Seconds * w <= Taken(from, length) /\ Seconds * w \in Nat /\ Taken(from, length) \in Nat
            BY <4>3, <6>3, TimesMore DEF Taken
          <6>5. Reach(length) \in Nat
            BY <1>0, ReachType
          <6>6. QED
            BY <6>1, <6>4, <6>5
        <5>2. CASE ~Begun(from, length)
          <6>1. w <= Limit + Others
            BY <1>0, <3>4, <5>2, FirstSlot
          <6>2. Seconds * w <= Seconds * (Limit + Others) /\ Seconds * w \in Nat /\ Seconds * (Limit + Others) \in Nat
            BY <1>2, <4>3, <6>1, TimesMore
          <6>3. Seconds * (Limit + Others) < Reach(length) /\ Reach(length) \in Nat
            BY <1>0, ReachType
          <6>4. QED
            BY <6>2, <6>3
        <5>3. QED
          BY <5>1, <5>2
      <4>5. Seconds * n <= Seconds * Others /\ Seconds * n \in Nat /\ Seconds * Others \in Nat
        BY <1>2, <4>3, TimesMore
      <4>6. Seconds * (w + n) = Seconds * w + Seconds * n /\ Reach(length) \in Nat
        BY <1>0, <4>3, RateBounds, ReachType
      <4>7. Seconds * (w + n) < Reach(length) + Seconds * Others
        BY <4>4, <4>5, <4>6
      <4>8. Taken(from, length)' = Seconds * (w + n)
        BY <3>0, <4>2 DEF Taken
      <4>9. QED
        BY <1>2, <3>0, <3>4, <4>7, <4>8 DEF Burst
    <3>5. QED
      BY <3>2, <3>3, <3>4
  <2>2. QED
    BY <1>2, <2>1 DEF Bursts
<1>7. QED
  BY <1>3, <1>4, <1>5, <1>6 DEF SharedIInv
-----------------------------------------------------------------------------
(* A server reads the rows: of a burst that comes to its second slot here, both rows are weighed.          *)
LEMMA WeighedBurst ==
  ASSUME RateTypes, Recorded, RowLimit, sharing # {}, NEW from \in 0..MaxTime, NEW length \in 0..(Seconds - 1),
         NEW at \in from..(from + length), Seconds <= at, at <= MaxTime + MaxAhead, SlotOf(at) = SlotOf(from) + 1,
         ~Forgot(SlotOf(from)), ~Full(at), NEW n \in Nat, n <= Others + 1
  PROVE  Seconds * (Cardinality(Within(from, from + length)) + n) < Reach(length)
<1> DEFINE p == SlotOf(from)
           w == Cardinality(Within(from, from + length))
           a == rows[p]
           b == rows[p + 1]
           offset == at - (p + 1) * Seconds
<1>1. from \in Nat /\ p \in Slots /\ p \in Nat /\ at \in Nat /\ length \in Nat /\ length < Seconds
  BY EarlySlots, RateBounds
<1>2. p + 1 \in Slots /\ offset \in 0..length
  BY <1>1, SlotFacts, BurstSlots
<1>3. a \in Nat /\ b \in Nat /\ a <= Limit + Others
  BY <1>1, <1>2 DEF RateTypes, RowLimit
<1>4. w <= a + b /\ w \in Nat
  <2> DEFINE H == HitsIn(p)
             K == HitsIn(p + 1)
  <2>1. Within(from, from + length) \in SUBSET (H \cup K)
    <3>1. ASSUME NEW hit \in Within(from, from + length) PROVE hit \in H \cup K
      <4>1. hit \in allowed /\ hit.at \in from..(from + length)
        BY DEF Within
      <4>2. SlotOf(hit.at) = p \/ SlotOf(hit.at) = p + 1
        BY <1>1, <4>1, BurstSlots
      <4>3. QED
        BY <4>1, <4>2 DEF HitsIn
    <3>2. QED
      BY <3>1
  <2>2. ~Forgot(p + 1)
    <3>1. \A s \in Server : swept[s] \in Nat /\ ~(swept[s] > p + 1)
      BY DEF Forgot, RateTypes
    <3>2. QED
      BY <1>1, <3>1 DEF Forgot
  <2>3. Cardinality(H) <= a /\ Cardinality(K) <= b
    BY <1>1, <1>2, <2>2 DEF Recorded
  <2>4. IsFiniteSet(H) /\ IsFiniteSet(K) /\ Cardinality(H) \in Nat /\ Cardinality(K) \in Nat /\ w \in Nat
    BY HitsFinite
  <2> HIDE DEF H, K
  <2>5. IsFiniteSet(H \cup K) /\ Cardinality(H \cup K) = Cardinality(H) + Cardinality(K) - Cardinality(H \cap K)
    BY <2>4, FS_Union
  <2>6. Cardinality(H \cap K) \in Nat /\ Cardinality(H \cup K) \in Nat
    <3>1. H \cap K \in SUBSET H
      OBVIOUS
    <3>2. QED
      BY <2>4, <2>5, <3>1, FS_Subset, FS_CardinalityType
  <2>7. w <= Cardinality(H \cup K)
    BY <2>1, <2>5, FS_Subset
  <2>8. QED
    BY <1>3, <2>3, <2>4, <2>5, <2>6, <2>7
<1>5. ~(a * (Seconds - offset) + b * Seconds >= Limit * Seconds)
  <2>1. SlotOf(at) = p + 1 /\ SlotOf(at) - 1 = p
    BY <1>1
  <2>2. QED
    BY <2>1 DEF Full
<1>6. Seconds \in Nat /\ Limit \in Nat /\ Others \in Nat
  BY RateBounds, OthersBound
<1> HIDE DEF a, b, offset, w, p
<1>7. offset \in Nat /\ offset <= length
  BY <1>1, <1>2
<1>8. a * (Seconds - offset) + b * Seconds < Limit * Seconds
  <2>1. a * (Seconds - offset) \in Int /\ b * Seconds \in Int /\ Limit * Seconds \in Int
    BY <1>3, <1>6, <1>7
  <2>2. QED
    BY <1>5, <2>1
<1>9. Seconds * (a + b) < Seconds * Limit + (Limit + Others) * length
  BY <1>1, <1>3, <1>6, <1>7, <1>8, Weighed
<1>10. Seconds * (w + n) <= Seconds * (a + b + (Others + 1)) /\ Seconds * (w + n) \in Nat
  <2>1. w + n \in Nat /\ a + b + (Others + 1) \in Nat /\ w + n <= a + b + (Others + 1)
    BY <1>3, <1>4, <1>6
  <2>2. QED
    BY <2>1, TimesMore
<1>11. Seconds * (a + b + (Others + 1)) = Seconds * (a + b) + Seconds * Others + Seconds
  BY <1>3, <1>6
<1>12. /\ Seconds * (a + b) \in Nat /\ Seconds * Others \in Nat /\ Seconds * Limit \in Nat
       /\ (Limit + Others) * length \in Nat
  BY <1>1, <1>3, <1>6
<1>13. Seconds * (w + n) < Reach(length)
  BY <1>6, <1>9, <1>10, <1>11, <1>12 DEF Reach
<1>14. QED
  BY <1>13 DEF w

LEMMA ReadsKeeps ==
  ASSUME RateIInv, SharedIInv, sharing # {}, NEW s \in Server, Select(s)
  PROVE  SharedIInv'
<1> DEFINE at == count[s].at
<1>0. /\ RateTypes /\ RowLimit /\ Dated /\ Recorded /\ SlotKept /\ Bursts
      /\ count[s].step = "select" /\ UNCHANGED <<sharing, time, rows, swept, allowed>>
  BY LimitsFollow DEF RateIInv, SharedIInv, Select
<1>1. /\ count'[s].step = "answer" /\ count'[s].at = at /\ count'[s].seen = Full(at)
      /\ \A t \in Server \ {s} : count'[t] = count[t]
  BY <1>0 DEF Select, RateTypes
<1>2. s \in sharing /\ at \in Nat /\ Seconds <= at /\ at <= MaxTime + MaxAhead
  BY <1>0, ClockFacts, RateBounds DEF RateTypes, AtWork, Counting
<1>3. /\ Slots' = Slots /\ Others' = Others /\ ClocksAgree' = ClocksAgree
      /\ \A slot : Forgot(slot)' = Forgot(slot) /\ HitsIn(slot)' = HitsIn(slot)
  BY <1>0 DEF Slots, Others, ClocksAgree, Forgot, HitsIn, SlotOf
<1>4. ASSUME NEW slot PROVE UpTo(slot)' = UpTo(slot)
  <2>1. SlotAt(s)' = SlotAt(s) /\ \A t \in Server \ {s} : SlotAt(t)' = SlotAt(t)
    BY <1>1 DEF SlotAt, SlotOf
  <2>2. QED
    BY <1>0, <1>1, <2>1 DEF UpTo
<1>5. Dated'
  BY <1>0 DEF Dated, Clock, SlotOf
<1>6. Recorded' /\ SlotKept'
  BY <1>0, <1>3, <1>4 DEF Recorded, SlotKept
<1>7. Bursts'
  <2>1. ASSUME ClocksAgree, NEW from \in 0..MaxTime, NEW length \in 0..(Seconds - 1) PROVE Burst(from, length)'
    <3> DEFINE p == SlotOf(from)
               W == Within(from, from + length)
    <3>0. /\ p' = p /\ W' = W /\ Burst(from, length) /\ Reach(length)' = Reach(length)
      BY <1>0, <1>3, <2>1 DEF Bursts, SlotOf, Reach, Within
    <3>1. CASE ~Forgot(p) /\ ~Full(at) /\ at \in from..(from + length) /\ SlotOf(at) = p + 1
      <4>1. Coming(from, length)' \in SUBSET sharing
        <5>1. \A t \in Server : count'[t].step # "rest" => t \in sharing
          BY <1>0, <1>1, <1>2 DEF RateTypes, AtWork
        <5>2. QED
          BY <5>1 DEF Coming, UpTo, Second, Fits
      <4>2. Cardinality(Coming(from, length)') \in Nat /\ Cardinality(Coming(from, length)') <= Others + 1
        BY <1>0, <4>1, OthersBound
      <4>3. Seconds * (Cardinality(W) + Cardinality(Coming(from, length)')) < Reach(length)
        BY <1>0, <1>2, <3>1, <4>2, WeighedBurst
      <4>4. QED
        BY <1>3, <3>0, <3>1, <4>3 DEF Burst, Taken
    <3>2. CASE ~(~Full(at) /\ at \in from..(from + length) /\ SlotOf(at) = p + 1)
      <4>1. Second(from, length)' = Second(from, length)
        <5>1. \A t \in Server \ {s} : t \in Second(from, length)' <=> t \in Second(from, length)
          BY <1>1 DEF Second, Fits, SlotAt, SlotOf
        <5>2. s \notin Second(from, length) /\ s \notin Second(from, length)'
          BY <1>0, <1>1, <3>2 DEF Second, Fits, SlotAt, SlotOf
        <5>3. QED
          BY <5>1, <5>2 DEF Second
      <4>2. Begun(from, length)' = Begun(from, length)
        BY <3>0, <4>1 DEF Begun, SlotOf
      <4>3. Coming(from, length)' = Coming(from, length)
        BY <1>3, <1>4, <3>0, <4>1 DEF Coming
      <4>4. QED
        BY <1>3, <3>0, <4>2, <4>3 DEF Burst, Taken
    <3>3. CASE Forgot(p)
      <4>1. Coming(from, length)' = Coming(from, length)
        BY <1>3, <1>4, <3>0, <3>3 DEF Coming
      <4>2. QED
        BY <1>3, <3>0, <3>3, <4>1 DEF Burst, Taken
    <3>4. QED
      BY <3>1, <3>2, <3>3
  <2>2. QED
    BY <1>3, <2>1 DEF Bursts
<1>8. QED
  BY <1>5, <1>6, <1>7 DEF SharedIInv
-----------------------------------------------------------------------------
(* A server answers: what it lets through was among what was coming.                                       *)
LEMMA RestsFacts ==
  ASSUME RateTypes, NEW s \in Server, Answer(s)
  PROVE  /\ s \in sharing /\ count[s].step = "answer" /\ count[s].at \in Nat /\ Seconds <= count[s].at
         /\ count[s].at <= Clock(s) /\ count[s].at <= MaxTime + MaxAhead
         /\ UNCHANGED <<sharing, time, swept>>
         /\ Slots' = Slots /\ Others' = Others /\ ClocksAgree' = ClocksAgree
         /\ \A slot : Forgot(slot)' = Forgot(slot) /\ UpTo(slot)' = UpTo(slot) \ {s}
         /\ \A from, length : Second(from, length)' = Second(from, length) \ {s}
                           /\ Coming(from, length)' = Coming(from, length) \ {s} /\ Reach(length)' = Reach(length)
<1>1. /\ count[s].step = "answer" /\ UNCHANGED <<sharing, time, swept>>
      /\ count'[s].step = "rest" /\ \A t \in Server \ {s} : count'[t] = count[t]
  BY DEF Answer, RateTypes, Resting
<1>2. s \in sharing /\ count[s].at \in Nat /\ Seconds <= count[s].at /\ count[s].at <= Clock(s) /\ Clock(s) <= MaxTime + MaxAhead
      /\ Clock(s) \in Nat
  BY <1>1, ClockFacts, RateBounds DEF RateTypes, AtWork, Counting
<1>3. Slots' = Slots /\ Others' = Others /\ ClocksAgree' = ClocksAgree /\ \A slot : Forgot(slot)' = Forgot(slot)
  BY <1>1 DEF Slots, Others, ClocksAgree, Forgot
<1>4. ASSUME NEW slot PROVE UpTo(slot)' = UpTo(slot) \ {s}
  BY <1>1 DEF UpTo, SlotAt, SlotOf
<1>5. ASSUME NEW from, NEW length PROVE Second(from, length)' = Second(from, length) \ {s}
  BY <1>1 DEF Second, Fits, SlotAt, SlotOf
<1>6. ASSUME NEW from, NEW length PROVE Coming(from, length)' = Coming(from, length) \ {s}
  <2>1. SlotOf(from)' = SlotOf(from)
    BY DEF SlotOf
  <2>2. QED
    BY <1>3, <1>4, <1>5, <2>1 DEF Coming
<1>7. \A length : Reach(length)' = Reach(length)
  BY <1>3 DEF Reach
<1>8. count[s].at <= MaxTime + MaxAhead
  BY <1>2, RateBounds
<1>9. QED
  BY <1>1, <1>2, <1>3, <1>4, <1>5, <1>6, <1>7, <1>8

(* Fewer are coming when one of them rests, and one less when it was coming.                               *)
LEMMA OneLess ==
  ASSUME NEW S, IsFiniteSet(S), NEW s
  PROVE  /\ Cardinality(S) \in Nat /\ Cardinality(S \ {s}) \in Nat /\ Cardinality(S \ {s}) <= Cardinality(S)
         /\ s \in S => Cardinality(S \ {s}) = Cardinality(S) - 1
<1>1. Cardinality(S) \in Nat /\ IsFiniteSet(S \ {s})
  BY FS_CardinalityType, FS_RemoveElement
<1>2. Cardinality(S \ {s}) = IF s \in S THEN Cardinality(S) - 1 ELSE Cardinality(S)
  BY FS_RemoveElement
<1>3. Cardinality(S \ {s}) \in Nat
  BY <1>1, FS_CardinalityType
<1>4. QED
  BY <1>1, <1>2, <1>3

LEMMA RefusedKeepsHits ==
  ASSUME RateIInv, SharedIInv, sharing # {}, NEW s \in Server, Answer(s), UNCHANGED <<rows, allowed>>
  PROVE  SharedIInv'
<1>0. /\ RateTypes /\ Dated /\ Recorded /\ SlotKept /\ Bursts
  BY DEF RateIInv, SharedIInv
<1>1. /\ UNCHANGED <<sharing, time, swept>>
      /\ Slots' = Slots /\ Others' = Others /\ ClocksAgree' = ClocksAgree
      /\ \A slot : Forgot(slot)' = Forgot(slot) /\ UpTo(slot)' = UpTo(slot) \ {s}
      /\ \A from, length : Second(from, length)' = Second(from, length) \ {s}
                           /\ Coming(from, length)' = Coming(from, length) \ {s} /\ Reach(length)' = Reach(length)
  BY <1>0, RestsFacts
<1>2. \A slot : HitsIn(slot)' = HitsIn(slot)
  BY DEF HitsIn, SlotOf
<1>3. Dated' /\ Recorded'
  BY <1>0, <1>1, <1>2 DEF Dated, Recorded, Clock, SlotOf
<1>4. SlotKept'
  <2>1. ASSUME MaxAhead <= Seconds, NEW slot \in Slots, Forgot(slot)
        PROVE  Cardinality(HitsIn(slot)) + Cardinality(UpTo(slot) \ {s}) <= Limit + 2 * Others
    <3>1. /\ Cardinality(UpTo(slot)) \in Nat /\ Cardinality(UpTo(slot) \ {s}) \in Nat
          /\ Cardinality(UpTo(slot) \ {s}) <= Cardinality(UpTo(slot))
      BY <1>0, AtWorkShared, OthersBound, OneLess
    <3>2. Cardinality(HitsIn(slot)) + Cardinality(UpTo(slot)) <= Limit + 2 * Others
      BY <1>0, <2>1 DEF SlotKept
    <3>3. Cardinality(HitsIn(slot)) \in Nat /\ Limit + 2 * Others \in Nat
      BY <1>0, HitsFinite, OthersBound, RateBounds
    <3>4. QED
      BY <3>1, <3>2, <3>3
  <2>2. QED
    BY <1>1, <1>2, <2>1 DEF SlotKept
<1>5. Bursts'
  <2>1. ASSUME ClocksAgree, NEW from \in 0..MaxTime, NEW length \in 0..(Seconds - 1) PROVE Burst(from, length)'
    <3> DEFINE w == Cardinality(Within(from, from + length))
               n == Cardinality(Coming(from, length))
               m == Cardinality(Coming(from, length) \ {s})
    <3>1. /\ SlotOf(from)' = SlotOf(from) /\ Within(from, from + length)' = Within(from, from + length)
          /\ Burst(from, length)
      BY <1>0, <2>1 DEF Bursts, SlotOf, Within
    <3>2. Begun(from, length)' => Begun(from, length)
      BY <1>1, <3>1 DEF Begun, SlotOf
    <3>3. w \in Nat /\ n \in Nat /\ m \in Nat /\ m <= n
      BY <1>0, HitsFinite, AtWorkShared, OthersBound, OneLess
    <3>4. Taken(from, length)' = Seconds * (w + m) /\ Taken(from, length) = Seconds * (w + n)
      BY <1>1, <3>1 DEF Taken
    <3>5. Taken(from, length)' <= Taken(from, length) /\ Taken(from, length)' \in Nat /\ Taken(from, length) \in Nat
      <4>1. w + m \in Nat /\ w + n \in Nat /\ w + m <= w + n
        BY <3>3
      <4>2. QED
        BY <3>4, <4>1, TimesMore
    <3>6. Reach(length) \in Nat /\ Seconds * Others \in Nat
      BY <1>0, ReachType
    <3>7. Forgot(SlotOf(from))' = Forgot(SlotOf(from)) /\ Reach(length)' = Reach(length) /\ Others' = Others
      BY <1>1, <3>1
    <3>8. CASE Forgot(SlotOf(from))
      <4>1. Taken(from, length)' < Reach(length) + Seconds * Others
        BY <3>1, <3>5, <3>6, <3>8 DEF Burst
      <4>2. QED
        BY <3>1, <3>7, <3>8, <4>1 DEF Burst
    <3>9. CASE ~Forgot(SlotOf(from))
      <4>1. Begun(from, length) => Taken(from, length)' < Reach(length)
        BY <3>1, <3>5, <3>6, <3>9 DEF Burst
      <4>2. QED
        BY <3>1, <3>2, <3>7, <3>9, <4>1 DEF Burst
    <3>10. QED
      BY <3>8, <3>9
  <2>2. QED
    BY <1>1, <2>1 DEF Bursts
<1>6. QED
  BY <1>3, <1>4, <1>5 DEF SharedIInv

(* A hit that is let through is a new one; of each slot and each burst there is one more where it is in it, *)
(* and one less to come.                                                                                   *)
LEMMA LetThroughKeeps ==
  ASSUME RateIInv, SharedIInv, sharing # {}, NEW s \in Server, Answer(s), ~count[s].seen,
         rows' = [rows EXCEPT ![SlotAt(s)] = @ + 1],
         allowed' = allowed \cup {[id |-> Cardinality(allowed) + 1, at |-> count[s].at, by |-> s]}
  PROVE  SharedIInv'
<1> DEFINE at == count[s].at
           hit == [id |-> Cardinality(allowed) + 1, at |-> at, by |-> s]
<1>0. /\ RateTypes /\ Dated /\ Recorded /\ SlotKept /\ Bursts
  BY DEF RateIInv, SharedIInv
<1>1. /\ s \in sharing /\ count[s].step = "answer" /\ at \in Nat /\ Seconds <= at
      /\ at <= Clock(s) /\ at <= MaxTime + MaxAhead
      /\ UNCHANGED <<sharing, time, swept>>
      /\ Slots' = Slots /\ Others' = Others /\ ClocksAgree' = ClocksAgree
      /\ \A slot : Forgot(slot)' = Forgot(slot) /\ UpTo(slot)' = UpTo(slot) \ {s}
      /\ \A from, length : Second(from, length)' = Second(from, length) \ {s}
                           /\ Coming(from, length)' = Coming(from, length) \ {s} /\ Reach(length)' = Reach(length)
  BY <1>0, RestsFacts
<1>2. /\ Cardinality(allowed) \in Nat /\ IsFiniteSet(allowed) /\ hit \notin allowed
      /\ Cardinality(allowed') = Cardinality(allowed) + 1
  <2>1. Cardinality(allowed) \in Nat /\ IsFiniteSet(allowed)
    BY <1>0, FS_CardinalityType DEF RateTypes
  <2>2. \A old \in allowed : old.id \in Nat /\ old.id <= Cardinality(allowed)
    BY <1>0, HitTypes DEF Dated
  <2>3. hit.id = Cardinality(allowed) + 1 /\ ~(hit.id <= Cardinality(allowed))
    BY <2>1
  <2>4. hit \notin allowed
    BY <2>2, <2>3
  <2>5. QED
    BY <2>1, <2>4, FS_AddElement
<1>3. hit.at = at /\ hit.by = s /\ hit.id = Cardinality(allowed) + 1 /\ allowed' = allowed \cup {hit}
  OBVIOUS
<1> HIDE DEF hit
<1>4. Dated'
  <2>1. ASSUME NEW one \in allowed' PROVE one.id <= Cardinality(allowed') /\ one.by \in sharing /\ one.at <= Clock(one.by)
    <3>1. CASE one = hit
      BY <1>1, <1>2, <1>3, <3>1
    <3>2. CASE one \in allowed
      <4>1. one.id \in Nat /\ one.id <= Cardinality(allowed) /\ one.by \in sharing /\ one.at <= Clock(one.by)
        BY <1>0, <3>2, HitTypes DEF Dated
      <4>2. QED
        BY <1>2, <4>1
    <3>3. QED
      BY <1>3, <3>1, <3>2
  <2>2. \A t : Clock(t)' = Clock(t)
    BY <1>1 DEF Clock
  <2>3. QED
    BY <1>0, <1>1, <2>1, <2>2 DEF Dated, SlotOf
<1>5. ASSUME NEW slot
      PROVE  HitsIn(slot)' = IF SlotOf(at) = slot THEN HitsIn(slot) \cup {hit} ELSE HitsIn(slot)
  BY <1>3 DEF HitsIn, SlotOf
<1>6. ASSUME NEW slot
      PROVE  /\ Cardinality(HitsIn(slot)) \in Nat
             /\ Cardinality(HitsIn(slot)') = Cardinality(HitsIn(slot)) + (IF SlotOf(at) = slot THEN 1 ELSE 0)
  <2>1. hit \notin HitsIn(slot) /\ IsFiniteSet(HitsIn(slot)) /\ Cardinality(HitsIn(slot)) \in Nat
    BY <1>0, <1>2, HitsFinite DEF HitsIn
  <2>2. Cardinality(HitsIn(slot) \cup {hit}) = Cardinality(HitsIn(slot)) + 1
    BY <2>1, FS_AddElement
  <2>3. QED
    BY <1>5, <2>1, <2>2
<1>7. Recorded'
  <2>1. ASSUME NEW slot \in Slots, ~Forgot(slot) PROVE Cardinality(HitsIn(slot)') <= rows'[slot]
    <3>1. rows'[slot] = rows[slot] + (IF SlotOf(at) = slot THEN 1 ELSE 0) /\ rows[slot] \in Nat
      BY <1>0 DEF RateTypes, SlotAt
    <3>2. Cardinality(HitsIn(slot)) <= rows[slot]
      BY <1>0, <2>1 DEF Recorded
    <3>3. QED
      BY <1>6, <3>1, <3>2
  <2>2. QED
    BY <1>1, <2>1 DEF Recorded
<1>8. SlotKept'
  <2>1. ASSUME MaxAhead <= Seconds, NEW slot \in Slots, Forgot(slot)
        PROVE  Cardinality(HitsIn(slot)') + Cardinality(UpTo(slot) \ {s}) <= Limit + 2 * Others
    <3>1. /\ Cardinality(UpTo(slot)) \in Nat /\ Cardinality(UpTo(slot) \ {s}) \in Nat
          /\ Cardinality(UpTo(slot) \ {s}) <= Cardinality(UpTo(slot))
          /\ s \in UpTo(slot) => Cardinality(UpTo(slot) \ {s}) = Cardinality(UpTo(slot)) - 1
      BY <1>0, AtWorkShared, OthersBound, OneLess
    <3>2. Cardinality(HitsIn(slot)) + Cardinality(UpTo(slot)) <= Limit + 2 * Others
      BY <1>0, <2>1 DEF SlotKept
    <3>3. SlotOf(at) = slot => s \in UpTo(slot)
      BY <1>1, SlotBounds DEF UpTo, SlotAt
    <3>4. Cardinality(HitsIn(slot)) \in Nat /\ Limit + 2 * Others \in Nat
      BY <1>0, <1>6, OthersBound, RateBounds
    <3>5. QED
      BY <1>6, <3>1, <3>2, <3>3, <3>4
  <2>2. QED
    BY <1>1, <2>1 DEF SlotKept
<1>9. Bursts'
  <2>1. ASSUME ClocksAgree, NEW from \in 0..MaxTime, NEW length \in 0..(Seconds - 1) PROVE Burst(from, length)'
    <3> DEFINE W == Within(from, from + length)
               p == SlotOf(from)
               n == Cardinality(Coming(from, length))
               m == Cardinality(Coming(from, length) \ {s})
    <3>0. from \in Nat /\ p \in Nat /\ p' = p /\ Burst(from, length) /\ Reach(length)' = Reach(length)
          /\ Forgot(p)' = Forgot(p)
      BY <1>0, <1>1, <2>1, EarlySlots DEF Bursts, SlotOf
    <3>1. W' = IF at \in from..(from + length) THEN W \cup {hit} ELSE W
      BY <1>3 DEF Within
    <3>2. Cardinality(W) \in Nat /\ Cardinality(W') = Cardinality(W) + (IF at \in from..(from + length) THEN 1 ELSE 0)
      <4>1. hit \notin W /\ IsFiniteSet(W) /\ Cardinality(W) \in Nat
        BY <1>0, <1>2, HitsFinite DEF Within
      <4>2. Cardinality(W \cup {hit}) = Cardinality(W) + 1
        BY <4>1, FS_AddElement
      <4>3. QED
        BY <3>1, <4>1, <4>2
    <3>3. ASSUME at \in from..(from + length) PROVE s \in Coming(from, length)
      <4>1. SlotOf(at) = p \/ SlotOf(at) = p + 1
        BY <3>0, <3>3, BurstSlots
      <4>2. SlotOf(at) <= p + 1 /\ (SlotOf(at) # p + 1 => SlotOf(at) <= p)
        BY <3>0, <4>1
      <4>3. QED
        BY <1>1, <3>3, <4>2 DEF Coming, UpTo, Second, Fits, SlotAt
    <3>4. n \in Nat /\ m \in Nat /\ m <= n /\ (s \in Coming(from, length) => m = n - 1)
      BY <1>0, AtWorkShared, OthersBound, OneLess
    <3>5. Taken(from, length)' <= Taken(from, length) /\ Taken(from, length)' \in Nat /\ Taken(from, length) \in Nat
      <4>1. Cardinality(W') + m \in Nat /\ Cardinality(W) + n \in Nat /\ Cardinality(W') + m <= Cardinality(W) + n
        BY <3>2, <3>3, <3>4
      <4>2. Taken(from, length)' = Seconds * (Cardinality(W') + m) /\ Taken(from, length) = Seconds * (Cardinality(W) + n)
        BY <1>1 DEF Taken
      <4>3. QED
        BY <4>1, <4>2, TimesMore
    <3>6. Begun(from, length)' => Begun(from, length)
      <4>1. ASSUME at \in from..(from + length), SlotOf(at) = p + 1 PROVE s \in Second(from, length)
        BY <1>1, <4>1 DEF Second, Fits, SlotAt
      <4>2. ASSUME NEW one \in W', SlotOf(one.at) = p + 1 PROVE Begun(from, length)
        <5>1. CASE one \in W
          BY <4>2, <5>1 DEF Begun
        <5>2. CASE one = hit /\ at \in from..(from + length)
          BY <1>3, <4>1, <4>2, <5>2 DEF Begun
        <5>3. QED
          BY <3>1, <5>1, <5>2
      <4>3. Second(from, length)' # {} => Begun(from, length)
        BY <1>1 DEF Begun
      <4>4. Begun(from, length)' => Second(from, length)' # {} \/ \E one \in W' : SlotOf(one.at) = p + 1
        BY <3>0 DEF Begun, SlotOf
      <4>5. QED
        BY <4>2, <4>3, <4>4
    <3>7. Reach(length) \in Nat /\ Seconds * Others \in Nat
      BY <1>0, ReachType
    <3>8. CASE Forgot(p)
      <4>1. Taken(from, length)' < Reach(length) + Seconds * Others
        BY <3>0, <3>5, <3>7, <3>8 DEF Burst
      <4>2. QED
        BY <1>1, <3>0, <3>8, <4>1 DEF Burst
    <3>9. CASE ~Forgot(p)
      <4>1. Begun(from, length) => Taken(from, length)' < Reach(length)
        BY <3>0, <3>5, <3>7, <3>9 DEF Burst
      <4>2. QED
        BY <3>0, <3>6, <3>9, <4>1 DEF Burst
    <3>10. QED
      BY <3>8, <3>9
  <2>2. QED
    BY <1>1, <2>1 DEF Bursts
<1>10. QED
  BY <1>4, <1>7, <1>8, <1>9 DEF SharedIInv
-----------------------------------------------------------------------------
LEMMA SharedKept == RateIInv /\ SharedIInv /\ [RateNext]_rateVars => SharedIInv'
<1> SUFFICES ASSUME RateIInv, SharedIInv, [RateNext]_rateVars PROVE SharedIInv'
  OBVIOUS
<1>0. RateTypes /\ time \in Nat
  BY RateBounds DEF RateIInv, RateTypes
<1>1. sharing' = sharing
  BY DEF RateNext, Passes, AllowHere, Allow, Select, Answer, rateVars
<1>2. CASE sharing = {}
  BY <1>1, <1>2 DEF SharedIInv
<1>3. CASE sharing # {}
  <2>1. CASE Passes
    BY <1>0, <1>3, <2>1, SharedStays DEF Passes
  <2>2. ASSUME NEW s \in Server, AllowHere(s) PROVE SharedIInv'
    BY <1>3, <2>2 DEF AllowHere
  <2>3. ASSUME NEW s \in Server, Allow(s) PROVE SharedIInv'
    <3>1. CASE blocked[s] > Clock(s)
      BY <1>0, <1>3, <2>3, <3>1, SharedStays DEF Allow
    <3>2. CASE ~(blocked[s] > Clock(s))
      <4>1. Asks(s)
        BY <2>3, <3>2 DEF Allow, Asks
      <4>2. QED
        BY <1>3, <4>1, AsksKeeps
    <3>3. QED
      BY <3>1, <3>2
  <2>4. ASSUME NEW s \in Server, Select(s) PROVE SharedIInv'
    BY <1>3, <2>4, ReadsKeeps
  <2>5. ASSUME NEW s \in Server, Answer(s) PROVE SharedIInv'
    <3>1. CASE /\ ~count[s].seen /\ rows' = [rows EXCEPT ![SlotAt(s)] = @ + 1]
               /\ allowed' = allowed \cup {[id |-> Cardinality(allowed) + 1, at |-> count[s].at, by |-> s]}
      BY <1>3, <2>5, <3>1, LetThroughKeeps
    <3>2. CASE UNCHANGED <<rows, allowed>>
      BY <1>3, <2>5, <3>2, RefusedKeepsHits
    <3>3. QED
      BY <2>5, <3>1, <3>2 DEF Answer, SlotAt
  <2>6. CASE UNCHANGED rateVars
    BY <1>0, <1>3, <2>6, SharedStays DEF rateVars
  <2>7. QED
    BY <2>1, <2>2, <2>3, <2>4, <2>5, <2>6 DEF RateNext
<1>4. QED
  BY <1>2, <1>3

(* A server that counts by itself lets no more than the limit through in any window.  Of servers that share *)
(* the counts, no slot's row goes beyond the limit, but for one hit of each other server that had read it   *)
(* before; no slot takes more than that and one more of each, while no clock is a window behind; and where  *)
(* the clocks agree no burst across two slots takes much more than its share of the limit (Window.allow,    *)
(* RateCounter.hit).                                                                                        *)
THEOREM LimitsKept == RateSpec => []RatesInv
<1>1. RateInit => RateIInv /\ SharedIInv
  BY RateInitHolds, SharedBegins
<1>2. RateIInv /\ SharedIInv /\ [RateNext]_rateVars => (RateIInv /\ SharedIInv)'
  BY RateKept, SharedKept
<1>3. RateIInv /\ SharedIInv => RatesInv
  BY BurstsBounded
<1>4. QED
  BY <1>1, <1>2, <1>3, PTL DEF RateSpec

-----------------------------------------------------------------------------
-----------------------------------------------------------------------------
(* The theorem about Lifecycle: for any layouts, paths, notes by hand, ages and calls, what a tool writes *)
(* lints clean, and a parking run leaves no stale open task that is nobody's.                             *)

Notes == [Path -> Note \cup {NoNote}]
Tools == {"nobody", "write", "set_status", "close", "backlog_add", "open_task", "claim", "release", "log_append", "lint"}
AnyFolder == UNION {DOMAIN layout.kindOf : layout \in Layouts}
Parking == [step : {"rest", "park", "lint", "failed"}, now : Nat, folders : SUBSET AnyFolder, seen : Notes \cup {<< >>},
            left : SUBSET Path, parked : SUBSET Path]

LifecycleTypes ==
  /\ file \in Layouts /\ schema \in Layouts /\ Sufficient(schema)
  /\ notes \in Notes /\ indexed \in Notes /\ day \in Nat
  /\ park \in Parking
  /\ (park.step \in {"park", "lint"} => park.seen \in Notes /\ \A p \in park.left : park.seen[p] # NoNote)
  /\ touched \subseteq Path /\ last \in [by : Tools, path : Path]

(* What a parking run read of a note that nobody wrote since is what there is, or it was parked; and when *)
(* the run is through, what is left is nothing it parks.                                                  *)
AsSeen(p) ==
  /\ park.now = day /\ park.folders = TaskFolders(schema) /\ indexed[p] = notes[p]
  /\ p \in park.parked =>
       notes[p] # NoNote /\ notes[p].status = "backlog" /\ notes[p].claim = NoClaim /\ Problems(notes[p], p, schema) = {}
  /\ p \notin park.parked => notes[p] = park.seen[p] /\ (notes[p] # NoNote => p \in park.left)
  /\ park.step = "lint" /\ p \in park.left => ~Parks(p)
Unwritten == park.step \in {"park", "lint"} => \A p \in Path \ touched : AsSeen(p)

LifecycleIInv == LifecycleTypes /\ Unwritten /\ LintClean
-----------------------------------------------------------------------------
LEMMA Bounds ==
  /\ Preset \in Layouts /\ Sufficient(Preset) /\ \A layout \in Layouts : layout.order \in Seq(DOMAIN layout.kindOf)
  /\ LogPage \subseteq Path /\ Report \in Path /\ \A p \in Path : FolderOf[p] # NoFolder
  /\ HandWritten \subseteq Note /\ NoNote \notin Note /\ NoClaim \notin Claims
  /\ ClaimStaleDays \in Nat /\ StaleAfterDays \in Nat /\ MaxDay \in Nat /\ MaxCalls \in Nat
BY LifecycleAssumption DEF LifecycleAssumption

LEMMA Settles == LifecycleIInv => LifecycleInv
<1> SUFFICES ASSUME LifecycleIInv PROVE LifecycleInv
  OBVIOUS
<1>1. ASSUME park.step = "lint", NEW p \in StaleActive \ touched PROVE ClaimIsFresh(indexed[p])
  <2>1. p \in Path /\ indexed[p] # NoNote /\ indexed[p].parses /\ FolderOf[p] \in TaskFolders(schema)
        /\ indexed[p].status \in Open /\ Age(indexed[p]) > StaleAfterDays
    BY <1>1 DEF StaleActive, Listed
  <2>2. AsSeen(p)
    BY <1>1, <2>1 DEF LifecycleIInv, Unwritten
  <2>3. p \notin park.parked
    BY <2>1, <2>2 DEF AsSeen, Open
  <2>4. indexed[p] = park.seen[p] /\ p \in park.left /\ ~Parks(p) /\ park.now = day /\ park.folders = TaskFolders(schema)
    BY <2>1, <2>2, <2>3, <1>1 DEF AsSeen
  <2>5. QED
    BY <2>1, <2>4 DEF Parks, Age
<1>2. ASSUME park.step = "lint", NEW p \in park.parked \ touched
      PROVE  notes[p].status = "backlog" /\ notes[p].claim = NoClaim /\ Breaches(p) = {}
  <2>1. p \in Path
    BY DEF LifecycleIInv, LifecycleTypes, Parking
  <2>2. AsSeen(p)
    BY <1>2, <2>1 DEF LifecycleIInv, Unwritten
  <2>3. QED
    BY <2>2 DEF AsSeen, Breaches
<1>3. ParkSettles
  BY <1>1, <1>2 DEF ParkSettles
<1>4. QED
  BY <1>3 DEF LifecycleIInv, LifecycleInv


(* What the tools write anew is a note.                                                                   *)
LEMMA FrontmatterHeld ==
  ASSUME NEW status \in {"active", "backlog", "complete"}, NEW kind \in {"task", "log"},
         NEW tag \in {"repo", "area", "log"}, NEW lacks \in {{}, {"summary"}}, day \in Nat
  PROVE  \E n \in Note : /\ n = Frontmatter(status, kind, tag, lacks) /\ n.status = status /\ n.kind = kind /\ n.tag = tag
                         /\ n.lacks = lacks /\ n.priority = Plain /\ n.updated = day /\ n.parses /\ n.claim = NoClaim
<1>1. Frontmatter(status, kind, tag, lacks) \in Note
  BY DEF Frontmatter, Note
<1>2. QED
  BY <1>1 DEF Frontmatter

(* The first folder of a kind is of that kind.                                                            *)
LEMMA FirstIsOfKind ==
  ASSUME NEW layout \in Layouts, NEW kind, FirstOf(layout, kind) # NoFolder
  PROVE  /\ FirstOf(layout, kind) \in DOMAIN layout.kindOf
         /\ layout.kindOf[FirstOf(layout, kind)] = kind
<1> DEFINE K == OfKind(layout, kind)
<1>1. layout.order \in Seq(DOMAIN layout.kindOf)
  BY Bounds
<1>2. K \subseteq Nat /\ K # {}
  BY <1>1 DEF OfKind, FirstOf
<1> DEFINE Before == {ss \in Nat \X Nat : ss[1] < ss[2]}
<1>3. IsWellFoundedOn(Before, Nat)
  BY NatLessThanWellFounded DEF OpToRel
<1> HIDE DEF Before
<1>4. \E i \in K : \A j \in K : i <= j
  <2>1. PICK i \in K : \A j \in K : ~(<<j, i>> \in Before)
    BY <1>2, <1>3, WFMin
  <2>2. ASSUME NEW j \in K PROVE i <= j
    <3>1. i \in Nat /\ j \in Nat
      BY <1>2
    <3>2. j < i => <<j, i>> \in Before
      BY <3>1 DEF Before
    <3>3. QED
      BY <2>1, <3>1, <3>2
  <2>3. QED
    BY <2>2
<1>5. (CHOOSE i \in K : \A j \in K : i <= j) \in K
  BY <1>4
<1>6. PICK i \in K : FirstOf(layout, kind) = layout.order[i]
  BY <1>2, <1>5 DEF FirstOf
<1>7. QED
  BY <1>1, <1>6 DEF OfKind

LEMMA FoldersApart ==
  ASSUME NEW layout \in Layouts, Sufficient(layout), NEW p \in Path
  PROVE  /\ FolderOf[p] = ArchiveFolder(layout) => FolderOf[p] \notin TaskFolders(layout)
         /\ FolderOf[p] = BacklogFolder(layout) => FolderOf[p] \in TaskFolders(layout)
         /\ FolderOf[p] = FirstOf(layout, "task") => FolderOf[p] \in TaskFolders(layout)
<1>1. FolderOf[p] # NoFolder
  BY Bounds
<1>2. FolderOf[p] = ArchiveFolder(layout) => FolderOf[p] \notin TaskFolders(layout)
  <2>1. FirstOf(layout, "archive") # NoFolder => layout.kindOf[FirstOf(layout, "archive")] = "archive"
    BY FirstIsOfKind
  <2>2. QED
    BY <1>1, <2>1 DEF ArchiveFolder, TaskFolders
<1>3. FolderOf[p] = FirstOf(layout, "task") => FolderOf[p] \in TaskFolders(layout)
  <2>1. FirstOf(layout, "task") # NoFolder =>
          FirstOf(layout, "task") \in DOMAIN layout.kindOf /\ layout.kindOf[FirstOf(layout, "task")] = "task"
    BY FirstIsOfKind
  <2>2. QED
    BY <1>1, <2>1 DEF TaskFolders
<1>4. QED
  BY <1>2, <1>3 DEF BacklogFolder
-----------------------------------------------------------------------------
(* The sets that LintClean is about, told for one path.                                                   *)
LEMMA InSets ==
  ASSUME NEW p \in Path
  PROVE  /\ p \in Broken <=> indexed[p] # NoNote /\ (~indexed[p].parses \/ notes[p] = NoNote \/ ~notes[p].parses)
         /\ p \in StaleActive => /\ FolderOf[p] \in TaskFolders(schema) /\ indexed[p].status \in Open
                                 /\ day - indexed[p].updated > StaleAfterDays
         /\ p \in DoneNotClosed => /\ ArchiveFolder(schema) # NoFolder /\ FolderOf[p] \in TaskFolders(schema)
                                   /\ indexed[p].status \in Done
         /\ p \in ArchiveMismatch => FolderOf[p] = ArchiveFolder(schema) /\ indexed[p].status \notin Done
BY DEF Broken, Stored, StaleActive, DoneNotClosed, ArchiveMismatch, Listed, Age

(* A note just written, that parses, is one that lint finds nothing of but what nobody checked.           *)
LEMMA WrittenIsClean ==
  ASSUME NEW p \in Path, NEW note \in Note, NEW by \in Tools, note.parses, LifecycleTypes,
         notes'[p] = note, indexed'[p] = note, schema' = schema, day' = day, last' = [by |-> by, path |-> p],
         Problems(note, p, schema) \subseteq IF by \in {"log_append", "lint"} THEN Unchecked(by) ELSE {},
         by \in {"close", "backlog_add", "open_task"} =>
           /\ note.status \in Open => note.updated = day
           /\ note.status \in Done =>
                ArchiveFolder(schema) = NoFolder \/ FolderOf[p] = ArchiveFolder(schema)
           /\ note.status \notin Done => FolderOf[p] \in TaskFolders(schema)
  PROVE  LintClean'
<1>1. note # NoNote /\ last'.by = by /\ last'.path = p
  BY Bounds
<1>2. (p \notin Broken)'
  BY <1>1 DEF Broken, Stored
<1>3. (Breaches(p))' = Problems(note, p, schema)
  BY <1>1, <1>2 DEF Breaches, Problems
<1>4. (Unchecked(by))' = Unchecked(by)
  BY DEF Unchecked, TaskFolders, LogFolder, FirstOf, OfKind
<1>5. ASSUME by \in {"close", "backlog_add", "open_task"}
      PROVE  (p \notin StaleActive \cup DoneNotClosed \cup ArchiveMismatch)'
  <2>1. Sufficient(schema) /\ schema \in Layouts /\ day \in Nat /\ StaleAfterDays \in Nat
    BY Bounds DEF LifecycleTypes
  <2>2. /\ FolderOf[p] = ArchiveFolder(schema) => FolderOf[p] \notin TaskFolders(schema)
    BY <2>1, FoldersApart
  <2>3. (p \notin StaleActive)'
    <3>1. note.status \in Open => ~(day - note.updated > StaleAfterDays)
      BY <1>5, <2>1
    <3>2. QED
      BY <3>1 DEF StaleActive, Age
  <2>4. (p \notin DoneNotClosed)'
    BY <1>5, <2>2 DEF DoneNotClosed, TaskFolders, ArchiveFolder, FirstOf, OfKind
  <2>5. (p \notin ArchiveMismatch)'
    BY <1>5, <2>2 DEF ArchiveMismatch, TaskFolders, ArchiveFolder, FirstOf, OfKind
  <2>6. QED
    BY <2>3, <2>4, <2>5
<1>6. (last.by # "nobody" => last.path \notin Broken)'
  BY <1>1, <1>2 DEF Broken, Stored
<1>7. (last.by # "nobody" =>
         Breaches(last.path) \subseteq IF last.by \in {"log_append", "lint"} THEN Unchecked(last.by) ELSE {})'
  <2>1. (Breaches(p) \subseteq IF by \in {"log_append", "lint"} THEN Unchecked(by) ELSE {})'
    BY <1>3, <1>4
  <2>2. (\A b, q : b = by /\ q = p =>
           Breaches(q) \subseteq IF b \in {"log_append", "lint"} THEN Unchecked(b) ELSE {})'
    BY <2>1
  <2>3. QED
    BY <1>1, <2>2
<1>8. (last.by \in {"close", "backlog_add", "open_task"} =>
         last.path \notin StaleActive \cup DoneNotClosed \cup ArchiveMismatch)'
  BY <1>1, <1>5 DEF StaleActive, DoneNotClosed, ArchiveMismatch
<1>9. QED
  BY <1>6, <1>7, <1>8 DEF LintClean

LEMMA NobodyIsClean == last' = Nobody => LintClean'
BY DEF LintClean, Nobody

(* A step that leaves the run, the layout and the day alone keeps what the run saw of what it leaves.     *)
LEMMA OthersAsSeen ==
  ASSUME LifecycleTypes, Unwritten, UNCHANGED <<schema, day, park>>,
         park.step \in {"park", "lint"} => touched \subseteq touched',
         \A q \in Path \ touched' : notes'[q] = notes[q] /\ indexed'[q] = indexed[q]
  PROVE  Unwritten'
<1> SUFFICES ASSUME park'.step \in {"park", "lint"}, NEW q \in Path \ touched' PROVE AsSeen(q)'
  BY DEF Unwritten
<1>1. AsSeen(q)
  BY DEF Unwritten
<1>2. (Parks(q))' = Parks(q)
  BY DEF Parks, ClaimIsFresh
<1>3. (Problems(notes[q], q, schema))' = Problems(notes[q], q, schema)
  BY DEF Problems
<1>4. (TaskFolders(schema))' = TaskFolders(schema)
  BY DEF TaskFolders
<1>5. notes'[q] = notes[q] /\ indexed'[q] = indexed[q]
  OBVIOUS
<1>6. QED
  BY <1>1, <1>2, <1>3, <1>4, <1>5 DEF AsSeen

LEMMA SufficientStays == UNCHANGED schema /\ Sufficient(schema) => Sufficient(schema)'
BY DEF Sufficient, Sound, Needed, KindsNeeded, TaskFolders, LogFolder, FirstOf, OfKind

LEMMA TouchedKept ==
  ASSUME LifecycleTypes, NEW ps \in SUBSET Path, Touches(ps)
  PROVE  touched' \subseteq Path /\ (park.step \in {"park", "lint"} => touched \cup ps \subseteq touched')
BY DEF Touches, LifecycleTypes

(* One note put, as most tools do.                                                                        *)
LEMMA StoresHolds ==
  ASSUME LifecycleTypes, Unwritten, NEW by \in Tools, NEW p \in Path, NEW note \in Note, Stores(by, p, note)
  PROVE  /\ LifecycleTypes' /\ Unwritten'
         /\ notes'[p] = note /\ indexed'[p] = note /\ schema' = schema /\ day' = day /\ last' = [by |-> by, path |-> p]
<1>1. notes \in Notes /\ indexed \in Notes
  BY DEF LifecycleTypes
<1>2. notes' \in Notes /\ indexed' \in Notes /\ notes'[p] = note /\ indexed'[p] = note
  BY <1>1 DEF Stores, Notes
<1>3. UNCHANGED <<file, schema, day, park>> /\ last' = [by |-> by, path |-> p] /\ last' \in [by : Tools, path : Path]
  BY DEF Stores
<1>4. touched' \subseteq Path /\ (park.step \in {"park", "lint"} => touched \cup {p} \subseteq touched')
  BY TouchedKept DEF Stores
<1>5. LifecycleTypes'
  BY <1>2, <1>3, <1>4, SufficientStays DEF LifecycleTypes
<1>6. \A q \in Path \ {p} : notes'[q] = notes[q] /\ indexed'[q] = indexed[q]
  BY <1>1 DEF Stores, Notes
<1>7. Unwritten'
  <2>1. CASE park.step \in {"park", "lint"}
    BY <2>1, <1>3, <1>4, <1>6, OthersAsSeen
  <2>2. CASE park.step \notin {"park", "lint"}
    BY <2>2, <1>3 DEF Unwritten
  <2>3. QED
    BY <2>1, <2>2
<1>8. QED
  BY <1>2, <1>3, <1>5, <1>7

LEMMA StoresValidHolds ==
  ASSUME LifecycleIInv, NEW by \in Tools, NEW p \in Path, NEW note \in Note, note.parses, StoresValid(by, p, note),
         by \in {"close", "backlog_add", "open_task"} =>
           /\ note.status \notin Done /\ FolderOf[p] \in TaskFolders(schema)
           /\ note.status \in Open => note.updated = day
  PROVE  LifecycleIInv'
<1>1. LifecycleTypes /\ Unwritten /\ Stores(by, p, note) /\ Problems(note, p, schema) = {}
  BY DEF LifecycleIInv, StoresValid
<1>2. /\ LifecycleTypes' /\ Unwritten'
      /\ notes'[p] = note /\ indexed'[p] = note /\ schema' = schema /\ day' = day /\ last' = [by |-> by, path |-> p]
  BY <1>1, StoresHolds DEF Tools
<1>3. LintClean'
  BY <1>1, <1>2, WrittenIsClean
<1>4. QED
  BY <1>2, <1>3 DEF LifecycleIInv

(* The tools that put one note which they have checked.                                                   *)
LEMMA CheckedToolsHold ==
  ASSUME LifecycleIInv, NEW p \in Path,
         \/ WriteFile(p) \/ SetStatus(p) \/ BacklogAdd(p) \/ OpenTask(p) \/ Release(p)
         \/ \E m \in Machine : Claim(p, m)
  PROVE  LifecycleIInv'
<1>0. LifecycleTypes /\ notes[p] \in Note \cup {NoNote} /\ day \in Nat /\ schema \in Layouts /\ Sufficient(schema)
  BY DEF LifecycleIInv, LifecycleTypes, Notes
<1>1. ASSUME WriteFile(p) PROVE LifecycleIInv'
  <2>0. PICK kept : kept = IF notes[p] # NoNote THEN notes[p].claim ELSE NoClaim
    OBVIOUS
  <2>1. PICK fm \in HandWritten : fm.parses /\ StoresValid("write", p, [fm EXCEPT !.updated = day, !.claim = kept])
    BY <1>1, <2>0 DEF WriteFile
  <2>2. fm \in Note /\ kept \in Claims \cup {NoClaim}
    BY <1>0, <2>0, Bounds DEF Note
  <2>3. PICK note : note = [fm EXCEPT !.updated = day, !.claim = kept]
    OBVIOUS
  <2>4. note \in Note /\ note.parses
    BY <1>0, <2>1, <2>2, <2>3 DEF Note
  <2>5. QED
    BY <2>1, <2>3, <2>4, StoresValidHolds DEF Tools
<1>2. ASSUME SetStatus(p) PROVE LifecycleIInv'
  <2>1. PICK status \in {"active", "backlog"} :
          Stored(p) /\ StoresValid("set_status", p, Restated(notes[p], status, Plain))
    BY <1>2 DEF SetStatus
  <2>2. PICK note : note = Restated(notes[p], status, Plain)
    OBVIOUS
  <2>3. notes[p] \in Note /\ notes[p].parses
    BY <1>0, <2>1 DEF Stored
  <2>4. note \in Note /\ note.parses
    BY <1>0, <2>2, <2>3 DEF Restated, Note
  <2>5. QED
    BY <2>1, <2>2, <2>4, StoresValidHolds DEF Tools
<1>3. ASSUME BacklogAdd(p) PROVE LifecycleIInv'
  <2>1. PICK note \in Note :
          /\ note = Frontmatter("backlog", "task", "repo", {})
          /\ note.status = "backlog" /\ note.updated = day /\ note.parses
    BY <1>0, FrontmatterHeld
  <2>2. StoresValid("backlog_add", p, note) /\ FolderOf[p] = BacklogFolder(schema)
    BY <1>3, <2>1 DEF BacklogAdd
  <2>3. FolderOf[p] \in TaskFolders(schema)
    BY <1>0, <2>2, FoldersApart
  <2>4. QED
    BY <2>1, <2>2, <2>3, StoresValidHolds DEF Done, Tools
<1>4. ASSUME OpenTask(p) PROVE LifecycleIInv'
  <2>1. TaskTag \in {"repo", "area", "log"}
    BY DEF TaskTag
  <2>2. PICK note \in Note :
          /\ note = Frontmatter("active", "task", TaskTag, {"summary"})
          /\ note.status = "active" /\ note.updated = day /\ note.parses
    BY <1>0, <2>1, FrontmatterHeld
  <2>3. StoresValid("open_task", p, note) /\ FolderOf[p] = FirstOf(schema, "task")
    BY <1>4, <2>2 DEF OpenTask
  <2>4. FolderOf[p] \in TaskFolders(schema)
    BY <1>0, <2>3, FoldersApart
  <2>5. QED
    BY <2>2, <2>3, <2>4, StoresValidHolds DEF Done, Tools
<1>5. ASSUME Release(p) PROVE LifecycleIInv'
  <2>1. PICK note : note = [Restamped(p) EXCEPT !.claim = NoClaim]
    OBVIOUS
  <2>2. StoresValid("release", p, note) /\ Stored(p)
    BY <1>5, <2>1 DEF Release
  <2>3. notes[p] \in Note /\ notes[p].parses
    BY <1>0, <2>2 DEF Stored
  <2>4. note \in Note /\ note.parses
    BY <1>0, <2>1, <2>3 DEF Restamped, Note
  <2>5. QED
    BY <2>2, <2>4, StoresValidHolds DEF Tools
<1>6. ASSUME NEW m \in Machine, Claim(p, m) PROVE LifecycleIInv'
  <2>1. PICK since : since = IF notes[p].claim = NoClaim THEN day ELSE notes[p].claim.since
    OBVIOUS
  <2>2. PICK note : note = [Restamped(p) EXCEPT !.claim = [machine |-> m, since |-> since]]
    OBVIOUS
  <2>3. StoresValid("claim", p, note) /\ Stored(p)
    BY <1>6, <2>1, <2>2 DEF Claim
  <2>4. notes[p] \in Note /\ notes[p].parses
    BY <1>0, <2>3 DEF Stored
  <2>5. since \in Nat
    BY <1>0, <2>1, <2>4 DEF Note, Claims
  <2>6. [machine |-> m, since |-> since] \in Claims \cup {NoClaim}
    BY <2>5 DEF Claims
  <2>7. note \in Note /\ note.parses
    BY <1>0, <2>2, <2>4, <2>6 DEF Restamped, Note
  <2>8. QED
    BY <2>3, <2>7, StoresValidHolds DEF Tools
<1>7. QED
  BY <1>1, <1>2, <1>3, <1>4, <1>5, <1>6

(* close moves a note to the archive, or closes it in place where there is none.                          *)
LEMMA CloseHolds ==
  ASSUME LifecycleIInv, NEW p \in Path, Close(p)
  PROVE  LifecycleIInv'
<1>0. /\ LifecycleTypes /\ Unwritten /\ notes \in Notes /\ indexed \in Notes
      /\ notes[p] \in Note \cup {NoNote} /\ day \in Nat /\ schema \in Layouts /\ Sufficient(schema)
  BY DEF LifecycleIInv, LifecycleTypes, Notes
<1>. PICK archive : archive = ArchiveFolder(schema)
  OBVIOUS
<1>. PICK closed : closed = [Restamped(p) EXCEPT !.status = "complete", !.claim = NoClaim]
  OBVIOUS
<1>1. PICK q \in Path :
        /\ Stored(p)
        /\ IF archive \in {NoFolder, FolderOf[p]} THEN q = p ELSE FolderOf[q] = archive /\ notes[q] = NoNote
        /\ Problems(closed, q, schema) = {}
        /\ notes' = [r \in Path |-> IF r = q THEN closed ELSE IF r = p THEN NoNote ELSE notes[r]]
        /\ indexed' = [r \in Path |-> IF r = q THEN closed ELSE IF r = p THEN NoNote ELSE indexed[r]]
        /\ last' = [by |-> "close", path |-> q] /\ Touches({p, q})
        /\ UNCHANGED <<file, schema, day, park>>
  BY DEF Close
<1>2. notes[p] \in Note /\ notes[p].parses
  BY <1>0, <1>1 DEF Stored
<1>3. closed \in Note /\ closed.parses /\ closed.status = "complete"
  BY <1>0, <1>1, <1>2 DEF Restamped, Note
<1>4. notes' \in Notes /\ indexed' \in Notes /\ notes'[q] = closed /\ indexed'[q] = closed
  BY <1>0, <1>1, <1>3 DEF Notes
<1>5. touched' \subseteq Path /\ (park.step \in {"park", "lint"} => touched \cup {p, q} \subseteq touched')
  BY <1>0, <1>1, TouchedKept
<1>6. last' \in [by : Tools, path : Path]
  BY <1>1 DEF Tools
<1>7. LifecycleTypes'
  BY <1>0, <1>1, <1>4, <1>5, <1>6, SufficientStays DEF LifecycleTypes
<1>8. \A r \in Path \ {p, q} : notes'[r] = notes[r] /\ indexed'[r] = indexed[r]
  BY <1>1
<1>9. Unwritten'
  <2>1. CASE park.step \in {"park", "lint"}
    BY <2>1, <1>0, <1>1, <1>5, <1>8, OthersAsSeen
  <2>2. CASE park.step \notin {"park", "lint"}
    BY <2>2, <1>1 DEF Unwritten
  <2>3. QED
    BY <2>1, <2>2
<1>10. LintClean'
  <2>1. ArchiveFolder(schema) = NoFolder \/ FolderOf[q] = ArchiveFolder(schema)
    BY <1>1
  <2>2. closed.status \in Done /\ closed.status \notin Open
    BY <1>3 DEF Done, Open
  <2>3. QED
    BY <1>0, <1>1, <1>3, <1>4, <2>1, <2>2, WrittenIsClean DEF Tools
<1>11. QED
  BY <1>7, <1>9, <1>10 DEF LifecycleIInv

(* What log_append and lint write is checked by the check of the layout, but for what Unchecked names.     *)
LEMMA PagesAreClean ==
  ASSUME LifecycleTypes, NEW p \in Path
  PROVE  /\ FolderOf[p] = LogFolder(schema) =>
              Problems(Frontmatter("active", "log", "log", {"summary"}), p, schema) \subseteq Unchecked("log_append")
         /\ Problems(Frontmatter("complete", "log", "log", {"summary"}), p, schema) \subseteq Unchecked("lint")
<1>0. Sufficient(schema) /\ FolderOf[p] # NoFolder
  BY Bounds DEF LifecycleTypes
<1>1. /\ Done \subseteq schema.statuses /\ (TaskFolders(schema) # {} => "active" \in schema.statuses)
      /\ (LogFolder(schema) # NoFolder => "log" \in schema.kinds)
  BY <1>0 DEF Sufficient, Needed, KindsNeeded
<1>2. ASSUME NEW status \in {"active", "complete"},
             NEW problem \in Problems(Frontmatter(status, "log", "log", {"summary"}), p, schema)
      PROVE  \/ problem = "required" /\ "summary" \in schema.required
             \/ problem = "status" /\ status \notin schema.statuses
             \/ problem = "kind" /\ "log" \notin schema.kinds
             \/ problem = "tags" /\ schema.strict /\ "log" \notin schema.vocabulary
  BY <1>2 DEF Problems, Frontmatter
<1>3. "complete" \in schema.statuses
  BY <1>1 DEF Done
<1>4. ASSUME FolderOf[p] = LogFolder(schema),
             NEW problem \in Problems(Frontmatter("active", "log", "log", {"summary"}), p, schema)
      PROVE  problem \in Unchecked("log_append")
  BY <1>0, <1>1, <1>2, <1>4 DEF Unchecked
<1>5. ASSUME NEW problem \in Problems(Frontmatter("complete", "log", "log", {"summary"}), p, schema)
      PROVE  problem \in Unchecked("lint")
  BY <1>1, <1>2, <1>3, <1>5 DEF Unchecked
<1>6. QED
  BY <1>4, <1>5

LEMMA LogAppendHolds ==
  ASSUME LifecycleIInv, NEW p \in Path, LogAppend(p)
  PROVE  LifecycleIInv'
<1>0. LifecycleTypes /\ Unwritten /\ notes[p] \in Note \cup {NoNote} /\ day \in Nat
  BY DEF LifecycleIInv, LifecycleTypes, Notes
<1>1. CASE notes[p] = NoNote
  <2>1. PICK note \in Note : note = Frontmatter("active", "log", "log", {"summary"}) /\ note.parses
    BY <1>0, FrontmatterHeld
  <2>2. Stores("log_append", p, note) /\ FolderOf[p] = LogFolder(schema)
    BY <1>1, <2>1 DEF LogAppend
  <2>3. /\ LifecycleTypes' /\ Unwritten' /\ notes'[p] = note /\ indexed'[p] = note /\ schema' = schema /\ day' = day
        /\ last' = [by |-> "log_append", path |-> p]
    BY <1>0, <2>2, StoresHolds DEF Tools
  <2>4. Problems(note, p, schema) \subseteq Unchecked("log_append")
    BY <1>0, <2>1, <2>2, PagesAreClean
  <2>5. LintClean'
    BY <1>0, <2>1, <2>3, <2>4, WrittenIsClean DEF Tools
  <2>6. QED
    BY <2>3, <2>5 DEF LifecycleIInv
<1>2. CASE notes[p] # NoNote
  <2>1. PICK note : note = Restamped(p)
    OBVIOUS
  <2>2. note \in Note
    BY <1>0, <1>2, <2>1 DEF Restamped, Note
  <2>3. Stores("nobody", p, note)
    BY <1>2, <2>1 DEF LogAppend
  <2>4. LifecycleTypes' /\ Unwritten' /\ last' = [by |-> "nobody", path |-> p]
    BY <1>0, <2>2, <2>3, StoresHolds DEF Tools
  <2>5. LintClean'
    BY <2>4 DEF LintClean
  <2>6. QED
    BY <2>4, <2>5 DEF LifecycleIInv
<1>3. QED
  BY <1>1, <1>2

LEMMA NobodyHeld == Nobody \in [by : Tools, path : Path] /\ Quiet \in Parking /\ Quiet.step = "rest"
BY Bounds DEF Nobody, Quiet, Parking, Tools

LEMMA EffectiveHeld == ASSUME NEW layout \in Layouts PROVE Effective(layout) \in Layouts /\ Sufficient(Effective(layout))
BY Bounds DEF Effective

(* Other programs, the layout and the days.                                                               *)
LEMMA EditHolds ==
  ASSUME LifecycleIInv, NEW p \in Path, Edit(p)
  PROVE  LifecycleIInv'
<1>0. LifecycleTypes /\ Unwritten /\ notes \in Notes /\ indexed \in Notes /\ day \in Nat
  BY DEF LifecycleIInv, LifecycleTypes
<1>1. PICK fm \in HandWritten :
        /\ notes' = [notes EXCEPT ![p] = [fm EXCEPT !.updated = IF notes[p] = NoNote THEN day ELSE notes[p].updated]]
        /\ Touches({p}) /\ last' = Nobody
        /\ UNCHANGED <<file, schema, indexed, day, park>>
  BY DEF Edit
<1>2. PICK note \in Note : note = [fm EXCEPT !.updated = IF notes[p] = NoNote THEN day ELSE notes[p].updated]
  <2>1. [fm EXCEPT !.updated = IF notes[p] = NoNote THEN day ELSE notes[p].updated] \in Note
    <3>1. fm \in Note /\ (IF notes[p] = NoNote THEN day ELSE notes[p].updated) \in Nat
      BY <1>0, Bounds DEF Note, Notes
    <3>2. QED
      BY <3>1 DEF Note
  <2>2. QED
    BY <2>1
<1>3. notes' \in Notes /\ \A q \in Path \ {p} : notes'[q] = notes[q]
  BY <1>0, <1>1, <1>2 DEF Notes
<1>4. touched' \subseteq Path /\ (park.step \in {"park", "lint"} => touched \cup {p} \subseteq touched')
  BY <1>0, <1>1, TouchedKept
<1>5. LifecycleTypes'
  BY <1>0, <1>1, <1>3, <1>4, NobodyHeld, SufficientStays DEF LifecycleTypes
<1>6. Unwritten'
  <2>1. CASE park.step \in {"park", "lint"}
    BY <2>1, <1>0, <1>1, <1>3, <1>4, OthersAsSeen
  <2>2. CASE park.step \notin {"park", "lint"}
    BY <2>2, <1>1 DEF Unwritten
  <2>3. QED
    BY <2>1, <2>2
<1>7. QED
  BY <1>1, <1>5, <1>6, NobodyIsClean DEF LifecycleIInv

LEMMA RelayoutHolds ==
  ASSUME LifecycleIInv, Relayout
  PROVE  LifecycleIInv'
<1>0. LifecycleTypes /\ Unwritten
  BY DEF LifecycleIInv
<1>1. file' \in Layouts /\ last' = Nobody /\ UNCHANGED <<schema, notes, indexed, day, park, touched>>
  BY DEF Relayout
<1>2. LifecycleTypes'
  BY <1>0, <1>1, NobodyHeld, SufficientStays DEF LifecycleTypes
<1>3. Unwritten'
  BY <1>0, <1>1, OthersAsSeen
<1>4. QED
  BY <1>1, <1>2, <1>3, NobodyIsClean DEF LifecycleIInv

LEMMA RefreshHolds ==
  ASSUME LifecycleIInv, Refresh
  PROVE  LifecycleIInv'
<1>0. LifecycleTypes /\ Unwritten
  BY DEF LifecycleIInv
<1>1. /\ schema' = Effective(file) /\ indexed' = notes /\ last' = Nobody /\ Touches(IF schema' # schema THEN Path ELSE {})
      /\ UNCHANGED <<file, notes, day, park>>
  BY DEF Refresh
<1>2. PICK ps \in SUBSET Path : ps = (IF schema' # schema THEN Path ELSE {}) /\ Touches(ps)
  BY <1>1
<1>3. touched' \subseteq Path /\ (park.step \in {"park", "lint"} => touched \cup ps \subseteq touched')
  BY <1>0, <1>2, TouchedKept
<1>4. schema' \in Layouts /\ Sufficient(schema)'
  <2>1. Sufficient(Effective(file)) /\ Effective(file) \in Layouts
    BY <1>0, EffectiveHeld DEF LifecycleTypes
  <2>2. QED
    BY <1>1, <2>1 DEF Sufficient, Sound, Needed, KindsNeeded, TaskFolders, LogFolder, FirstOf, OfKind
<1>5. LifecycleTypes'
  BY <1>0, <1>1, <1>3, <1>4, NobodyHeld DEF LifecycleTypes
<1>6. Unwritten'
  <2>1. CASE park.step \notin {"park", "lint"}
    BY <2>1, <1>1 DEF Unwritten
  <2>2. CASE park.step \in {"park", "lint"} /\ schema' # schema
    BY <2>2, <1>2, <1>3 DEF Unwritten
  <2>3. CASE park.step \in {"park", "lint"} /\ schema' = schema
    <3>1. \A q \in Path \ touched' : notes'[q] = notes[q] /\ indexed'[q] = indexed[q]
      BY <1>0, <1>1, <1>3, <2>3 DEF Unwritten, AsSeen
    <3>2. QED
      BY <1>0, <1>1, <1>3, <2>3, <3>1, OthersAsSeen
  <2>4. QED
    BY <2>1, <2>2, <2>3
<1>7. QED
  BY <1>1, <1>5, <1>6, NobodyIsClean DEF LifecycleIInv

LEMMA DayHolds ==
  ASSUME LifecycleIInv, DayPasses
  PROVE  LifecycleIInv'
<1>0. LifecycleTypes /\ Unwritten
  BY DEF LifecycleIInv
<1>1. day' = day + 1 /\ last' = Nobody /\ Touches(Path) /\ UNCHANGED <<file, schema, notes, indexed, park>>
  BY DEF DayPasses
<1>2. touched' \subseteq Path /\ (park.step \in {"park", "lint"} => Path \subseteq touched')
  BY <1>0, <1>1, TouchedKept
<1>3. LifecycleTypes'
  BY <1>0, <1>1, <1>2, NobodyHeld, SufficientStays DEF LifecycleTypes
<1>4. Unwritten'
  BY <1>1, <1>2 DEF Unwritten
<1>5. QED
  BY <1>1, <1>3, <1>4, NobodyIsClean DEF LifecycleIInv

(* The parking run.                                                                                       *)
LEMMA ParkBeginHolds ==
  ASSUME LifecycleIInv, ParkBegin
  PROVE  LifecycleIInv'
<1>0. LifecycleTypes
  BY DEF LifecycleIInv
<1>1. /\ schema' = Effective(file) /\ indexed' = notes
      /\ park' = [step |-> "park", now |-> day, folders |-> TaskFolders(schema'), seen |-> notes,
                  left |-> {p \in Path : notes[p] # NoNote}, parked |-> {}]
      /\ touched' = {} /\ last' = Nobody /\ UNCHANGED <<file, notes, day>>
  BY DEF ParkBegin
<1>2. schema' \in Layouts /\ Sufficient(schema)'
  <2>1. Sufficient(Effective(file)) /\ Effective(file) \in Layouts
    BY <1>0, EffectiveHeld DEF LifecycleTypes
  <2>2. QED
    BY <1>1, <2>1 DEF Sufficient, Sound, Needed, KindsNeeded, TaskFolders, LogFolder, FirstOf, OfKind
<1>3. park'.folders \subseteq AnyFolder /\ park'.folders = TaskFolders(schema)'
  BY <1>1, <1>2 DEF TaskFolders, AnyFolder
<1>4. /\ park'.step = "park" /\ park'.now = day /\ park'.seen = notes /\ park'.parked = {}
      /\ park'.left = {p \in Path : notes[p] # NoNote}
  BY <1>1
<1>5. park' \in Parking
  BY <1>0, <1>1, <1>3 DEF LifecycleTypes, Parking
<1>6. LifecycleTypes'
  BY <1>0, <1>1, <1>2, <1>4, <1>5, NobodyHeld DEF LifecycleTypes
<1>7. Unwritten'
  BY <1>1, <1>3, <1>4 DEF Unwritten, AsSeen
<1>8. QED
  BY <1>1, <1>6, <1>7, NobodyIsClean DEF LifecycleIInv

LEMMA ParkNoteHolds ==
  ASSUME LifecycleIInv, NEW p \in Path, ParkNote(p)
  PROVE  LifecycleIInv'
<1>0. /\ LifecycleTypes /\ Unwritten /\ notes \in Notes /\ indexed \in Notes /\ park \in Parking /\ park.seen \in Notes
      /\ park.seen[p] # NoNote /\ park.step = "park" /\ p \in park.left
      /\ last' = Nobody /\ UNCHANGED <<file, schema, day, steps, touched>>
  BY DEF LifecycleIInv, LifecycleTypes, ParkNote
<1>1. PICK settled : settled =
        Restated(notes[p], "backlog", IF park.seen[p].priority = Plain THEN "low" ELSE park.seen[p].priority)
  OBVIOUS
<1>2. CASE /\ Parks(p) /\ Stored(p) /\ Problems(settled, p, schema) = {}
           /\ notes' = [notes EXCEPT ![p] = settled] /\ indexed' = [indexed EXCEPT ![p] = settled]
           /\ park' = [park EXCEPT !.left = @ \ {p}, !.parked = @ \cup {p}]
  <2>1. notes[p] \in Note
    BY <1>0, <1>2 DEF Stored, Notes
  <2>2. park.seen[p] \in Note
    BY <1>0 DEF Notes, LifecycleTypes
  <2>3. settled \in Note /\ settled.status = "backlog" /\ settled.claim = NoClaim
    <3>1. PICK priority : priority = IF park.seen[p].priority = Plain THEN "low" ELSE park.seen[p].priority
      OBVIOUS
    <3>2. PICK kept : kept = IF priority = Plain THEN notes[p].priority ELSE priority
      OBVIOUS
    <3>3. kept \in {Plain, "low"} \cup ByHand("priority")
      BY <2>1, <2>2, <3>1, <3>2 DEF Note
    <3>4. settled = [notes[p] EXCEPT !.status = "backlog", !.updated = day, !.claim = NoClaim, !.priority = kept]
      BY <1>1, <3>1, <3>2 DEF Restated
    <3>5. day \in Nat
      BY <1>0 DEF LifecycleTypes
    <3>6. QED
      BY <2>1, <3>3, <3>4, <3>5 DEF Note
  <2>4. notes' \in Notes /\ indexed' \in Notes /\ notes'[p] = settled /\ indexed'[p] = settled
        /\ \A q \in Path \ {p} : notes'[q] = notes[q] /\ indexed'[q] = indexed[q]
    BY <1>0, <1>2, <2>3 DEF Notes
  <2>5. /\ park' \in Parking /\ park'.step = park.step /\ park'.now = park.now /\ park'.folders = park.folders
        /\ park'.seen = park.seen /\ park'.left = park.left \ {p} /\ park'.parked = park.parked \cup {p}
    BY <1>0, <1>2 DEF Parking
  <2>6. LifecycleTypes'
    BY <1>0, <2>4, <2>5, NobodyHeld, SufficientStays DEF LifecycleTypes
  <2>7. ASSUME NEW q \in Path \ touched PROVE AsSeen(q)'
    <3>1. AsSeen(q)
      BY <1>0 DEF Unwritten
    <3>2. /\ (TaskFolders(schema))' = TaskFolders(schema)
          /\ (Problems(notes[q], q, schema))' = Problems(notes'[q], q, schema)
      BY <1>0 DEF TaskFolders, Problems
    <3>3. CASE q = p
      BY <1>0, <1>2, <2>3, <2>4, <2>5, <3>1, <3>2, <3>3, Bounds DEF AsSeen
    <3>4. CASE q # p
      BY <1>0, <2>4, <2>5, <3>1, <3>2, <3>4 DEF AsSeen
    <3>5. QED
      BY <3>3, <3>4
  <2>8. Unwritten'
    BY <1>0, <2>7 DEF Unwritten
  <2>9. QED
    BY <1>0, <2>6, <2>8, NobodyIsClean DEF LifecycleIInv
<1>3. CASE park' = [park EXCEPT !.step = "failed"] /\ UNCHANGED <<notes, indexed>>
  <2>1. park' \in Parking /\ park'.step = "failed"
    BY <1>0, <1>3 DEF Parking
  <2>2. LifecycleTypes'
    BY <1>0, <1>3, <2>1, NobodyHeld, SufficientStays DEF LifecycleTypes
  <2>3. Unwritten'
    BY <2>1 DEF Unwritten
  <2>4. QED
    BY <1>0, <2>2, <2>3, NobodyIsClean DEF LifecycleIInv
<1>4. QED
  BY <1>1, <1>2, <1>3 DEF ParkNote

LEMMA ParkEndHolds ==
  ASSUME LifecycleIInv, ParkEnd
  PROVE  LifecycleIInv'
<1>0. LifecycleTypes /\ Unwritten /\ park \in Parking
  BY DEF LifecycleIInv, LifecycleTypes
<1>1. /\ park.step = "park" /\ (\A p \in park.left : ~Parks(p)) /\ park' = [park EXCEPT !.step = "lint"]
      /\ last' = Nobody /\ UNCHANGED <<file, schema, notes, indexed, day, touched>>
  BY DEF ParkEnd
<1>2. /\ park' \in Parking /\ park'.step = "lint" /\ park'.now = park.now /\ park'.folders = park.folders
      /\ park'.seen = park.seen /\ park'.left = park.left /\ park'.parked = park.parked
  BY <1>0, <1>1 DEF Parking
<1>3. LifecycleTypes'
  BY <1>0, <1>1, <1>2, NobodyHeld, SufficientStays DEF LifecycleTypes
<1>4. ASSUME NEW q \in Path \ touched PROVE AsSeen(q)'
  <2>1. AsSeen(q)
    BY <1>0, <1>1 DEF Unwritten
  <2>2. (TaskFolders(schema))' = TaskFolders(schema) /\ (Problems(notes[q], q, schema))' = Problems(notes[q], q, schema)
    BY <1>1 DEF TaskFolders, Problems
  <2>3. (Parks(q))' = Parks(q)
    BY <1>1, <1>2 DEF Parks, ClaimIsFresh
  <2>4. QED
    BY <1>1, <1>2, <2>1, <2>2, <2>3 DEF AsSeen
<1>5. Unwritten'
  BY <1>1, <1>4 DEF Unwritten
<1>6. QED
  BY <1>1, <1>3, <1>5, NobodyIsClean DEF LifecycleIInv

LEMMA ReportHolds ==
  ASSUME LifecycleIInv, WriteReport
  PROVE  LifecycleIInv'
<1>0. LifecycleTypes /\ notes \in Notes /\ indexed \in Notes /\ day \in Nat /\ Report \in Path
  BY Bounds DEF LifecycleIInv, LifecycleTypes
<1>1. park' = Quiet /\ touched' = {} /\ UNCHANGED <<file, schema, day, steps>>
  BY DEF WriteReport
<1>2. Unwritten' /\ park' \in Parking /\ park'.step = "rest"
  BY <1>1, NobodyHeld DEF Unwritten
<1>3. CASE UNCHANGED <<notes, indexed>> /\ last' = Nobody
  <2>1. LifecycleTypes'
    BY <1>0, <1>1, <1>2, <1>3, NobodyHeld, SufficientStays DEF LifecycleTypes
  <2>2. QED
    BY <1>2, <1>3, <2>1, NobodyIsClean DEF LifecycleIInv
<1>4. CASE park.step # "failed"
  <2>1. PICK note \in Note : note = Frontmatter("complete", "log", "log", {"summary"}) /\ note.parses
    BY <1>0, FrontmatterHeld
  <2>2. /\ notes' = [notes EXCEPT ![Report] = note] /\ indexed' = [indexed EXCEPT ![Report] = note]
        /\ last' = [by |-> "lint", path |-> Report]
    BY <1>4, <2>1 DEF WriteReport
  <2>3. notes' \in Notes /\ indexed' \in Notes /\ notes'[Report] = note /\ indexed'[Report] = note
        /\ last' \in [by : Tools, path : Path]
    BY <1>0, <2>1, <2>2 DEF Notes, Tools
  <2>4. LifecycleTypes'
    BY <1>0, <1>1, <1>2, <2>3, SufficientStays DEF LifecycleTypes
  <2>5. Problems(note, Report, schema) \subseteq Unchecked("lint")
    BY <1>0, <2>1, PagesAreClean
  <2>6. LintClean'
    BY <1>0, <1>1, <2>1, <2>2, <2>3, <2>5, WrittenIsClean DEF Tools
  <2>7. QED
    BY <1>2, <2>4, <2>6 DEF LifecycleIInv
<1>5. QED
  BY <1>3, <1>4 DEF WriteReport

LEMMA LifecycleInitHolds == LifecycleInit => LifecycleIInv
<1> SUFFICES ASSUME LifecycleInit PROVE LifecycleIInv
  OBVIOUS
<1>1. schema \in Layouts /\ Sufficient(schema)
  BY EffectiveHeld DEF LifecycleInit
<1>2. notes \in Notes /\ indexed \in Notes
  BY Bounds DEF LifecycleInit, Notes
<1>3. LifecycleTypes
  BY <1>1, <1>2, NobodyHeld DEF LifecycleInit, LifecycleTypes
<1>4. Unwritten /\ LintClean
  BY NobodyHeld DEF LifecycleInit, Unwritten, LintClean, Nobody
<1>5. QED
  BY <1>3, <1>4 DEF LifecycleIInv

LEMMA LifecycleNextHolds == LifecycleIInv /\ [LifecycleNext]_lifecycleVars => LifecycleIInv'
<1> SUFFICES ASSUME LifecycleIInv, [LifecycleNext]_lifecycleVars PROVE LifecycleIInv'
  OBVIOUS
<1>1. CASE UNCHANGED lifecycleVars
  <2>1. LifecycleTypes /\ Unwritten /\ LintClean
    BY DEF LifecycleIInv
  <2>2. LifecycleTypes'
    BY <1>1, <2>1, SufficientStays DEF LifecycleTypes, lifecycleVars
  <2>3. Unwritten'
    BY <1>1, <2>1, OthersAsSeen DEF lifecycleVars
  <2>4. LintClean'
    <3>1. UNCHANGED <<schema, notes, indexed, day, last>>
      BY <1>1 DEF lifecycleVars
    <3>2. Broken' = Broken
      BY <3>1 DEF Broken, Stored
    <3>3. (StaleActive \cup DoneNotClosed \cup ArchiveMismatch)' = StaleActive \cup DoneNotClosed \cup ArchiveMismatch
      BY <3>1 DEF StaleActive, Listed, Age, DoneNotClosed, ArchiveMismatch, TaskFolders, ArchiveFolder, FirstOf, OfKind
    <3>4. \A q : (Breaches(q))' = Breaches(q)
      BY <3>1, <3>2 DEF Breaches, Problems
    <3>5. \A b : (Unchecked(b))' = Unchecked(b)
      BY <3>1 DEF Unchecked, TaskFolders, LogFolder, FirstOf, OfKind
    <3>6. QED
      BY <2>1, <3>1, <3>2, <3>3, <3>4, <3>5 DEF LintClean
  <2>5. QED
    BY <2>2, <2>3, <2>4 DEF LifecycleIInv
<1>2. CASE LifecycleNext
  <2>1. ASSUME NEW p \in Path,
               \/ WriteFile(p) \/ SetStatus(p) \/ BacklogAdd(p) \/ OpenTask(p) \/ Release(p)
               \/ \E m \in Machine : Claim(p, m)
        PROVE  LifecycleIInv'
    BY <2>1, CheckedToolsHold
  <2>2. ASSUME NEW p \in Path, Close(p) \/ LogAppend(p) \/ Edit(p) \/ ParkNote(p) PROVE LifecycleIInv'
    BY <2>2, CloseHolds, LogAppendHolds, EditHolds, ParkNoteHolds
  <2>3. ASSUME Relayout \/ Refresh \/ DayPasses \/ ParkBegin \/ ParkEnd \/ WriteReport PROVE LifecycleIInv'
    BY <2>3, RelayoutHolds, RefreshHolds, DayHolds, ParkBeginHolds, ParkEndHolds, ReportHolds
  <2>4. QED
    BY <1>2, <2>1, <2>2, <2>3 DEF LifecycleNext
<1>3. QED
  BY <1>1, <1>2

(* What a tool has just written lints clean, but for what nothing checks, under any layout in effect; and *)
(* a parking run leaves no stale open task but those that a claim protects or others wrote meanwhile.     *)
THEOREM ToolsAndLintAgree == LifecycleSpec => []LifecycleInv
<1>1. QED
  BY LifecycleInitHolds, LifecycleNextHolds, Settles, PTL DEF LifecycleSpec
=============================================================================
