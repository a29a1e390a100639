------------------------------- MODULE Grants --------------------------------
(***************************************************************************)
(* What lets a program reach a hosted vault, from the moment somebody      *)
(* agrees to it until it ends: authorization requests, codes and tokens    *)
(* (HostedProvider in hosted.py, consent_submit in hosted_web.py), device  *)
(* codes (device.py), API, machine and WebDAV keys, and what ends them     *)
(* (hosted_store.py and the vault pages).                                  *)
(*                                                                         *)
(* One vault, one account that is a member of it and one client.  A server *)
(* answers a request without giving way to another one, but several        *)
(* servers share the database: each transaction is a step.  A token pair   *)
(* is one grant; scopes and the binding to a client are left out.          *)
(***************************************************************************)
EXTENDS Naturals, FiniteSets

CONSTANTS
  Handler,      \* servers, a request at a time each
  MaxGrants     \* bound: requests, codes, token pairs, devices and keys ever made

ASSUME GrantsAssumption == MaxGrants \in Nat \ {0}

GrantId == 1..MaxGrants
GrantKind == {"request", "code", "tokens", "device", "key", "webdav"}

VARIABLES
  member, active,   \* whether the account is in the vault, and not suspended
  made,             \* grants made
  grant,            \* each: its kind, the ones it came from, whether its row is there and
                    \* unrevoked (that of the refresh token, of a pair), whether the access
                    \* token is good, and what was said of a device
  call,             \* what each server is at
  ended,            \* the grants somebody ended
  crossed           \* whether one request has run between the steps of another

accountVars == <<member, active>>
grantsVars == <<accountVars, made, grant, call, ended, crossed>>

Nothing == [kind |-> "key", from |-> {}, open |-> FALSE, access |-> FALSE, said |-> "pending"]
Free == [op |-> "none", of |-> 0, read |-> "pending"]

(* Nothing yet, or what an authorization answered before has left: with one bound, the runs then see
   what two servers make of one code and of one refresh token. *)
GrantsInit ==
  /\ member = TRUE /\ active = TRUE
  /\ \/ made = 0 /\ grant = [g \in GrantId |-> Nothing]
     \/ \E kind \in {"code", "tokens"} :
          /\ made = 1
          /\ grant = [g \in GrantId |->
                        IF g # 1 THEN Nothing
                        ELSE [Nothing EXCEPT !.kind = kind, !.open = TRUE, !.access = (kind = "tokens")]]
  /\ call = [h \in Handler |-> Free] /\ ended = {} /\ crossed = FALSE

-----------------------------------------------------------------------------
Open(kind) == {g \in 1..made : grant[g].kind = kind /\ grant[g].open}
Keys == Open("key") \cup Open("webdav")
Tokens == {g \in 1..made : grant[g].kind = "tokens" /\ (grant[g].open \/ grant[g].access)}
Reaching == member /\ active

(* A new grant, from the grant `of` and all that one came from. *)
Made(kind, of) ==
  /\ made < MaxGrants /\ made' = made + 1
  /\ grant' = [grant EXCEPT ![made + 1] =
       [Nothing EXCEPT !.kind = kind, !.open = TRUE, !.access = (kind = "tokens"),
                       !.from = IF of = 0 THEN {} ELSE {of} \cup grant[of].from]]

Closed(gs) ==
  grant' = [g \in GrantId |-> IF g \in gs THEN [grant[g] EXCEPT !.open = FALSE, !.access = FALSE] ELSE grant[g]]

Busy(h) == call[h].op # "none"
Starts(h, op, of, read) ==
  /\ ~Busy(h) /\ call' = [call EXCEPT ![h] = [op |-> op, of |-> of, read |-> read]]
  /\ crossed' = (crossed \/ \E i \in Handler : Busy(i))
Goes(h, op) == call' = [call EXCEPT ![h].op = op] /\ UNCHANGED crossed
Done(h) == call' = [call EXCEPT ![h] = Free] /\ UNCHANGED crossed

(* A request of one transaction. *)
AtOnce == crossed' = (crossed \/ \E i \in Handler : Busy(i)) /\ UNCHANGED call

-----------------------------------------------------------------------------
(* Authorization: a request, consent to it, a code, tokens.                *)

Authorize == Made("request", 0) /\ AtOnce /\ UNCHANGED <<accountVars, ended>>

CheckConsent(h) ==
  \E g \in Open("request") :
    /\ Reaching /\ Starts(h, "consent", g, "pending")
    /\ UNCHANGED <<accountVars, made, grant, ended>>

(* The request goes and the code comes; another server may have done both. *)
Consent(h) ==
  /\ call[h].op = "consent"
  /\ Closed({call[h].of}) /\ Goes(h, "code")
  /\ UNCHANGED <<accountVars, made, ended>>

MintCode(h) ==
  /\ call[h].op = "code"
  /\ Made("code", call[h].of) /\ Done(h)
  /\ UNCHANGED <<accountVars, ended>>

Decline ==
  /\ \E g \in Open("request") : Closed({g}) /\ ended' = ended \cup {g}
  /\ AtOnce /\ UNCHANGED <<accountVars, made>>

(* exchange_authorization_code: the code is read, then taken.              *)
LoadCode(h) ==
  \E g \in Open("code") :
    /\ Starts(h, "exchange", g, "pending")
    /\ UNCHANGED <<accountVars, made, grant, ended>>

\* Mutant: a code is answered whether or not its row was still there.
TakeCodeTwice(h) ==
  /\ call[h].op = "exchange"
  /\ Closed({call[h].of}) /\ Goes(h, "issue")
  /\ UNCHANGED <<accountVars, made, ended>>

(* Who deletes the row has taken the code; it may have expired, for all that. *)
TakeCode(h) ==
  LET g == call[h].of IN
  /\ call[h].op = "exchange"
  /\ Closed({g})
  /\ \/ grant[g].open /\ Goes(h, "issue")
     \/ Done(h)
  /\ UNCHANGED <<accountVars, made, ended>>

LoadRefresh(h) ==
  \E g \in Open("tokens") :
    /\ Starts(h, "refresh", g, "pending")
    /\ UNCHANGED <<accountVars, made, grant, ended>>

(* exchange_refresh_token: the refresh token is used up, and the access    *)
(* token of its pair stays good until it expires.                          *)
TakeRefresh(h) ==
  LET g == call[h].of IN
  /\ call[h].op = "refresh"
  /\ grant' = [grant EXCEPT ![g].open = FALSE]
  /\ \/ grant[g].open /\ Goes(h, "issue")
     \/ ~grant[g].open /\ Done(h)
  /\ UNCHANGED <<accountVars, made, ended>>

(* require_active and require_vault. *)
CheckAccount(h) ==
  /\ call[h].op = "issue"
  /\ \/ Reaching /\ Goes(h, "save")
     \/ ~Reaching /\ Done(h)
  /\ UNCHANGED <<accountVars, made, grant, ended>>

SaveTokens(h) ==
  /\ call[h].op = "save"
  /\ Made("tokens", call[h].of) /\ Done(h)
  /\ UNCHANGED <<accountVars, ended>>

AccessExpires ==
  /\ \E g \in Tokens : grant[g].access /\ grant' = [grant EXCEPT ![g].access = FALSE]
  /\ UNCHANGED <<accountVars, made, call, ended, crossed>>

-----------------------------------------------------------------------------
(* Devices.                                                                *)

StartDevice == Made("device", 0) /\ AtOnce /\ UNCHANGED <<accountVars, ended>>

(* submit: the code is pending, and a vault of the account is chosen.      *)
CheckSubmit(h) ==
  \E g \in Open("device"), verdict \in {"approved", "denied"} :
    /\ grant[g].said = "pending" /\ active /\ (verdict = "approved" => member)
    /\ Starts(h, "submit", g, verdict)
    /\ UNCHANGED <<accountVars, made, grant, ended>>

(* update_device does not look at what was said before. *)
Submit(h) ==
  LET g == call[h].of IN
  /\ call[h].op = "submit"
  /\ grant' = [grant EXCEPT ![g].said = call[h].read]
  /\ ended' = IF call[h].read = "denied" THEN ended \cup {g} ELSE ended
  /\ Done(h) /\ UNCHANGED <<accountVars, made>>

(* token: a device asks, and while it is pending it may ask again.         *)
Poll(h) ==
  \E g \in Open("device") :
    /\ grant[g].said # "pending"
    /\ Starts(h, "poll", g, grant[g].said)
    /\ UNCHANGED <<accountVars, made, grant, ended>>

(* Who deletes the row has consumed the approval. *)
DropDevice(h) ==
  LET g == call[h].of IN
  /\ call[h].op = "poll"
  /\ Closed({g})
  /\ \/ grant[g].open /\ call[h].read = "approved" /\ Goes(h, "device")
     \/ ~(grant[g].open /\ call[h].read = "approved") /\ Done(h)
  /\ UNCHANGED <<accountVars, made, ended>>

CheckDevice(h) ==
  /\ call[h].op = "device"
  /\ \/ Reaching /\ Goes(h, "key")
     \/ ~Reaching /\ Done(h)
  /\ UNCHANGED <<accountVars, made, grant, ended>>

DeviceExpires ==
  /\ \E g \in Open("device") : Closed({g})
  /\ AtOnce /\ UNCHANGED <<accountVars, made, ended>>

-----------------------------------------------------------------------------
(* Keys.                                                                   *)

CheckKey(h) ==
  /\ Reaching /\ Starts(h, "key", 0, "pending")
  /\ UNCHANGED <<accountVars, made, grant, ended>>

(* create_key: the key of a page or of a device. *)
CreateKey(h) ==
  /\ call[h].op = "key"
  /\ Made("key", call[h].of) /\ Done(h)
  /\ UNCHANGED <<accountVars, ended>>

(* A new WebDAV key ends the ones before it. *)
RevokeWebdav(h) ==
  /\ Reaching /\ Starts(h, "webdav", 0, "pending")
  /\ Closed(Open("webdav")) /\ ended' = ended \cup Open("webdav")
  /\ UNCHANGED <<accountVars, made>>

CreateWebdav(h) ==
  /\ call[h].op = "webdav"
  /\ \/ Reaching /\ Made("webdav", 0)
     \/ ~Reaching /\ UNCHANGED <<made, grant>>
  /\ Done(h) /\ UNCHANGED <<accountVars, ended>>

-----------------------------------------------------------------------------
(* What ends a grant.                                                      *)

EndsGrants(gs) == gs # {} /\ Closed(gs) /\ ended' = ended \cup gs /\ AtOnce /\ UNCHANGED <<accountVars, made>>

RevokeKey == \E g \in Keys : EndsGrants({g})
Disconnect == EndsGrants(Tokens)

(* revoke_grant: the pair of a token.  One that has been refreshed goes alone, the pair that
   replaced it is another grant. *)
RevokeGrant ==
  /\ \E g \in Tokens : Closed({g}) /\ ended' = ended \cup (Open("tokens") \cap {g})
  /\ AtOnce /\ UNCHANGED <<accountVars, made>>

(* remove_member: with the keys, the tokens and the devices of the account. *)
RemoveMember ==
  LET theirs == Keys \cup Tokens \cup {g \in Open("device") : grant[g].said # "pending"} IN
  /\ member /\ member' = FALSE /\ AtOnce
  /\ Closed(theirs) /\ ended' = ended \cup theirs
  /\ UNCHANGED <<active, made>>

Rejoin == ~member /\ member' = TRUE /\ AtOnce /\ UNCHANGED <<active, made, grant, ended>>

SetStatus == active' = ~active /\ AtOnce /\ UNCHANGED <<member, made, grant, ended>>

-----------------------------------------------------------------------------
GrantsNext ==
  \/ Authorize \/ Decline \/ StartDevice \/ AccessExpires \/ DeviceExpires
  \/ RevokeKey \/ Disconnect \/ RevokeGrant \/ RemoveMember \/ Rejoin \/ SetStatus
  \/ \E h \in Handler :
       \/ CheckConsent(h) \/ Consent(h) \/ MintCode(h) \/ LoadCode(h) \/ TakeCode(h)
       \/ LoadRefresh(h) \/ TakeRefresh(h) \/ CheckAccount(h) \/ SaveTokens(h)
       \/ CheckSubmit(h) \/ Submit(h) \/ Poll(h) \/ DropDevice(h) \/ CheckDevice(h)
       \/ CheckKey(h) \/ CreateKey(h) \/ RevokeWebdav(h) \/ CreateWebdav(h)

GrantsSpec == GrantsInit /\ [][GrantsNext]_grantsVars

-----------------------------------------------------------------------------
GrantsTypeOK ==
  /\ member \in BOOLEAN /\ active \in BOOLEAN /\ made \in 0..MaxGrants
  /\ grant \in [GrantId -> [kind : GrantKind, from : SUBSET GrantId, open : BOOLEAN, access : BOOLEAN,
                            said : {"pending", "approved", "denied"}]]
  /\ call \in [Handler -> [op : {"none", "consent", "code", "exchange", "refresh", "issue", "save", "submit",
                                 "poll", "device", "key", "webdav"},
                           of : 0..MaxGrants, read : {"pending", "approved", "denied"}]]
  /\ ended \subseteq GrantId /\ crossed \in BOOLEAN

(* authenticate and key_grant: what opens the vault now. *)
Admits(g) == Reaching /\ (g \in Keys \/ (grant[g].kind = "tokens" /\ grant[g].access))

(* What could be turned into something that does. *)
Renews(g) == grant[g].open /\ (grant[g].kind \in {"code", "tokens"} \/ grant[g].said = "approved")

Children(g) == {c \in 1..made : g \in grant[c].from /\ Cardinality(grant[c].from) = Cardinality(grant[g].from) + 1}

(* A code, a refresh token and an approved device are each good for one grant, however many servers
   answer for them at once. *)
OneSuccessor ==
  \A g \in 1..made : grant[g].kind \in {"code", "tokens", "device"} => Cardinality(Children(g)) <= 1

(* What somebody revoked, disconnected, denied or lost with the membership never opens the vault
   again, nor does anything that came from it, also when the member comes back: as long as no request
   runs between the steps of another. *)
EndedForGood ==
  ~crossed => \A g \in 1..made : (g \in ended \/ grant[g].from \cap ended # {}) => ~Admits(g) /\ ~Renews(g)
(* Each code, refresh token and device is good for one grant, and what has ended opens nothing again. *)
GrantsInv == GrantsTypeOK /\ OneSuccessor /\ EndedForGood
=============================================================================
