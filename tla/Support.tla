------------------------------- MODULE Support -------------------------------
(* Support access: the owner of a vault lets the server's staff open it until a time, or ends that, on   *)
(* the account page of one of several servers; a command of the staff is admitted, logged and then reads *)
(* or imports; and the vault changes hands or goes meanwhile.                                            *)
EXTENDS Naturals

CONSTANTS
  Owner,       \* the accounts that take turns to own the vault
  Desk,        \* handlers of the account page, of one server or of several
  Operator,    \* commands of the staff
  MaxDays,     \* bound: the clock
  MaxHands,    \* bound: how often the vault is handed over
  Gone, NoGrant, Shared

ASSUME SupportAssumption ==
  MaxDays \in Nat /\ MaxHands \in Nat /\ Gone \notin Owner /\ NoGrant \notin Owner /\ Shared \in BOOLEAN

Duration == {1, 2}

VARIABLES
  clock, holder,    \* holder : the vault's owner, or Gone
  hands,
  grant,            \* vault_support_grants : [by, until, late] or NoGrant
  desk,             \* each handler : [step, account, hands]
  operator,         \* each command : [step, account, action, entry]
  log               \* vault_access : the rows [operator, account, giver, owner, at]
supportVars == <<clock, holder, hands, grant, desk, operator, log>>

AtDesk(step, a) == [step |-> step, account |-> a, hands |-> hands]
NoDesk == [step |-> "none", account |-> NoGrant, hands |-> 0]
NoCommand == [step |-> "none", account |-> NoGrant, action |-> "none"]

SupportInit ==
  /\ clock = 0 /\ hands = 0 /\ grant = NoGrant /\ log = {}
  /\ \E a \in Owner : holder = a
  /\ desk = [d \in Desk |-> NoDesk] /\ operator = [o \in Operator |-> NoCommand]

Live == grant # NoGrant /\ grant.until > clock

-----------------------------------------------------------------------------
(* The page: own_vault finds the vault of the account that asks, and nothing for another's.              *)
Ask(d, step) ==
  /\ desk[d].step = "none" /\ holder # Gone
  /\ desk' = [desk EXCEPT ![d] = AtDesk(step, holder)]
  /\ UNCHANGED <<clock, holder, hands, grant, operator, log>>

(* grant writes over the row there is, with the owner as it was read; a row of a vault that is gone is   *)
(* refused by its foreign key.                                                                           *)
Grant(d, seconds) ==
  /\ desk[d].step = "allow"
  /\ desk' = [desk EXCEPT ![d] = NoDesk]
  /\ grant' = IF holder = Gone THEN grant
              ELSE [by |-> desk[d].account, until |-> clock + seconds, late |-> desk[d].hands # hands]
  /\ UNCHANGED <<clock, holder, hands, operator, log>>

(* revoke deletes the row only if the account gave it.                                                   *)
Revokes(d) == grant # NoGrant /\ grant.by = desk[d].account

EndEarly(d) ==
  /\ desk[d].step = "end"
  /\ desk' = [desk EXCEPT ![d] = NoDesk]
  /\ grant' = IF Revokes(d) THEN NoGrant ELSE grant
  /\ UNCHANGED <<clock, holder, hands, operator, log>>

\* Mutant: the grants of the last owner stay.
HandVaultWithGrants(a) ==
  /\ hands < MaxHands /\ holder \notin {Gone, a}
  /\ holder' = a /\ hands' = hands + 1
  /\ UNCHANGED <<clock, grant, desk, operator, log>>

(* hand_over takes the grants with it, and so does the deletion of the vault.                            *)
HandVault(a) ==
  /\ hands < MaxHands /\ holder \notin {Gone, a}
  /\ holder' = a /\ hands' = hands + 1 /\ grant' = NoGrant
  /\ UNCHANGED <<clock, desk, operator, log>>

DeleteVault ==
  /\ holder # Gone
  /\ holder' = Gone /\ grant' = NoGrant
  /\ UNCHANGED <<clock, hands, desk, operator, log>>

Tick == clock < MaxDays /\ clock' = clock + 1 /\ UNCHANGED <<holder, hands, grant, desk, operator, log>>

-----------------------------------------------------------------------------
(* The command: the vault of the account that was named, which an import wants personal.                 *)
Choose(o, action) ==
  /\ operator[o].step = "none" /\ holder # Gone
  /\ action = "import" => ~Shared
  /\ operator' = [operator EXCEPT ![o] = [step |-> "chosen", account |-> holder, action |-> action]]
  /\ UNCHANGED <<clock, holder, hands, grant, desk, log>>

(* admit looks for a grant that has not run out, whoever gave it, and writes the row in the log of the   *)
(* account that was named.                                                                               *)
Admit(o) ==
  /\ operator[o].step = "chosen"
  /\ IF Live
     THEN /\ log' = log \cup {[operator |-> o, account |-> operator[o].account, giver |-> grant.by,
                               owner |-> holder, late |-> grant.late, at |-> clock]}
          /\ operator' = [operator EXCEPT ![o].step = "admitted"]
     ELSE /\ operator' = [operator EXCEPT ![o].step = "refused"] /\ UNCHANGED log
  /\ UNCHANGED <<clock, holder, hands, grant, desk>>

(* What it reads, or seals into the vault, it does without looking at the grant again.                   *)
Looks(o) ==
  /\ operator[o].step = "admitted"
  /\ operator' = [operator EXCEPT ![o].step = "looked"]
  /\ UNCHANGED <<clock, holder, hands, grant, desk, log>>

SupportNext ==
  \/ Tick \/ DeleteVault
  \/ \E a \in Owner : HandVault(a)
  \/ \E d \in Desk : Ask(d, "allow") \/ Ask(d, "end") \/ EndEarly(d) \/ \E seconds \in Duration : Grant(d, seconds)
  \/ \E o \in Operator : Choose(o, "read") \/ Choose(o, "import") \/ Admit(o) \/ Looks(o)

SupportSpec == SupportInit /\ [][SupportNext]_supportVars

-----------------------------------------------------------------------------
SupportTypeOK ==
  /\ clock \in 0..MaxDays /\ hands \in 0..MaxHands /\ holder \in Owner \cup {Gone}
  /\ grant # NoGrant => grant.by \in Owner /\ grant.until \in 0..(MaxDays + 2) /\ grant.late \in BOOLEAN
  /\ \A d \in Desk : desk[d].step \in {"none", "allow", "end"} /\ desk[d].account \in Owner \cup {NoGrant}
  /\ \A o \in Operator : operator[o].step \in {"none", "chosen", "admitted", "refused", "looked"}

(* "Support access to a shared vault is the owner's to grant": a grant in force is of the one who owns the
   vault, also after it changed hands; only a page that had read the old owner before a hand-over, and
   writes after it, leaves one of theirs, which the new owner cannot end. *)
SupportIsTheOwners == grant # NoGrant => holder # Gone /\ (grant.by = holder \/ grant.late)

(* "Every access is logged": no command looks without its row, and the row is in the log of whoever gave the
   grant and owns the vault, unless the vault changed hands under the command. *)
LooksAreLogged ==
  /\ \A o \in Operator : operator[o].step = "looked" => \E row \in log : row.operator = o
  /\ \A row \in log : row.owner = row.account => row.giver = row.account \/ row.late

(* Support sees what the owner allows, as long as they do, and they see who looked. *)
SupportInv == SupportTypeOK /\ SupportIsTheOwners /\ LooksAreLogged
=============================================================================
