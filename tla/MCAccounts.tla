----------------------------- MODULE MCAccounts -----------------------------
(* Small instances of Membership, Grants, SignIn and Layouts.  They share no variable: a behaviour of    *)
(* this module is one of one of them (part), and the others stay where they began.                       *)
EXTENDS Membership, Grants, SignIn, Layouts, TLC

CONSTANTS ann, bob, s1, s2, h1, h2, b1, b2, w1, w2, pa, pb, mail, hub, hubB, key
CONSTANTS default, para, custom, areas, open, all, n1

VARIABLE part

MCWayOf == (mail :> pa) @@ (hub :> pa) @@ (hubB :> pb) @@ (key :> pa)
MCWayKind == (mail :> "email") @@ (hub :> "provider") @@ (hubB :> "provider") @@ (key :> "passkey")

(* Two layouts share a view, as the built-in one and PARA do.  The zip holds a note and a schema.         *)
MCViewsOf == (default :> <<areas>>) @@ (para :> <<open, areas>>) @@ (custom :> <<all>>)
MCArchive == (n1 :> ByHand(0)) @@ (SchemaKey :> [of |-> custom, edit |-> 1])

(* One beginning of each, for the behaviours of the others. *)
GrantsAside == GrantsInit /\ made = 0
SignInAside == SignInInit /\ inFront = [b \in Browser |-> pa]
LayoutsAside == LayoutsInit /\ past.laid = NoFile

MCInit ==
  \/ part = "members" /\ MembershipInit /\ GrantsAside /\ SignInAside /\ LayoutsAside
  \/ part = "grants" /\ GrantsInit /\ MembershipInit /\ SignInAside /\ LayoutsAside
  \/ part = "sign-in" /\ SignInInit /\ MembershipInit /\ GrantsAside /\ LayoutsAside
  \/ part = "layouts" /\ LayoutsInit /\ past.laid \in {NoFile, para} /\ MembershipInit /\ GrantsAside /\ SignInAside

MCNext ==
  \/ part = "members" /\ MembershipNext /\ UNCHANGED <<part, grantsVars, signInVars, layoutsVars>>
  \/ part = "grants" /\ GrantsNext /\ UNCHANGED <<part, membershipVars, signInVars, layoutsVars>>
  \/ part = "sign-in" /\ SignInNext /\ UNCHANGED <<part, membershipVars, grantsVars, layoutsVars>>
  \/ part = "layouts" /\ LayoutsNext /\ UNCHANGED <<part, membershipVars, grantsVars, signInVars>>

MCSpec == MCInit /\ [][MCNext]_<<part, membershipVars, grantsVars, signInVars, layoutsVars>>

(* Processes, handlers, browsers and hands are alike, and so are the accounts; a behaviour has one of the *)
(* four kinds only, so that exchanging all actors at once is one symmetry, and the accounts are another.  *)
Alike == {{s1, s2}, {h1, h2}, {b1, b2}, {w1, w2}}
Accounts == {ann, bob}
Swapped(x) == CHOOSE y \in UNION (Alike \cup {Accounts}) : x # y /\ {x, y} \in Alike \cup {Accounts}
Symmetric == {[x \in UNION Alike \cup Accounts |-> IF kind[(x \in Accounts)] THEN Swapped(x) ELSE x] :
                kind \in [BOOLEAN -> BOOLEAN]}
=============================================================================
