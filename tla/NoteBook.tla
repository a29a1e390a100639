------------------------------ MODULE NoteBook ------------------------------
(***************************************************************************)
(* What the note tools promise their callers: a book of notes on which     *)
(* every call takes effect in one step, all of it or nothing.  A close is  *)
(* the one call that touches two paths, and it moves the note at once.  A  *)
(* server that is killed forgets its calls; the only trace it may leave is *)
(* a copy under an archive name that a close had asked for.                *)
(*                                                                         *)
(* NoteStore, whose handlers are many storage requests each, implements    *)
(* this where every write is conditional on the version read.              *)
(***************************************************************************)
EXTENDS Naturals

CONSTANTS Client, Calls, Note, Path, Names, Absent, NoClaim, Anyone

VARIABLES
  book,     \* the page of each path: its lines and the machine that claims it
  pending,  \* the call each client has made, until it takes effect or fails
  seen,     \* the page a write_file with an etag is conditional on
  made      \* calls each client began

bookVars == <<book, pending, seen, made>>

Lines(p) == IF book[p] = Absent THEN {} ELSE book[p].lines
Claimant(p) == IF book[p] = Absent THEN NoClaim ELSE book[p].claim
Page(ls, m) == [lines |-> ls, claim |-> m]
NewLine(c) == <<c, made[c]>>
NamesOf(k) == {Names[k][i] : i \in DOMAIN Names[k]}

BookInit ==
  /\ book = [p \in Path |-> IF p \in Note THEN Page({p}, NoClaim) ELSE Absent]
  /\ pending = [c \in Client |-> Absent]
  /\ seen = [c \in Client |-> Absent]
  /\ made = [c \in Client |-> 0]

Ask(c) ==
  /\ pending[c] = Absent
  /\ \E q \in Calls : /\ pending' = [pending EXCEPT ![c] = q]
                      /\ seen' = [seen EXCEPT ![c] = IF q.kind = "etag" THEN book[q.at] ELSE Absent]
  /\ made' = [made EXCEPT ![c] = @ + 1]
  /\ UNCHANGED book

(* c's call, one of these kinds, is over. *)
Ends(c, kinds) ==
  /\ pending[c] # Absent
  /\ pending[c].kind \in kinds
  /\ pending' = [pending EXCEPT ![c] = Absent]
  /\ seen' = [seen EXCEPT ![c] = Absent]
  /\ UNCHANGED made

Becomes(p, page) == book' = [book EXCEPT ![p] = page]

(* append_to_note keeps what is there and wants the note to exist; the log *)
(* of a project is made when it is missing.                                *)
Append(c) ==
  /\ Ends(c, {"append", "log"})
  /\ LET p == pending[c].at
     IN /\ book[p] # Absent \/ pending[c].kind = "log"
        /\ Becomes(p, Page(Lines(p) \cup {NewLine(c)}, Claimant(p)))

(* write_file replaces the text, never the claim; with an etag it replaces *)
(* only the page its caller saw.                                           *)
Overwrite(c) ==
  /\ Ends(c, {"write", "etag"})
  /\ LET p == pending[c].at
     IN /\ pending[c].kind = "etag" => book[p] = seen[c]
        /\ Becomes(p, Page({NewLine(c)}, Claimant(p)))

(* backlog_add and open_task take a name that no note has. *)
File(c) ==
  /\ Ends(c, {"backlog", "open"})
  /\ \E p \in NamesOf(pending[c].at) :
       book[p] = Absent /\ Becomes(p, Page({NewLine(c)}, NoClaim))

TakeClaim(c) ==
  /\ Ends(c, {"claim"})
  /\ LET q == pending[c]
     IN /\ book[q.at] # Absent
        /\ q.force \/ Claimant(q.at) \in {NoClaim, q.who}
        /\ Becomes(q.at, Page(Lines(q.at), q.who))

DropClaim(c) ==
  /\ Ends(c, {"release"})
  /\ LET q == pending[c]
     IN /\ Claimant(q.at) # NoClaim
        /\ q.who \in {Anyone, Claimant(q.at)}
        /\ Becomes(q.at, Page(Lines(q.at), NoClaim))

(* A status set in place; park, and the close of a note that is in the     *)
(* archive already, drop the claim with it.                                *)
Settle(c) ==
  /\ Ends(c, {"status", "park", "close"})
  /\ LET q == pending[c]
     IN /\ q.kind = "close" => NamesOf(q.at) = {}
        /\ book[q.at] # Absent
        /\ Becomes(q.at, Page(Lines(q.at), IF q.kind = "status" THEN Claimant(q.at) ELSE NoClaim))

Archive(c) ==
  /\ Ends(c, {"close"})
  /\ LET p == pending[c].at
     IN /\ book[p] # Absent
        /\ \E d \in NamesOf(p) :
             /\ book[d] = Absent
             /\ book' = [book EXCEPT ![d] = Page(Lines(p), NoClaim), ![p] = Absent]

(* The call is refused, or gives up after a conflict. *)
Fail(c) ==
  /\ Ends(c, {pending[c].kind})
  /\ UNCHANGED book

(* A server is killed with the calls in S; copies its closes had stored stay. *)
Killed(S) ==
  /\ pending' = [c \in Client |-> IF c \in S THEN Absent ELSE pending[c]]
  /\ seen' = [c \in Client |-> IF c \in S THEN Absent ELSE seen[c]]
  /\ \A p \in Path : book'[p] # book[p] =>
       /\ book[p] = Absent
       /\ \E c \in S : /\ pending[c] # Absent
                       /\ pending[c].kind = "close"
                       /\ p \in NamesOf(pending[c].at)
  /\ UNCHANGED made

BookNext ==
  \/ \E c \in Client :
       \/ Ask(c) \/ Append(c) \/ Overwrite(c) \/ File(c)
       \/ TakeClaim(c) \/ DropClaim(c) \/ Settle(c) \/ Archive(c) \/ Fail(c)
  \/ \E S \in SUBSET Client : Killed(S)

BookSpec == BookInit /\ [][BookNext]_bookVars
=============================================================================
