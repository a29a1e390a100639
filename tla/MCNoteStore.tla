----------------------------- MODULE MCNoteStore -----------------------------
(* Small instances of NoteStore. *)
EXTENDS NoteStore, TLC

CONSTANTS c1, c2, c3, s1, s2, n1, n2, a1, a2, a3, b1, b2, b3, idea, m1, m2

Local == [atomic |-> FALSE, digests |-> TRUE, raises |-> TRUE, move |-> "rename"]
S3 == [atomic |-> TRUE, digests |-> TRUE, raises |-> FALSE, move |-> "copy"]
SealedS3 == [atomic |-> TRUE, digests |-> FALSE, raises |-> FALSE, move |-> "reput"]

(* n1 is archived under a1, a2 or a3; n2 is in the archive already; an idea *)
(* is filed under b1, b2 or b3.                                             *)
MCNames == (n1 :> <<a1, a2, a3>>) @@ (n2 :> << >>) @@ (idea :> <<b1, b2, b3>>)

On(k, p) == [kind |-> k, at |-> p, to |-> p, who |-> Anyone, force |-> FALSE]
Claiming(m, f) == [On("claim", n1) EXCEPT !.who = m, !.force = f]
Releasing(m) == [On("release", n1) EXCEPT !.who = m]
Moving(p, d) == [On("move", p) EXCEPT !.to = d]

CheckedBackends == {Local, S3, SealedS3}

OneProcess == [c \in Client |-> s1]
EachItsOwn == (c1 :> s1) @@ (c2 :> s2)

CheckedCalls == {On("append", n1), On("log", n1), On("write", n1), On("etag", n1), On("close", n1),
                 On("close", n2), On("park", n1), On("backlog", idea), On("open", idea),
                 On("status", n1), Claiming(m1, FALSE), Claiming(m2, TRUE), Releasing(m1)}

(* Calls that move, discard or claim the note. *)
MixedCalls == {On("close", n1), On("delete", n1), On("put", n1), On("etag", n1), Moving(n1, n2),
               Claiming(m1, FALSE), Claiming(m2, TRUE), Releasing(m1)}
MixedBackends == {Local, SealedS3}

(* Two appends, the smallest calls that can lose an edit to each other. *)
Appends == {On("append", n1)}
OnFolder == {Local}

(* The smallest calls with which a folder brings back a deleted note. *)
AppendAndDelete == {On("append", n1), On("delete", n1)}

(* The digest of a folder or an S3 object comes back with the text it is of, and with it a claim that was  *)
(* taken and released meanwhile: claims are checked where versions are not reused, and alone in           *)
(* notes_mixed.                                                                                           *)
ClaimsOnSealed(c) == Begin(c) /\ (h'[c].q.kind \in {"claim", "release"} => ~backend.digests)
CheckedNext ==
  \/ \E c \in Client : ClaimsOnSealed(c) \/ Continue(c)
  \/ \E s \in Process : Crash(s)
CheckedSpec == Init /\ [][CheckedNext]_vars

Threads == Permutations(Client)
=============================================================================
