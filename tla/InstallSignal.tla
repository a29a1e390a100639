---------------------------- MODULE InstallSignal ----------------------------
(* The install signal (install_signal.py): every server that runs on a machine looks once an hour whether *)
(* it is on and the day's signal has not gone, and sends it with the machine's install id; where it is    *)
(* off, it deletes the id.  One sends at a time, where the system has file locks.                         *)
EXTENDS Naturals

CONSTANTS
  Process,
  HasFlock,                       \* whether the system has file locks
  LastDay, MaxAnswers, MaxIds     \* bounds
ASSUME InstallSignalAssumption ==
  HasFlock \in BOOLEAN /\ LastDay \in Nat /\ MaxAnswers \in Nat /\ MaxIds \in Nat

VARIABLES
  on,        \* the answer about usage data, or the environment's
  answers,
  installId, ids,   \* the id in its file, 0 for none, and the ids made
  ledger,    \* the day in the ledger, 0 for none
  utcDay,
  beats,     \* each process : [step, day, id]
  sent,      \* the ids and days of the signals that went
  twice,     \* whether one went twice
  former,    \* the ids made before somebody last answered no, once a process has forgotten them
  collided   \* whether an id was forgotten while another process was on its way to send
signalVars == <<on, answers, installId, ids, ledger, utcDay, beats, sent, twice, former, collided>>

Waiting == [step |-> "wait", day |-> 0, id |-> 0]
SignalInit ==
  /\ on = FALSE /\ answers = 0 /\ installId = 0 /\ ids = 0 /\ ledger = 0 /\ utcDay = 1
  /\ beats = [p \in Process |-> Waiting] /\ sent = {} /\ twice = FALSE /\ former = {} /\ collided = FALSE

Answer ==
  /\ answers < MaxAnswers /\ answers' = answers + 1 /\ on' = ~on
  /\ UNCHANGED <<installId, ids, ledger, utcDay, beats, sent, twice, former, collided>>
NextDay ==
  /\ utcDay < LastDay /\ utcDay' = utcDay + 1
  /\ UNCHANGED <<on, answers, installId, ids, ledger, beats, sent, twice, former, collided>>

Steps(p, changes) == beats' = [beats EXCEPT ![p] = changes]
OnItsWay(p) == beats[p].step \in {"lock", "ledger", "mark", "id", "make", "send"}
Forgetting(p) == beats[p].step \in {"forget", "forget ledger"}
Locked == \E p \in Process : beats[p].step \in {"ledger", "mark", "id", "make", "send"}
Rest == <<on, answers, utcDay>>

(* beat: on or off, as it is read once.                                                                  *)
Beat(p) ==
  /\ beats[p].step = "wait" /\ Steps(p, [Waiting EXCEPT !.step = IF on THEN "lock" ELSE "forget"])
  /\ collided' = (collided \/ (on /\ \E q \in Process : Forgetting(q)))
  /\ UNCHANGED <<Rest, installId, ids, ledger, sent, twice, former>>

(* forget: the id, and then the ledger; without the lock.                                                *)
ForgetId(p) ==
  /\ beats[p].step = "forget" /\ installId' = 0 /\ Steps(p, [Waiting EXCEPT !.step = "forget ledger"])
  /\ collided' = (collided \/ \E q \in Process : OnItsWay(q))
  /\ UNCHANGED <<Rest, ids, ledger, sent, twice, former>>
ForgetLedger(p) ==
  /\ beats[p].step = "forget ledger" /\ ledger' = 0 /\ Steps(p, Waiting)
  /\ collided' = (collided \/ \E q \in Process : OnItsWay(q)) /\ former' = former \cup 1..ids
  /\ UNCHANGED <<Rest, installId, ids, sent, twice>>

(* one_sender: who does not get the lock at once lets the beat pass.                                     *)
\* Mutant: nobody looks at the lock.
LockNever(p) ==
  /\ beats[p].step = "lock" /\ Steps(p, [beats[p] EXCEPT !.step = "ledger"])
  /\ UNCHANGED <<Rest, installId, ids, ledger, sent, twice, former, collided>>

Lock(p) ==
  /\ beats[p].step = "lock"
  /\ Steps(p, IF HasFlock /\ Locked THEN Waiting ELSE [beats[p] EXCEPT !.step = "ledger"])
  /\ UNCHANGED <<Rest, installId, ids, ledger, sent, twice, former, collided>>

(* tick: the day is written down before the signal goes; the id is made where there is none.             *)
ReadLedger(p) ==
  /\ beats[p].step = "ledger"
  /\ Steps(p, IF ledger = utcDay THEN Waiting ELSE [beats[p] EXCEPT !.step = "mark", !.day = utcDay])
  /\ UNCHANGED <<Rest, installId, ids, ledger, sent, twice, former, collided>>
MarkLedger(p) ==
  /\ beats[p].step = "mark" /\ ledger' = beats[p].day /\ Steps(p, [beats[p] EXCEPT !.step = "id"])
  /\ UNCHANGED <<Rest, installId, ids, sent, twice, former, collided>>
ReadId(p) ==
  /\ beats[p].step = "id"
  /\ Steps(p, IF installId # 0 THEN [beats[p] EXCEPT !.step = "send", !.id = installId]
              ELSE [beats[p] EXCEPT !.step = "make"])
  /\ UNCHANGED <<Rest, installId, ids, ledger, sent, twice, former, collided>>
MakeId(p) ==
  /\ beats[p].step = "make" /\ ids < MaxIds /\ ids' = ids + 1 /\ installId' = ids + 1
  /\ Steps(p, [beats[p] EXCEPT !.step = "send", !.id = ids + 1])
  /\ UNCHANGED <<Rest, ledger, sent, twice, former, collided>>
Send(p) ==
  /\ beats[p].step = "send" /\ Steps(p, Waiting)
  /\ sent' = sent \cup {<<beats[p].id, beats[p].day>>}
  /\ twice' = (twice \/ \E x \in sent : x[2] = beats[p].day /\ (x[1] = beats[p].id \/ x[1] \notin former))
  /\ UNCHANGED <<Rest, installId, ids, ledger, former, collided>>

(* A send that fails is dropped; a file that cannot be written, and the end of the process, leave what    *)
(* was written until then.                                                                                *)
Drop(p) ==
  /\ beats[p].step # "wait" /\ Steps(p, Waiting)
  /\ UNCHANGED <<Rest, installId, ids, ledger, sent, twice, former, collided>>

SignalNext ==
  \/ Answer \/ NextDay
  \/ \E p \in Process : \/ Beat(p) \/ ForgetId(p) \/ ForgetLedger(p) \/ Lock(p) \/ ReadLedger(p)
                        \/ MarkLedger(p) \/ ReadId(p) \/ MakeId(p) \/ Send(p) \/ Drop(p)
SignalSpec == SignalInit /\ [][SignalNext]_signalVars

(* docs/reference/install-signal.md: once a day, however many servers run, of one install; not where      *)
(* there are no locks, or when one forgets while another sends.                                           *)
OnceADay == twice => collided \/ ~HasFlock

(* docs/reference/install-signal.md: "the next server to run deletes the id and the ledger, so a later    *)
(* yes makes a new install".                                                                              *)
NewInstall == installId \in former => collided

(* What a machine sends about itself (install_signal.py).                                                *)
SignalInv == OnceADay /\ NewInstall
=============================================================================
