----------------------------- MODULE EmbedWorker -----------------------------
(***************************************************************************)
(* The embedding worker a machine's processes share (embed_worker.py) and  *)
(* how they reach it (SharedEmbedder in embedding.py): a process connects  *)
(* to a socket, starts a worker under a lock when none answers, and asks   *)
(* once more when the worker goes away; a worker that has been idle        *)
(* closes its socket and removes it, under the same lock, unless another   *)
(* worker answers there.                                                   *)
(*                                                                         *)
(* Clients may want different versions of the worker: one that finds the   *)
(* other's stops it.  What is embedded is left out, and so are queries     *)
(* that give up waiting, and the worker that listens on TCP.               *)
(***************************************************************************)
EXTENDS Naturals, FiniteSets

CONSTANTS
  Client,
  Release,      \* versions of the program, as numbers
  MaxWorkers,   \* bound: workers ever started
  MaxRequests,  \* bound: requests of each client
  MaxKills,     \* bound: workers killed
  NoOneAt

ASSUME EmbedAssumption ==
  /\ Release \subseteq Nat \ {0} /\ {MaxWorkers, MaxRequests, MaxKills} \subseteq Nat
  /\ NoOneAt \notin Client

Worker == 1..MaxWorkers

VARIABLES
  wants,             \* the version each client is of, and wants the worker to be of
  started, worker,   \* workers started; each: "listening", "leaving" (its listener is closed), "gone"; its version
  stopping,          \* workers told to stop
  socket,            \* the worker whose socket the path names, or 0
  lock,              \* who holds the machine lock: a client, or NoOneAt (a worker holds it for one step)
  client,            \* what each client is at, and the worker it is connected to
  accepted,          \* clients whose connection their worker has accepted
  asked, failed,     \* requests begun, and requests that found no worker twice
  kills

embedVars == <<wants, started, worker, stopping, socket, lock, client, accepted, asked, failed, kills>>
workerVars == <<wants, started, worker, stopping, socket>>

NotStarted == [state |-> "none", version |-> 0, idle |-> FALSE]
Rest == [step |-> "none", at |-> 0, tries |-> 0]

EmbedInit ==
  /\ wants \in [Client -> Release] /\ started = 0 /\ worker = [w \in Worker |-> NotStarted]
  /\ stopping = {} /\ socket = 0
  /\ lock = NoOneAt /\ client = [c \in Client |-> Rest] /\ accepted = {}
  /\ asked = [c \in Client |-> 0] /\ failed = {} /\ kills = 0

-----------------------------------------------------------------------------
Listening == {w \in Worker : worker[w].state = "listening"}
Answers == socket \in Listening       \* a connection to the path succeeds
ConnectedTo(w) == {c \in Client : client[c].at = w}

Step(c, step) == client' = [client EXCEPT ![c].step = step]
Starting == {"spawn", "open started", "hello started"}
Connects(c, step) == client' = [client EXCEPT ![c] = [@ EXCEPT !.step = step, !.at = IF Answers THEN socket ELSE 0]]

(* A request of passages or of a query: _request. *)
Ask(c) ==
  /\ client[c].step = "none" /\ asked[c] < MaxRequests
  /\ asked' = [asked EXCEPT ![c] = @ + 1]
  /\ client' = [client EXCEPT ![c] = [step |-> "open", at |-> 0, tries |-> 2]]
  /\ UNCHANGED <<workerVars, lock, accepted, failed, kills>>

(* _open: it connects if somebody listens, and waits for the hello. *)
Open(c) ==
  /\ client[c].step \in {"open", "open locked", "open started"}
  /\ Connects(c, CASE client[c].step = "open" -> "hello" [] client[c].step = "open locked" -> "hello locked"
                   [] client[c].step = "open started" -> "hello started")
  /\ UNCHANGED <<workerVars, lock, accepted, asked, failed, kills>>

(* accept and the worker's hello. *)
Accept(w) ==
  /\ w \in Listening /\ w \notin stopping
  /\ \E c \in ConnectedTo(w) \ accepted : accepted' = accepted \cup {c}
  /\ worker' = [worker EXCEPT ![w].idle = FALSE]
  /\ UNCHANGED <<wants, started, stopping, socket, lock, client, asked, failed, kills>>

Matches(c) == c \in accepted /\ worker[client[c].at].version = wants[c]
NoAnswer(c) == client[c].at = 0

(* _connect: a worker of its own version is asked; otherwise one is started. *)
Greeted(c) ==
  /\ client[c].step = "hello"
  /\ \/ Matches(c) /\ Step(c, "asked") /\ UNCHANGED accepted
     \/ /\ NoAnswer(c) \/ (c \in accepted /\ ~Matches(c))
        /\ client' = [client EXCEPT ![c].step = "start", ![c].at = 0] /\ accepted' = accepted \ {c}
  /\ UNCHANGED <<workerVars, lock, asked, failed, kills>>

(* _start, under the lock: it looks again. *)
Lock(c) ==
  /\ client[c].step = "start" /\ lock = NoOneAt
  /\ lock' = c /\ Step(c, "open locked")
  /\ UNCHANGED <<workerVars, accepted, asked, failed, kills>>

GreetedLocked(c) ==
  /\ client[c].step = "hello locked"
  /\ \/ Matches(c) /\ Step(c, "asked") /\ lock' = NoOneAt /\ UNCHANGED <<stopping, accepted>>
     \/ NoAnswer(c) /\ Step(c, "spawn") /\ UNCHANGED <<stopping, accepted, lock>>
     \/ /\ c \in accepted /\ ~Matches(c)
        /\ stopping' = stopping \cup {client[c].at}
        /\ client' = [client EXCEPT ![c].step = "stop", ![c].at = 0] /\ accepted' = accepted \ {c}
        /\ UNCHANGED lock
  /\ UNCHANGED <<wants, started, worker, socket, asked, failed, kills>>

(* _stop: until nobody answers, or for so long; then the worker is told again, by a signal, and left. *)
Stopped(c) ==
  /\ client[c].step = "stop" /\ Step(c, "spawn")
  /\ UNCHANGED <<workerVars, lock, accepted, asked, failed, kills>>

(* _spawn and daemonize: bind removes the path and binds its own socket there. *)
Spawn(c) ==
  /\ client[c].step = "spawn" /\ started < MaxWorkers
  /\ started' = started + 1
  /\ worker' = [worker EXCEPT ![started + 1] = [state |-> "listening", version |-> wants[c], idle |-> FALSE]]
  /\ socket' = started + 1
  /\ Step(c, "open started")
  /\ UNCHANGED <<wants, stopping, lock, accepted, asked, failed, kills>>

GreetedStarted(c) ==
  /\ client[c].step = "hello started"
  /\ \/ Matches(c) /\ Step(c, "asked") /\ UNCHANGED failed
     \/ /\ NoAnswer(c) \/ (c \in accepted /\ ~Matches(c))
        /\ client' = [client EXCEPT ![c] = Rest] /\ failed' = failed \cup {c}
  /\ accepted' = IF Matches(c) THEN accepted ELSE accepted \ {c}
  /\ lock' = NoOneAt
  /\ UNCHANGED <<workerVars, asked, kills>>

(* The worker answers, and the connection is closed. *)
Answered(c) ==
  /\ client[c].step = "asked" /\ c \in accepted
  /\ client' = [client EXCEPT ![c] = Rest] /\ accepted' = accepted \ {c}
  /\ UNCHANGED <<workerVars, lock, asked, failed, kills>>

\* Mutant: a connection that goes away fails its request at once.
GivesUpAtOnce(c) ==
  /\ client[c].step = "asked" /\ c \notin accepted
  /\ client' = [client EXCEPT ![c] = Rest] /\ failed' = failed \cup {c}
  /\ UNCHANGED <<workerVars, lock, accepted, asked, kills>>

(* The connection is gone before the answer: twice, and the request fails. *)
WentAway(c) ==
  /\ client[c].step = "asked" /\ c \notin accepted
  /\ \/ /\ client[c].tries > 1
        /\ client' = [client EXCEPT ![c] = [step |-> "open", at |-> 0, tries |-> @.tries - 1]] /\ UNCHANGED failed
     \/ client[c].tries = 1 /\ client' = [client EXCEPT ![c] = Rest] /\ failed' = failed \cup {c}
  /\ UNCHANGED <<workerVars, lock, accepted, asked, kills>>

-----------------------------------------------------------------------------
(* The connections of a worker that closes its listener or goes are cut: all of them, or those it had
   not accepted. *)
Cut(cs) ==
  /\ client' = [c \in Client |-> IF c \in cs THEN [client[c] EXCEPT !.at = 0] ELSE client[c]]
  /\ accepted' = accepted \ cs

(* idle_seconds without a connection: far longer than a client takes to start a worker and greet it. *)
GrowsIdle(w) ==
  /\ w \in Listening /\ ~worker[w].idle /\ ConnectedTo(w) = {} /\ ~\E c \in Client : client[c].step \in Starting
  /\ worker' = [worker EXCEPT ![w].idle = TRUE]
  /\ UNCHANGED <<wants, started, stopping, socket, lock, client, accepted, asked, failed, kills>>

(* serve: after a while without a connection a worker that is idle, or that is stopping, leaves its
   loop and closes its listener.  A connection may be waiting to be accepted, for all that. *)
Leave(w) ==
  /\ w \in Listening /\ (worker[w].idle \/ w \in stopping)
  /\ worker' = [worker EXCEPT ![w].state = "leaving"]
  /\ Cut(ConnectedTo(w) \ accepted)
  /\ UNCHANGED <<wants, started, stopping, socket, lock, asked, failed, kills>>

(* Then, under the lock, it removes the path unless somebody answers there, and the process ends. *)
Unlink(w) ==
  /\ worker[w].state = "leaving" /\ lock = NoOneAt
  /\ socket' = IF Answers THEN socket ELSE 0
  /\ worker' = [worker EXCEPT ![w].state = "gone"] /\ Cut(ConnectedTo(w))
  /\ UNCHANGED <<wants, started, stopping, lock, asked, failed, kills>>

(* A worker dies, though not while a client waits for it to start, which is an error told as such. *)
KilledWorker(w) ==
  /\ kills < MaxKills /\ kills' = kills + 1 /\ ~\E c \in Client : client[c].step \in Starting
  /\ worker[w].state \in {"listening", "leaving"}
  /\ worker' = [worker EXCEPT ![w].state = "gone"] /\ Cut(ConnectedTo(w))
  /\ UNCHANGED <<wants, started, stopping, socket, lock, asked, failed>>

-----------------------------------------------------------------------------
ClientGoes(c) ==
  \/ Open(c) \/ Greeted(c) \/ Lock(c) \/ GreetedLocked(c) \/ Stopped(c) \/ Spawn(c)
  \/ GreetedStarted(c) \/ Answered(c) \/ WentAway(c)

EmbedNext ==
  \/ \E c \in Client : Ask(c) \/ ClientGoes(c)
  \/ \E w \in Worker : Accept(w) \/ Unlink(w) \/ GrowsIdle(w) \/ Leave(w) \/ KilledWorker(w)

EmbedSpec == EmbedInit /\ [][EmbedNext]_embedVars

-----------------------------------------------------------------------------
EmbedTypeOK ==
  /\ wants \in [Client -> Release]
  /\ started \in 0..MaxWorkers
  /\ worker \in [Worker -> [state : {"none", "listening", "leaving", "gone"}, version : {0} \cup Release,
                           idle : BOOLEAN]]
  /\ stopping \subseteq Worker /\ socket \in 0..MaxWorkers /\ lock \in Client \cup {NoOneAt}
  /\ client \in [Client -> [step : {"none", "open", "hello", "start", "open locked", "hello locked", "stop", "spawn",
                                    "open started", "hello started", "asked"},
                            at : 0..MaxWorkers, tries : 0..2]]
  /\ accepted \subseteq Client /\ asked \in [Client -> 0..MaxRequests] /\ failed \subseteq Client
  /\ kills \in 0..MaxKills

(* No worker stays where no client can find it: the path names every one that listens and was not told
   to stop, and so there is one at most, however starts and departures fall together. *)
NoneHidden == \A w \in Listening \ stopping : socket = w

(* Clients of one version that share a worker get their answers, over the loss of one worker. *)
OneLossSurvived == (\A c, d \in Client : wants[c] = wants[d]) /\ kills <= 1 => failed = {}
(* No worker is out of its clients' reach, and the loss of one is made good. *)
WorkerInv == EmbedTypeOK /\ NoneHidden /\ OneLossSurvived
=============================================================================
