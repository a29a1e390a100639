------------------------------ MODULE Upstream ------------------------------
(* The stdio server of a machine whose vault is on a server (proxy.py): one task owns the connection,     *)
(* and the requests of the client share it.  A request that fails asks that task for another connection   *)
(* and is made once more.  Tasks take turns at awaits only, and wait for each other with events; an       *)
(* event is replaced by a new one where it is used again.                                                 *)
EXTENDS Naturals, FiniteSets

CONSTANTS
  Request,
  MaxConnections     \* bound
ASSUME UpstreamAssumption == MaxConnections \in Nat

VARIABLES
  link,       \* what the supervising task does : connecting, up, closing, idle
  remote,     \* the connection that requests are to use; 0 is none
  made,       \* the connections made
  ready,      \* the event that requests wait for : [number, set]
  abandoned,  \* the events replaced before they were set
  reconnect,  \* whether the event that the supervising task waits for is set
  requests    \* each request : [at, event, remote, applied]
upstreamVars == <<link, remote, made, ready, abandoned, reconnect, requests>>

Waits(at, event, applied) == [at |-> at, event |-> event, remote |-> 0, applied |-> applied]

UpstreamInit ==
  /\ link = "connecting" /\ remote = 0 /\ made = 0 /\ ready = [number |-> 0, set |-> FALSE] /\ abandoned = {}
  /\ reconnect = FALSE /\ requests = [r \in Request |-> Waits("away", 0, 0)]

(* settle.                                                                                                *)
Settle(connection, next) ==
  /\ remote' = connection /\ reconnect' = FALSE /\ ready' = [ready EXCEPT !.set = TRUE] /\ link' = next
  /\ UNCHANGED <<abandoned, requests>>

(* supervise.  A connection may break, and closing one may fail: then there is none, and nobody makes one *)
(* before it is asked for.                                                                                *)
Connects ==
  /\ link = "connecting" /\ made < MaxConnections /\ made' = made + 1 /\ Settle(made + 1, "up")
ConnectFails == link = "connecting" /\ UNCHANGED made /\ Settle(0, "idle")
Breaks == link \in {"up", "closing"} /\ UNCHANGED made /\ Settle(0, "idle")
Reconnects ==
  /\ reconnect /\ link \in {"up", "idle"} /\ link' = IF link = "up" THEN "closing" ELSE "connecting"
  /\ UNCHANGED <<remote, made, ready, abandoned, reconnect, requests>>
Closed ==
  /\ link = "closing" /\ link' = "connecting"
  /\ UNCHANGED <<remote, made, ready, abandoned, reconnect, requests>>

(* ask_again, and the event that the request then waits for.                                              *)
\* Mutant: the event is replaced though another request has done so.
AskAgainAlways(r, applied) ==
  /\ reconnect' = TRUE /\ ready' = [number |-> ready.number + 1, set |-> FALSE]
  /\ abandoned' = IF ready.set THEN abandoned ELSE abandoned \cup {ready.number}
  /\ requests' = [requests EXCEPT ![r] = Waits("again", ready.number + 1, applied)]

AskAgain(r, applied) ==
  /\ reconnect' = TRUE
  /\ IF reconnect THEN UNCHANGED <<ready, abandoned>>
     ELSE /\ ready' = [number |-> ready.number + 1, set |-> FALSE]
          /\ abandoned' = IF ready.set THEN abandoned ELSE abandoned \cup {ready.number}
  /\ requests' = [requests EXCEPT ![r] =
       Waits("again", IF reconnect THEN ready.number ELSE ready.number + 1, applied)]

Passes(r) ==
  IF requests[r].event = ready.number THEN ready.set ELSE requests[r].event \notin abandoned
Moves(r, changes) ==
  /\ requests' = [requests EXCEPT ![r] = changes]
  /\ UNCHANGED <<remote, made, ready, abandoned, reconnect, link>>

(* use; the client is served from the first connection on.                                               *)
Arrive(r) ==
  /\ requests[r].at = "away" /\ made > 0
  /\ Moves(r, [requests[r] EXCEPT !.at = "use", !.event = ready.number])
Use(r) ==
  /\ requests[r].at = "use" /\ Passes(r)
  /\ IF remote # 0 THEN Moves(r, [requests[r] EXCEPT !.at = "first", !.remote = remote])
     ELSE AskAgain(r, requests[r].applied) /\ UNCHANGED <<remote, made, link>>

(* An answer that came is taken at the task's turn, and a request may fail at any time, carried out or    *)
(* not.                                                                                                   *)
Answers(r) ==
  /\ requests[r].at \in {"first", "second"}
  /\ Moves(r, [requests[r] EXCEPT !.at = "answered", !.applied = @ + 1])
Fails(r) == \E applied \in {requests[r].applied, requests[r].applied + 1} :
  /\ requests[r].at = "first"
  /\ IF remote # requests[r].remote
     THEN Moves(r, Waits("use", ready.number, applied))
     ELSE AskAgain(r, applied) /\ UNCHANGED <<remote, made, link>>
Again(r) ==
  /\ requests[r].at = "again" /\ Passes(r)
  /\ Moves(r, [requests[r] EXCEPT !.at = IF remote # 0 THEN "second" ELSE "failed", !.remote = remote])
FailsAgain(r) == \E applied \in {requests[r].applied, requests[r].applied + 1} :
  /\ requests[r].at = "second" /\ Moves(r, [requests[r] EXCEPT !.at = "failed", !.applied = applied])

UpstreamNext ==
  \/ Connects \/ ConnectFails \/ Breaks \/ Reconnects \/ Closed
  \/ \E r \in Request : Arrive(r) \/ Use(r) \/ Answers(r) \/ Fails(r) \/ Again(r) \/ FailsAgain(r)
UpstreamSpec == UpstreamInit /\ [][UpstreamNext]_upstreamVars

(* No request waits for an event that nobody will set: the task is at work, or has been asked to be.      *)
NobodyForgotten == \A r \in Request :
  requests[r].at \in {"use", "again"} => Passes(r) \/ (requests[r].event = ready.number
                                                       /\ (link \in {"connecting", "closing"} \/ reconnect))

(* While the event is set, what requests find is what the task holds: an open connection, or none.        *)
FindsWhatIsThere == ready.set => ~reconnect /\ (IF remote # 0 THEN link = "up" ELSE link = "idle")

(* A request that is carried out more than once has lost an answer each time, and a connection with all   *)
(* but the last of them.                                                                                  *)
RepeatedOverNewOnes == \A r \in Request : requests[r].applied <= made

(* How the requests of a client share a connection (proxy.py).                                            *)
UpstreamInv == NobodyForgotten /\ FindsWhatIsThere /\ RepeatedOverNewOnes
=============================================================================
