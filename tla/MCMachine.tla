------------------------------ MODULE MCMachine ------------------------------
(* Small instances of what runs on the user's machine: ChangeLog, StopHook, LocalConfig, InstallSignal    *)
(* and Upstream.  They share no variable: a behaviour of this module is one of one of them (part), and    *)
(* the others stay where they began.                                                                      *)
EXTENDS ChangeLog, StopHook, LocalConfig, InstallSignal, Upstream, TLC

CONSTANTS w1, w2, s1, s2, c1, c2, p1, p2, q1, q2, home, work

VARIABLE part

MCInit ==
  /\ part \in {"pages", "hooks", "config", "signal", "upstream"}
  /\ ChangeLogInit /\ StopInit /\ ConfigInit /\ SignalInit /\ UpstreamInit
  /\ part # "hooks" => ~onServer
  /\ part # "pages" => inOneRequest

MCNext ==
  /\ UNCHANGED part
  /\ \/ part = "pages" /\ ChangeLogNext /\ UNCHANGED <<stopVars, configVars, signalVars, upstreamVars>>
     \/ part = "hooks" /\ StopNext /\ UNCHANGED <<changeLogVars, configVars, signalVars, upstreamVars>>
     \/ part = "config" /\ ConfigNext /\ UNCHANGED <<changeLogVars, stopVars, signalVars, upstreamVars>>
     \/ part = "signal" /\ SignalNext /\ UNCHANGED <<changeLogVars, stopVars, configVars, upstreamVars>>
     \/ part = "upstream" /\ UpstreamNext /\ UNCHANGED <<changeLogVars, stopVars, configVars, signalVars>>

MCSpec == MCInit /\ [][MCNext]_<<part, changeLogVars, stopVars, configVars, signalVars, upstreamVars>>

(* Writers, sessions, commands, processes, requests and slugs are alike; a behaviour has one of the five  *)
(* kinds only, so that exchanging all but the slugs at once is one symmetry, and the slugs are another.   *)
Alike == {{w1, w2}, {s1, s2}, {c1, c2}, {p1, p2}, {q1, q2}}
Slugs == {home, work}
Swapped(x) == CHOOSE y \in UNION (Alike \cup {Slugs}) : x # y /\ {x, y} \in Alike \cup {Slugs}
Symmetric == {[x \in UNION Alike \cup Slugs |-> IF kind[(x \in Slugs)] THEN Swapped(x) ELSE x] :
                kind \in [BOOLEAN -> BOOLEAN]}
=============================================================================
