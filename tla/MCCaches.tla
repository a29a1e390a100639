------------------------------ MODULE MCCaches ------------------------------
(* Small instances of Snapshots and ServerCaches.  They share no variable: a behaviour of this module is *)
(* one of one of them (part), fair as that one is, and the other stays where it began.                   *)
EXTENDS Snapshots, ServerCaches

CONSTANTS w1, w2

VARIABLE part

MCKeyOf == [w \in Writer |-> w]

(* One beginning of ServerCaches, for the behaviours of Snapshots.  Nothing that is fair is enabled in the *)
(* beginning of Snapshots, so that its fairness asks nothing of the others.                               *)
CachesAside == CachesInit /\ \A w \in Writer : writing[w].here

MCInit ==
  \/ part = "snapshots" /\ SnapshotsInit /\ CachesAside
  \/ part = "caches" /\ CachesInit /\ SnapshotsInit

MCNext ==
  \/ part = "snapshots" /\ SnapshotsNext /\ UNCHANGED <<part, cachesVars>>
  \/ part = "caches" /\ CachesNext /\ UNCHANGED <<part, snapshotVars>>

MCFairness ==
  /\ SnapshotsFairness
  /\ WF_cachesVars(part = "caches" /\ SearchStep)
  /\ WF_cachesVars(part = "caches" /\ Age) /\ WF_cachesVars(part = "caches" /\ Unthrottle)

MCSpec == MCInit /\ [][MCNext]_<<part, snapshotVars, cachesVars>> /\ MCFairness
=============================================================================
