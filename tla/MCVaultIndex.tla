---------------------------- MODULE MCVaultIndex ----------------------------
(* The runs of VaultIndex: two schema texts in two languages, and a server *)
(* whose behaviours are of two kinds, as one run checks them both: tool    *)
(* calls in turns, with failed requests and a restart, or calls and a      *)
(* layout page that overlap.                                               *)
EXTENDS VaultIndex

CONSTANTS plain, other, t1, t2

MCBody == {plain, other}
MCLanguage == {"en", "sv"}
MCLanguageOf == [b \in MCBody |-> IF b = plain THEN "en" ELSE "sv"]
PlainOrGone == {plain, Absent}

VARIABLE part

mcvars == <<vars, part>>

Allowed ==
  /\ UNCHANGED part
  /\ part = "turns" => /\ job'[t2].pc = "idle"
                       /\ \A t \in Web : job'[t].pc \in {"idle", "mark"}
  /\ part = "overlap" => writes' <= 1 /\ failures' = 0 /\ restarts' = 0
                         /\ (store'[Schema] = store[Schema] \/ store'[Schema].text = other)

MCInit == Init /\ part \in {"turns", "overlap"}
MCNext == Next /\ Allowed

MCSpec == MCInit /\ [][MCNext]_mcvars

(* The fairness of FairSpec. *)
MCFairSpec ==
  /\ MCSpec
  /\ \A t \in Tool \cup Web : WF_mcvars(Continue(t) /\ Allowed)
  /\ \A t \in Tool : WF_mcvars(Search(t) /\ Allowed)
  /\ WF_mcvars(Tick /\ Allowed)

(* While tool calls come one after another the vault ends on the schema    *)
(* that is stored, with every row stemmed in its languages (Vault.sync,    *)
(* reload_schema), whatever failed and wherever the server was killed.     *)
SettlesInTurns == part = "turns" => SchemaFollows /\ RowsRestemmed
=============================================================================
