----------------------------- MODULE MCRequests -----------------------------
(* Small instances of Access, Support, RateLimits and Lifecycle.  They share no variable: a behaviour of *)
(* this module is one of one of them (part), and the others stay where they began.                       *)
EXTENDS Access, Support, RateLimits, Lifecycle, TLC

CONSTANTS home, team, ann, key, readKey, token, namedToken, proxied, s1

VARIABLE part

(* What ann holds: a device's key that may only read, a key that may write, a token for her vault, one   *)
(* issued for the address of the other, and what a proxy says of her.                                    *)
Holds(kind, vault, scopes, purpose, named) ==
  [kind |-> kind, account |-> ann, vault |-> vault, scopes |-> scopes, purpose |-> purpose, named |-> named]
MCCredOf ==
  (readKey :> Holds("key", team, {"read"}, "machine", FALSE)) @@
  (key :> Holds("key", team, {"read", "write"}, "api", FALSE)) @@
  (token :> Holds("token", team, {"read", "write"}, "api", FALSE)) @@
  (namedToken :> Holds("token", home, {"read", "write"}, "api", TRUE)) @@
  (proxied :> Holds("forwarded", Nothing, {"read", "write"}, "api", FALSE))

MCAhead == [s \in Server |-> IF s = s1 THEN 1 ELSE 0]

CONSTANTS t1, t2, a1, lg

MCFolderOf == (t1 :> "Projects") @@ (t2 :> "Projects") @@ (a1 :> "Archive") @@ (lg :> "Log")

(* The default layout, and what people make of it: no tasks; no archive, and the log among the tasks;     *)
(* strict tags, priorities without low and a field that few notes have; one without a status the tools    *)
(* write; and one that is no schema.                                                                      *)
Default ==
  [sound |-> TRUE, order |-> <<"Projects", "Log", "Archive">>,
   kindOf |-> ("Projects" :> "task") @@ ("Log" :> "log") @@ ("Archive" :> "archive"),
   logFolder |-> NoFolder, backlogFolder |-> NoFolder, areaIn |-> {"Projects", "Log"},
   statuses |-> {"draft", "active", "backlog", "complete", "superseded"}, kinds |-> {"task", "log"},
   priorities |-> {"high", "low"}, required |-> {"tags"}, strict |-> FALSE, vocabulary |-> {}]
NoTasks ==
  [Default EXCEPT !.kindOf["Projects"] = "reference", !.statuses = {"complete", "superseded"}, !.kinds = {"log"}]
NoArchive == [Default EXCEPT !.kindOf["Archive"] = "reference", !.logFolder = "Projects"]
Strict == [Default EXCEPT !.strict = TRUE, !.vocabulary = {"area"}, !.required = {"summary"}, !.priorities = {"high"}]
NoBacklog == [Default EXCEPT !.statuses = {"active", "complete", "superseded"}]
Garbled == [Default EXCEPT !.sound = FALSE]
MCLayouts == {Default, NoTasks, NoArchive, Strict, NoBacklog, Garbled}

HandWrite(status, tag, lacks, parses) ==
  [status |-> status, kind |-> "task", priority |-> Plain, tag |-> tag, lacks |-> lacks, claim |-> NoClaim,
   updated |-> 0, parses |-> parses]
MCHandWritten == {HandWrite("active", "area", {}, TRUE), HandWrite("active", "repo", {}, FALSE)}

(* One beginning of each, for the behaviours of the others. *)
AccessAside ==
  /\ AccessInit
  /\ \A v \in Vault : Now.owner[v] = ann /\ Now.members = {} /\ (v = home <=> Now.slug[v] = "home")
SupportAside == SupportInit /\ holder = ann
RateAside == RateInit /\ sharing = {}
LifecycleAside == LifecycleInit /\ file = Preset /\ \A p \in Path : notes[p] = NoNote

(* The two addresses are alike: it is enough to begin with one of them for home.  Of three servers at most *)
(* two share the counts: one alone, two whose clocks agree, or one of them ahead.                          *)
MCInit ==
  \/ part = "access" /\ AccessInit /\ Now.slug[home] = "home" /\ SupportAside /\ RateAside /\ LifecycleAside
  \/ part = "support" /\ SupportInit /\ AccessAside /\ RateAside /\ LifecycleAside
  \/ part = "rates" /\ RateInit /\ sharing # Server /\ AccessAside /\ SupportAside /\ LifecycleAside
  \/ part = "lifecycle" /\ LifecycleInit /\ AccessAside /\ SupportAside /\ RateAside

MCNext ==
  \/ part = "access" /\ AccessNext /\ UNCHANGED <<part, supportVars, rateVars, lifecycleVars>>
  \/ part = "support" /\ SupportNext /\ UNCHANGED <<part, accessVars, rateVars, lifecycleVars>>
  \/ part = "rates" /\ RateNext /\ UNCHANGED <<part, accessVars, supportVars, lifecycleVars>>
  \/ part = "lifecycle" /\ LifecycleNext /\ UNCHANGED <<part, accessVars, supportVars, rateVars>>

MCSpec == MCInit /\ [][MCNext]_<<part, accessVars, supportVars, rateVars, lifecycleVars>>
=============================================================================
