------------------------------ MODULE StopHook -------------------------------
(* The hooks of Claude Code on one machine: what session-start remembers, and the stop hook, which holds  *)
(* a session back that left commits unlogged, a stale note it touched open, or messages of its user       *)
(* unsaved.  Every hook is a process of its own; what they remember between them is a file that each     *)
(* reads whole and writes whole, or rows of the index and a smaller such file where the vault is local.   *)
EXTENDS Naturals, FiniteSets

CONSTANTS
  Session, Hook, Repo, NoSession,
  Threshold,     \* VAULT_STOP_HOOK_PROMPTS
  AskedLimit,    \* ASKED_LIMIT: the sessions whose last asked message is kept
  MaxPrompts, FinalDay, MaxHooks, MaxFailures    \* bounds

ASSUME StopHookAssumption ==
  /\ Threshold \in Nat /\ AskedLimit \in Nat \ {0}
  /\ {MaxPrompts, FinalDay, MaxHooks, MaxFailures} \subseteq Nat

VARIABLES
  onServer,          \* whether the vault is on a server
  talk,            \* each session's transcript : [prompts, written, active]
  live,            \* the repos whose root is still there
  doc,             \* what the hooks remember : [asked, repos, ran]
  pages,           \* the day each repo's page of the month was last written
  today, hooks, failures,
  run,             \* each hook process : [kind, step, session, data, todo]
  heard, again,    \* the messages each session was asked about, and whether one was asked about one twice
  met, due,        \* the repos that session-start remembered, and those known when the day was marked last
  missed,          \* the last day on which writing the pages broke off
  lost             \* whether what one hook saved was written over by another, or pushed out of its memory
memory == <<doc, lost>>
ghosts == <<heard, again, met, due, missed>>
stopVars == <<onServer, talk, live, memory, pages, today, hooks, failures, run, ghosts>>

Idle == [kind |-> "none", step |-> "rest", session |-> NoSession, todo |-> {},
         data |-> [asked |-> [s \in Session |-> 0], repos |-> {}, ran |-> 0]]

StopInit ==
  /\ onServer \in BOOLEAN
  /\ talk = [s \in Session |-> [prompts |-> 0, written |-> 0, active |-> FALSE]]
  /\ live = Repo
  /\ doc = Idle.data /\ pages = [r \in Repo |-> 0] /\ today = 1 /\ hooks = 0 /\ failures = 0
  /\ run = [h \in Hook |-> Idle] /\ heard = [s \in Session |-> {}] /\ again = FALSE
  /\ met = {} /\ due = {} /\ missed = 0 /\ lost = FALSE

Around == <<onServer, memory, pages, today, hooks, failures, run, ghosts>>
Running(s) == \E h \in Hook : run[h].kind = "stop" /\ run[h].session = s

(* What goes on in the sessions: messages of the user, calls of vault tools; and days.                    *)
Prompt(s) ==
  /\ ~Running(s) /\ talk[s].prompts < MaxPrompts
  /\ talk' = [talk EXCEPT ![s].prompts = @ + 1, ![s].active = FALSE]
  /\ UNCHANGED <<Around, live>>
VaultWrite(s) ==
  /\ ~Running(s) /\ talk[s].written < talk[s].prompts
  /\ talk' = [talk EXCEPT ![s].written = talk[s].prompts] /\ UNCHANGED <<Around, live>>
RootGoes(r) == r \in live /\ live' = live \ {r} /\ UNCHANGED <<Around, talk>>
DayTurns ==
  /\ today < FinalDay /\ today' = today + 1
  /\ UNCHANGED <<onServer, talk, live, memory, pages, hooks, failures, run, ghosts>>

Free == CHOOSE h \in Hook : run[h].kind = "none"
Now(h, changes) == run' = [run EXCEPT ![h] = changes]
Still == <<onServer, talk, live, today, hooks>>

(* A save writes the file as this hook has it: what others saved since its read is gone.  A local vault   *)
(* keeps the repos and the day of the pages in rows of its index instead.                                 *)
Saves(h, data) == doc' = data /\ lost' = (lost \/ doc # run[h].data)
Sets(h, data, row) == IF onServer THEN Saves(h, data) ELSE doc' = row /\ UNCHANGED lost
Known(h) == IF onServer THEN run[h].data ELSE doc

(* session_start and remember_repo.                                                                       *)
StartBegins(h, r) ==
  /\ run[h].kind = "none" /\ h = Free /\ hooks < MaxHooks /\ hooks' = hooks + 1 /\ r \in live
  /\ Now(h, [run[h] EXCEPT !.kind = "start", !.step = "remember", !.data = doc, !.todo = {r}])
  /\ UNCHANGED <<onServer, talk, live, memory, pages, today, failures, ghosts>>
Remember(h) ==
  /\ run[h].step = "remember"
  /\ Sets(h, [run[h].data EXCEPT !.repos = @ \cup run[h].todo], [doc EXCEPT !.repos = @ \cup run[h].todo])
  /\ met' = met \cup run[h].todo
  /\ Now(h, Idle) /\ UNCHANGED <<Still, pages, failures, heard, again, due, missed>>

(* stop: a session that was held back once and stops again goes through.                                  *)
StopAgain(s) ==
  /\ talk[s].active /\ ~Running(s) /\ talk' = [talk EXCEPT ![s].active = FALSE]
  /\ UNCHANGED <<Around, live>>
StopBegins(h, s) ==
  /\ run[h].kind = "none" /\ h = Free /\ ~talk[s].active /\ ~Running(s) /\ hooks < MaxHooks /\ hooks' = hooks + 1
  /\ Now(h, [run[h] EXCEPT !.kind = "stop", !.step = "pages", !.session = s, !.data = doc])
  /\ UNCHANGED <<onServer, talk, live, memory, pages, today, failures, ghosts>>

(* refresh_month_pages: the day is written down before the pages are.                                     *)
MarkDay(h) ==
  /\ run[h].step = "pages"
  /\ IF Known(h).ran = today THEN Now(h, [run[h] EXCEPT !.step = "asked"]) /\ UNCHANGED <<memory, due>>
     ELSE /\ Sets(h, [run[h].data EXCEPT !.ran = today], [doc EXCEPT !.ran = today])
          /\ Now(h, [run[h] EXCEPT !.step = "live", !.data = IF onServer THEN doc' ELSE @])
          /\ due' = Known(h).repos
  /\ UNCHANGED <<Still, pages, failures, heard, again, met, missed>>

(* live_repos: a repo whose root is gone is forgotten.                                                    *)
LiveRepos(h) ==
  /\ run[h].step = "live"
  /\ IF Known(h).repos \subseteq live
     THEN Now(h, [run[h] EXCEPT !.step = "write", !.todo = Known(h).repos]) /\ UNCHANGED memory
     ELSE /\ Sets(h, [run[h].data EXCEPT !.repos = @ \cap live], [doc EXCEPT !.repos = @ \cap live])
          /\ Now(h, [run[h] EXCEPT !.step = "write", !.todo = Known(h).repos \cap live,
                                   !.data = IF onServer THEN doc' ELSE @])
  /\ UNCHANGED <<Still, pages, failures, ghosts>>

(* write_all and write_pages; a page that fails ends them for the day, and the hook goes on.              *)
WritePage(h) == \E r \in run[h].todo :
  /\ run[h].step = "write" /\ pages' = [pages EXCEPT ![r] = today]
  /\ Now(h, [run[h] EXCEPT !.todo = @ \ {r}])
  /\ UNCHANGED <<Still, memory, failures, ghosts>>
PagesDone(h) ==
  /\ run[h].step = "write" /\ run[h].todo = {} /\ Now(h, [run[h] EXCEPT !.step = "asked"])
  /\ UNCHANGED <<Still, memory, pages, failures, ghosts>>
PageFails(h) ==
  /\ run[h].step \in {"live", "write"} /\ failures < MaxFailures /\ failures' = failures + 1 /\ missed' = today
  /\ Now(h, [run[h] EXCEPT !.step = "asked", !.todo = {}])
  /\ UNCHANGED <<Still, memory, pages, heard, again, met, due>>

\* A hook ends early: the server does not answer, or Claude Code has waited long enough.
HookDies(h) ==
  /\ run[h].kind # "none" /\ failures < MaxFailures /\ failures' = failures + 1 /\ Now(h, Idle)
  /\ missed' = IF run[h].step \in {"live", "write"} THEN today ELSE missed
  /\ UNCHANGED <<Still, memory, pages, heard, again, met, due>>

(* A local vault's memory of what was asked is read here; a server's was read with the rest of its file.  *)
ReadAsked(h) ==
  /\ run[h].step = "asked"
  /\ Now(h, [run[h] EXCEPT !.step = "verdict", !.data = IF onServer THEN @ ELSE doc])
  /\ UNCHANGED <<Still, memory, pages, failures, ghosts>>

(* unsaved_prompts: those after the last vault write and after the last one asked about.                  *)
\* Mutant: what was asked about is asked about again.
UnsavedSinceWrite(s, before) == (talk[s].written + 1)..talk[s].prompts

Unsaved(s, before) ==
  IF before \in (talk[s].written + 1)..talk[s].prompts THEN (before + 1)..talk[s].prompts
  ELSE (talk[s].written + 1)..talk[s].prompts

(* AskedPrompts.remember: the last message of the sessions asked most lately, this one and some others.   *)
Others(data, s) == {t \in Session \ {s} : data.asked[t] # 0}
Room(data, s) == IF Cardinality(Others(data, s)) < AskedLimit THEN Cardinality(Others(data, s)) ELSE AskedLimit - 1
Asked(data, s, p, kept) ==
  [t \in Session |-> IF t = s THEN p ELSE IF t \in kept THEN data.asked[t] ELSE 0]

(* verdict; whether commits are unlogged, or a note that the session touched is open and stale, is left   *)
(* open here.                                                                                             *)
Verdict(h) ==
  LET s == run[h].session
      data == run[h].data
      prompts == Unsaved(s, data.asked[s])
      asks == Threshold > 0 /\ Cardinality(prompts) >= Threshold IN
  /\ run[h].step = "verdict"
  /\ IF asks
     THEN \E kept \in SUBSET Others(data, s) :
            /\ Cardinality(kept) = Room(data, s)
            /\ doc' = [(IF onServer THEN data ELSE doc) EXCEPT !.asked = Asked(data, s, talk[s].prompts, kept)]
            /\ lost' = (\/ lost \/ kept # Others(data, s)
                        \/ IF onServer THEN doc # data ELSE doc.asked # data.asked)
            /\ heard' = [heard EXCEPT ![s] = @ \cup prompts] /\ again' = (again \/ prompts \cap heard[s] # {})
     ELSE UNCHANGED <<memory, heard, again>>
  /\ \E unlogged \in BOOLEAN : talk' = [talk EXCEPT ![s].active = unlogged \/ asks]
  /\ Now(h, Idle) /\ UNCHANGED <<onServer, live, today, hooks, pages, failures, met, due, missed>>

StopNext ==
  \/ \E s \in Session : Prompt(s) \/ VaultWrite(s) \/ StopAgain(s)
  \/ DayTurns \/ \E r \in Repo : RootGoes(r)
  \/ \E h \in Hook : \/ Remember(h) \/ MarkDay(h) \/ LiveRepos(h) \/ WritePage(h) \/ PagesDone(h) \/ PageFails(h)
                     \/ HookDies(h) \/ ReadAsked(h) \/ Verdict(h)
                     \/ \E s \in Session : StopBegins(h, s) \/ \E r \in Repo : StartBegins(h, r)
StopSpec == StopInit /\ [][StopNext]_stopVars

(* docs/reference/hooks.md: a session is asked about a message once, unless hooks that ran at once, or    *)
(* many sessions, have lost what was asked.                                                               *)
AskedOnce == again => lost

(* A repo that session-start met is remembered as long as its root is there; the rows of a local vault    *)
(* remember it whatever else runs.                                                                        *)
ReposKept == \A r \in met \cap live : r \notin doc.repos => onServer /\ lost

(* Once the day is marked and no hook is still at it, the repos known then have their page, unless the    *)
(* writing broke off: then they wait for tomorrow.                                                        *)
PagesFollow ==
  /\ doc.ran = today /\ missed # today /\ \A h \in Hook : run[h].step \notin {"live", "write"}
  => \A r \in due \cap live : pages[r] = today

(* What the hooks of a machine keep between them (hooks.py, remote.py).                                   *)
StopInv == AskedOnce /\ ReposKept /\ PagesFollow
=============================================================================
