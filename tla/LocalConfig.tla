----------------------------- MODULE LocalConfig -----------------------------
(* What a machine remembers of where its vaults are: config.toml, the vault and the answer about usage    *)
(* data (places.py), and credentials.json, the keys of servers and buckets and which vault a folder uses  *)
(* (credentials.py).  Commands change them by reading a file, changing what they read, and putting a new  *)
(* file in its place; nothing holds two commands apart.                                                   *)
EXTENDS Naturals, FiniteSets

CONSTANTS
  Command,                  \* processes of the command line
  Url, Slug, Folder,
  Nowhere,                  \* no vault named, no folder
  MaxCommands, MaxKills     \* bounds

ASSUME LocalConfigAssumption ==
  /\ Nowhere \notin Slug \cup Folder /\ {"none", "folder", "s3"} \cap Url = {}
  /\ MaxCommands \in Nat /\ MaxKills \in Nat

VARIABLES
  config,      \* config.toml : [vault, signals]; a vault is none, a folder, a bucket or a server's url
  credentials, \* credentials.json : [servers, s3]
  proc,        \* each process : [does, url, slug, folder, step, state, whole, crossed]
  started, kills,
  chose,       \* the slugs that a command has chosen for a url, as default
  signedIn,    \* what was signed in to, and not signed out of since, as the commands answered
  unsigned,    \* the servers signed out of, or whose sign-in during setup came to nothing
  overlapped   \* whether a file was put in place of one that another command had put there meanwhile
configVars == <<config, credentials, proc, started, kills, chose, signedIn, unsigned, overlapped>>

Empty == [vaults |-> {}, default |-> Nowhere, dirs |-> [f \in Folder |-> Nowhere]]
AtRest == [does |-> "rest", url |-> Nowhere, slug |-> Nowhere, folder |-> Nowhere,
           step |-> "rest", whole |-> Nowhere, crossed |-> FALSE]

ConfigInit ==
  /\ config = [vault |-> "none", signals |-> "unasked"]
  /\ credentials = [servers |-> [u \in Url |-> Empty], s3 |-> FALSE]
  /\ proc = [c \in Command |-> AtRest] /\ started = 0 /\ kills = 0
  /\ chose = {} /\ signedIn = {} /\ unsigned = {} /\ overlapped = FALSE

Goes(c, changes) == proc' = [proc EXCEPT ![c] = changes]
Unwritten == <<config, credentials, chose, signedIn, unsigned, overlapped>>

(* The commands: setup, login, logout, vault use and vault drop.  A setup for a bucket stores the keys    *)
(* before the config names it; one for a server signs in after it does, unless there is a key.            *)
FirstStep(does) ==
  CASE does = "setup s3" -> "s3"
    [] does \in {"setup folder", "setup server", "signals"} -> "config"
    [] does = "login" -> "wait"
    [] OTHER -> "state"

(* What a command is told; setup runs in some folder.                                                     *)
Ways(does) ==
  [url : IF does \in {"setup s3", "setup folder", "signals"} THEN {Nowhere} ELSE Url,
   slug : IF does \in {"use", "use folder"} THEN Slug
          ELSE IF does \in {"login", "logout", "setup server"} THEN Slug \cup {Nowhere} ELSE {Nowhere},
   folder : IF does \in {"use folder", "drop"} THEN Folder
            ELSE IF does = "setup server" THEN Folder \cup {Nowhere} ELSE {Nowhere}]
Start(c) ==
  \E does \in {"setup s3", "setup folder", "setup server", "signals", "login", "logout", "use", "use folder",
               "drop"} : \E way \in Ways(does) :
    /\ proc[c].does = "rest" /\ started < MaxCommands /\ started' = started + 1
    /\ Goes(c, [AtRest EXCEPT !.does = does, !.step = FirstStep(does), !.url = way.url, !.slug = way.slug,
                              !.folder = way.folder])
    /\ UNCHANGED <<Unwritten, kills>>

(* device_login: the answer names the vault, if the server has names for them; or the sign-in is denied,  *)
(* expires, or the server is away.                                                                        *)
Granted(c) ==
  /\ proc[c].step = "wait"
  /\ \E s \in IF proc[c].slug = Nowhere THEN Slug \cup {Nowhere} ELSE {proc[c].slug} :
       Goes(c, [proc[c] EXCEPT !.step = "state", !.slug = s])
  /\ UNCHANGED <<Unwritten, started, kills>>
Refused(c) ==
  /\ proc[c].step = "wait" /\ Goes(c, AtRest)
  /\ unsigned' = IF proc[c].does = "setup server" THEN unsigned \cup {proc[c].url} ELSE unsigned
  /\ UNCHANGED <<config, credentials, chose, signedIn, overlapped, started, kills>>

(* vault_for and chosen: which vault of a server a command uses in a folder, and whose key.               *)
VaultFor(u, f) ==
  LET state == credentials.servers[u] IN
  IF f # Nowhere /\ state.dirs[f] # Nowhere THEN state.dirs[f] ELSE state.default
Chosen(u, f) ==
  LET vaults == credentials.servers[u].vaults IN
  IF VaultFor(u, f) # Nowhere THEN vaults \cap {VaultFor(u, f)}
  ELSE IF Nowhere \in vaults THEN {Nowhere} ELSE IF Cardinality(vaults) = 1 THEN vaults ELSE {}

(* What each command makes of the state of a server that it read.                                        *)
Saved(state, s) == [state EXCEPT !.vaults = @ \cup {s}, !.default = IF @ = Nowhere THEN s ELSE @]

\* Mutant: a forgotten vault stays the default.
ForgottenKeepingDefault(state, s) == IF s = Nowhere THEN Empty ELSE [state EXCEPT !.vaults = @ \ {s}]

Forgotten(state, s) ==
  IF s = Nowhere THEN Empty
  ELSE [state EXCEPT !.vaults = @ \ {s}, !.default = IF @ = s THEN Nowhere ELSE @]
Changed(p, state) ==
  CASE p.does \in {"login", "setup server"} -> Saved(state, p.slug)
    [] p.does = "logout" -> Forgotten(state, p.slug)
    [] p.does = "use" -> [state EXCEPT !.default = p.slug]
    [] p.does = "use folder" -> [state EXCEPT !.dirs[p.folder] = p.slug]
    [] p.does = "drop" -> [state EXCEPT !.dirs[p.folder] = Nowhere]
NothingToDo(p, state) ==
  \/ p.does = "logout" /\ (IF p.slug = Nowhere THEN state = Empty ELSE p.slug \notin state.vaults)
  \/ p.does = "drop" /\ state.dirs[p.folder] = Nowhere

(* A change reads the server's state, then the document with all servers and buckets, and puts a new      *)
(* document in its place.                                                                                 *)
ReadState(c) ==
  LET p == proc[c]
      state == credentials.servers[p.url] IN
  /\ p.step = "state"
  /\ IF NothingToDo(p, state) THEN Goes(c, AtRest)
     ELSE Goes(c, [p EXCEPT !.step = "document", !.whole = [credentials.servers EXCEPT ![p.url] = Changed(p, state)]])
  /\ UNCHANGED <<Unwritten, started, kills>>
ReadDocument(c) ==
  LET p == proc[c]
      servers == IF p.does = "logout" THEN p.whole ELSE [credentials.servers EXCEPT ![p.url] = p.whole[p.url]] IN
  /\ \/ p.step = "s3" /\ Goes(c, [p EXCEPT !.step = "replace", !.whole = [credentials EXCEPT !.s3 = TRUE]])
     \/ /\ p.step = "document"
        /\ Goes(c, [p EXCEPT !.step = "replace", !.whole = [credentials EXCEPT !.servers = servers]])
  /\ UNCHANGED <<Unwritten, started, kills>>

(* Who was at work on the same file meanwhile has been overtaken.                                         *)
Replaces(c, next, busy) ==
  /\ proc' = [d \in Command |->
       IF d = c THEN next ELSE [proc[d] EXCEPT !.crossed = @ \/ proc[d].step \in busy]]
  /\ overlapped' = (overlapped \/ proc[c].crossed)

Answered(p) ==
  CASE p.does \in {"login", "setup server"} -> signedIn \cup {<<p.url, p.slug>>}
    [] p.does = "logout" -> {x \in signedIn : x[1] # p.url \/ (p.slug # Nowhere /\ x[2] # p.slug)}
    [] OTHER -> signedIn
(* What a setup goes on with: the config once a bucket's keys are stored; the sign-in once the config     *)
(* names a server, unless it has the key it would use there; and the question about usage data.           *)
SignsIn(p) ==
  /\ p.does = "setup server"
  /\ Chosen(p.url, p.folder) = {} \/ (p.slug # Nowhere /\ p.slug # VaultFor(p.url, p.folder))
Then(p) ==
  {AtRest} \cup IF p.does \in {"setup s3", "setup folder", "setup server"}
               THEN {[AtRest EXCEPT !.does = "signals", !.step = "config"]} ELSE {}
ReplaceCredentials(c) ==
  LET p == proc[c] IN
  /\ p.step = "replace" /\ credentials' = p.whole
  /\ \E next \in IF p.does = "setup s3" THEN {[AtRest EXCEPT !.does = p.does, !.step = "config"]} ELSE Then(p) :
       Replaces(c, next, {"document", "replace"})
  /\ signedIn' = Answered(p)
  /\ chose' = IF p.does = "use" THEN chose \cup {<<p.url, p.slug>>} ELSE chose
  /\ unsigned' = IF p.does = "logout" THEN unsigned \cup {p.url} ELSE unsigned
  /\ UNCHANGED <<config, started, kills>>

ReadConfig(c) ==
  LET p == proc[c] IN
  /\ p.step = "config"
  /\ \E table \in CASE p.does = "signals" -> {[config EXCEPT !.signals = answer] : answer \in {"yes", "no"}}
                    [] p.does = "setup s3" -> {[config EXCEPT !.vault = "s3"]}
                    [] p.does = "setup folder" -> {[config EXCEPT !.vault = "folder"]}
                    [] p.does = "setup server" -> {[config EXCEPT !.vault = p.url]} :
       Goes(c, [p EXCEPT !.step = "write", !.whole = table])
  /\ UNCHANGED <<Unwritten, started, kills>>
WriteConfig(c) ==
  LET p == proc[c] IN
  /\ p.step = "write" /\ config' = p.whole
  /\ \E next \in IF SignsIn(p) THEN {[p EXCEPT !.step = "wait", !.whole = Nowhere]} ELSE Then(p) :
       Replaces(c, next, {"write"})
  /\ UNCHANGED <<credentials, started, kills, signedIn, unsigned, chose>>

Kill(c) ==
  /\ proc[c].does # "rest" /\ kills < MaxKills /\ kills' = kills + 1 /\ Goes(c, AtRest)
  /\ unsigned' = IF proc[c].does = "setup server" THEN unsigned \cup {proc[c].url} ELSE unsigned
  /\ UNCHANGED <<config, credentials, chose, signedIn, overlapped, started>>

ConfigNext == \E c \in Command :
  \/ Start(c) \/ Granted(c) \/ Refused(c) \/ ReadState(c) \/ ReadDocument(c) \/ ReplaceCredentials(c)
  \/ ReadConfig(c) \/ WriteConfig(c) \/ Kill(c)
ConfigSpec == ConfigInit /\ [][ConfigNext]_configVars

(* A bucket that the config names has its keys, whenever setup was killed.                                *)
BucketHasKeys == config.vault = "s3" => credentials.s3 \/ overlapped

(* What was signed in to and not signed out of has its key, and a machine that holds keys has a default.  *)
SignedInKept == ~overlapped => \A x \in signedIn : x[2] \in credentials.servers[x[1]].vaults

(* The default is a vault signed in to, or one that somebody chose.                                       *)
DefaultHeld == ~overlapped => \A u \in Url :
  LET state == credentials.servers[u] IN
  /\ state.default # Nowhere => state.default \in state.vaults \/ <<u, state.default>> \in chose

(* A server that the config names is signed in to, unless its setup is not done or came to nothing, or    *)
(* somebody signed out.                                                                                   *)
ServerSignedIn == ~overlapped => \A u \in Url \ unsigned :
  config.vault = u /\ (\A c \in Command : proc[c].does # "setup server") => credentials.servers[u].vaults # {}

(* What a machine remembers of its vaults (places.py, credentials.py).                                    *)
ConfigInv == BucketHasKeys /\ SignedInKept /\ DefaultHeld /\ ServerSignedIn
=============================================================================
