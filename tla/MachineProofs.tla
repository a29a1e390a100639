--------------------------- MODULE MachineProofs ----------------------------
(* The theorems about what runs on the user's machine: the proxy to the hosted server (Upstream), the      *)
(* install signal (InstallSignal), what the machine remembers of its vaults (LocalConfig), the hooks of    *)
(* the sessions of Claude Code (StopHook) and the pages these write (ChangeLog).                           *)
EXTENDS Upstream, InstallSignal, LocalConfig, StopHook, ChangeLog,
        FiniteSetTheorems, SequenceTheorems, WellFoundedInduction, TLAPS

-----------------------------------------------------------------------------
(* The theorem about Upstream: for any number of requests and of connections, no request of a client      *)
(* waits for an event that nobody will set, and none is repeated over one connection.                     *)

UpstreamPlace == {"away", "use", "first", "again", "second", "answered", "failed"}
UpstreamHeld == [at : UpstreamPlace, event : Nat, remote : Nat, applied : Nat]

UpstreamTypes ==
  /\ link \in {"connecting", "up", "closing", "idle"} /\ remote \in Nat /\ made \in Nat
  /\ ready \in [number : Nat, set : BOOLEAN] /\ reconnect \in BOOLEAN
  /\ requests \in [Request -> UpstreamHeld]

(* An event that is not set will be: the task that sets it has been asked to, or is making the first      *)
(* connection.  So none is ever replaced before it was set.                                               *)
UpstreamAsked == ~ready.set => reconnect \/ (made = 0 /\ link = "connecting")
NoneAbandoned == abandoned = {}

(* The connection in use is the last one made, and nobody is served before there was one.                 *)
LastMade == remote # 0 => remote = made
ServedLater == made = 0 => \A r \in Request : requests[r].at = "away"

(* A request has been carried out over fewer connections than it will have used.                          *)
Counts(r) ==
  LET q == requests[r] IN
  /\ q.applied <= made /\ (q.at = "away" => q.applied = 0)
  /\ q.at \in {"first", "second"} => q.applied < q.remote /\ q.remote <= made
  /\ q.at \in {"use", "again"} => q.event <= ready.number /\ (Passes(r) /\ remote # 0 => q.applied < remote)
Counted == \A r \in Request : Counts(r)

UpstreamIInv == UpstreamTypes /\ UpstreamAsked /\ NoneAbandoned /\ LastMade /\ ServedLater /\ FindsWhatIsThere /\ Counted
-----------------------------------------------------------------------------
LEMMA UpstreamInitHolds == UpstreamInit => UpstreamIInv
<1> SUFFICES ASSUME UpstreamInit PROVE UpstreamIInv
  OBVIOUS
<1>1. Waits("away", 0, 0) \in UpstreamHeld /\ [number |-> 0, set |-> FALSE] \in [number : Nat, set : BOOLEAN]
  BY DEF Waits, UpstreamHeld, UpstreamPlace
<1>2. UpstreamTypes
  BY <1>1 DEF UpstreamInit, UpstreamTypes
<1>3. UpstreamAsked /\ NoneAbandoned /\ LastMade /\ ServedLater /\ FindsWhatIsThere
  BY DEF UpstreamInit, UpstreamAsked, NoneAbandoned, LastMade, ServedLater, FindsWhatIsThere, Waits
<1>4. Counted
  BY DEF UpstreamInit, Counted, Counts, Waits
<1>5. QED
  BY <1>2, <1>3, <1>4 DEF UpstreamIInv

(* What the task settles, it tells everyone who waits.                                                    *)
LEMMA SettleHolds ==
  ASSUME UpstreamIInv, NEW connection \in Nat, NEW next \in {"up", "idle"}, Settle(connection, next),
         \/ made' = made /\ connection = 0 /\ next = "idle"
         \/ made' = made + 1 /\ connection = made + 1 /\ next = "up"
  PROVE  UpstreamIInv'
<1>0. ready'.set /\ ready' \in [number : Nat, set : BOOLEAN] /\ ~reconnect'
  BY DEF Settle, UpstreamIInv, UpstreamTypes
<1>1. UpstreamTypes' /\ UpstreamAsked' /\ NoneAbandoned' /\ LastMade' /\ FindsWhatIsThere'
  <2>1. reconnect' \in BOOLEAN /\ link' = next /\ remote' = connection /\ UNCHANGED <<abandoned, requests>>
    BY DEF Settle
  <2>2. UpstreamTypes'
    BY <1>0, <2>1 DEF UpstreamIInv, UpstreamTypes
  <2>3. LastMade' /\ NoneAbandoned'
    BY <2>1 DEF UpstreamIInv, LastMade, NoneAbandoned
  <2>4. UpstreamAsked'
    BY <1>0 DEF UpstreamAsked
  <2>5. FindsWhatIsThere'
    BY <1>0, <2>1 DEF FindsWhatIsThere, UpstreamIInv, UpstreamTypes
  <2>6. QED
    BY <2>2, <2>3, <2>4, <2>5
<1>2. ServedLater'
  BY DEF Settle, UpstreamIInv, UpstreamTypes, ServedLater
<1>3. ASSUME NEW r \in Request PROVE Counts(r)'
  BY DEF Settle, UpstreamIInv, UpstreamTypes, UpstreamHeld, Counted, Counts, Passes
<1>4. QED
  BY <1>1, <1>2, <1>3 DEF UpstreamIInv, Counted

(* The task goes on to its next connection.                                                               *)
LEMMA LinkHolds == ASSUME UpstreamIInv, Reconnects \/ Closed PROVE UpstreamIInv'
<1>1. UpstreamTypes' /\ UpstreamAsked' /\ NoneAbandoned' /\ LastMade' /\ ServedLater' /\ FindsWhatIsThere'
  BY DEF Reconnects, Closed, UpstreamIInv, UpstreamTypes, UpstreamAsked, NoneAbandoned, LastMade, ServedLater,
     FindsWhatIsThere
<1>2. ASSUME NEW r \in Request PROVE Counts(r)'
  BY DEF Reconnects, Closed, UpstreamIInv, Counted, Counts, Passes
<1>3. QED
  BY <1>1, <1>2 DEF UpstreamIInv, Counted

(* A request that moves leaves the connection and the others alone.                                       *)
LEMMA UpstreamMovesHolds ==
  ASSUME UpstreamIInv, NEW r \in Request, NEW q \in UpstreamHeld, made > 0, Moves(r, q),
         q.applied <= made, q.at # "away",
         q.at \in {"first", "second"} => q.applied < q.remote /\ q.remote <= made,
         q.at \in {"use", "again"} => q.event <= ready.number /\ (remote # 0 => q.applied < remote)
  PROVE  UpstreamIInv'
<1>1. UpstreamTypes' /\ UpstreamAsked' /\ NoneAbandoned' /\ LastMade' /\ ServedLater' /\ FindsWhatIsThere'
  BY DEF Moves, UpstreamIInv, UpstreamTypes, UpstreamAsked, NoneAbandoned, LastMade, ServedLater, FindsWhatIsThere
<1>2. ASSUME NEW s \in Request PROVE Counts(s)'
  <2>1. CASE s = r
    BY <2>1 DEF Moves, UpstreamIInv, UpstreamTypes, Counts
  <2>2. CASE s # r
    BY <2>2 DEF Moves, UpstreamIInv, UpstreamTypes, Counted, Counts, Passes
  <2>3. QED
    BY <2>1, <2>2
<1>3. QED
  BY <1>1, <1>2 DEF UpstreamIInv, Counted

(* Asking for another connection replaces an event that was set, so that nobody waits for it.             *)
LEMMA AskAgainHolds ==
  ASSUME UpstreamIInv, NEW r \in Request, NEW applied \in Nat, applied <= made, made > 0,
         AskAgain(r, applied), UNCHANGED <<remote, made, link>>
  PROVE  UpstreamIInv'
<1>1. reconnect <=> ~ready.set
  BY DEF UpstreamIInv, UpstreamAsked, FindsWhatIsThere
<1>2. UpstreamTypes'
  <2>0. ready \in [number : Nat, set : BOOLEAN] /\ ready.number + 1 \in Nat
    BY DEF UpstreamIInv, UpstreamTypes
  <2>1. ready' \in [number : Nat, set : BOOLEAN]
    <3>1. CASE reconnect
      BY <2>0, <3>1 DEF AskAgain
    <3>2. CASE ~reconnect
      <4>1. ready' = [number |-> ready.number + 1, set |-> FALSE]
        BY <3>2 DEF AskAgain
      <4>2. [number |-> ready.number + 1, set |-> FALSE] \in [number : Nat, set : BOOLEAN]
        BY <2>0
      <4>3. QED
        BY <4>1, <4>2
    <3>3. QED
      BY <3>1, <3>2
  <2>2. requests' \in [Request -> UpstreamHeld]
    BY DEF AskAgain, Waits, UpstreamIInv, UpstreamTypes, UpstreamHeld, UpstreamPlace
  <2>3. QED
    BY <2>1, <2>2 DEF AskAgain, UpstreamIInv, UpstreamTypes
<1>3. UpstreamAsked' /\ NoneAbandoned' /\ LastMade' /\ ServedLater' /\ FindsWhatIsThere'
  BY <1>1 DEF AskAgain, UpstreamIInv, UpstreamTypes, UpstreamAsked, NoneAbandoned, LastMade, ServedLater,
     FindsWhatIsThere
<1>4. ASSUME NEW s \in Request PROVE Counts(s)'
  <2>1. CASE s = r
    BY <1>1, <2>1 DEF AskAgain, Waits, UpstreamIInv, UpstreamTypes, Counts, Passes
  <2>2. CASE s # r
    BY <1>1, <2>2 DEF AskAgain, UpstreamIInv, UpstreamTypes, UpstreamHeld, NoneAbandoned, Counted, Counts, Passes
  <2>3. QED
    BY <2>1, <2>2
<1>5. QED
  BY <1>2, <1>3, <1>4 DEF UpstreamIInv, Counted

LEMMA RequestHolds ==
  ASSUME UpstreamIInv, NEW r \in Request,
         Arrive(r) \/ Use(r) \/ Answers(r) \/ Fails(r) \/ Again(r) \/ FailsAgain(r)
  PROVE  UpstreamIInv'
<1> DEFINE q == requests[r]
<1>1. q \in UpstreamHeld /\ q.applied \in Nat /\ q.remote \in Nat /\ q.event \in Nat
  BY DEF UpstreamIInv, UpstreamTypes, UpstreamHeld
<1>0. /\ q.applied <= made /\ (q.at = "away" => q.applied = 0)
      /\ q.at \in {"first", "second"} => (q.applied < q.remote /\ q.remote <= made)
      /\ q.at = "use" /\ Passes(r) /\ remote # 0 => q.applied < remote
  BY DEF UpstreamIInv, Counted, Counts
<1>2. made > 0 /\ made \in Nat /\ remote \in Nat /\ ready.number \in Nat
  BY DEF UpstreamIInv, UpstreamTypes, ServedLater, Arrive, Use, Answers, Fails, Again, FailsAgain
<1>3. CASE Arrive(r)
  <2> DEFINE n == [q EXCEPT !.at = "use", !.event = ready.number]
  <2>1. n \in UpstreamHeld /\ n.at = "use" /\ n.event = ready.number /\ n.applied = 0
    BY <1>0, <1>1, <1>2, <1>3 DEF Arrive, UpstreamHeld, UpstreamPlace
  <2>2. Moves(r, n)
    BY <1>3 DEF Arrive
  <2> HIDE DEF n
  <2>3. QED
    BY <1>2, <2>1, <2>2, UpstreamMovesHolds
<1>4. CASE Use(r)
  <2>1. CASE remote # 0
    <3> DEFINE n == [q EXCEPT !.at = "first", !.remote = remote]
    <3>1. n \in UpstreamHeld /\ n.at = "first" /\ n.remote = remote /\ n.applied = q.applied
      BY <1>0, <1>1, <1>2 DEF UpstreamHeld, UpstreamPlace
    <3>2. q.applied < remote /\ remote <= made
      BY <1>0, <1>1, <1>2, <1>4, <2>1 DEF Use, UpstreamIInv, LastMade
    <3>3. Moves(r, n)
      BY <1>4, <2>1 DEF Use
    <3> HIDE DEF n
    <3>4. QED
      BY <1>0, <1>1, <1>2, <3>1, <3>2, <3>3, UpstreamMovesHolds
  <2>2. CASE remote = 0
    BY <1>0, <1>1, <1>2, <1>4, <2>2, AskAgainHolds DEF Use, UpstreamHeld
  <2>3. QED
    BY <2>1, <2>2
<1>5. CASE Answers(r)
  <2> DEFINE n == [q EXCEPT !.at = "answered", !.applied = @ + 1]
  <2>0. q.applied + 1 <= made /\ q.applied + 1 \in Nat
    BY <1>0, <1>1, <1>2, <1>5 DEF Answers
  <2>1. n \in UpstreamHeld /\ n.at = "answered" /\ n.applied <= made
    BY <1>1, <2>0 DEF UpstreamHeld, UpstreamPlace
  <2>2. Moves(r, n)
    BY <1>5 DEF Answers
  <2> HIDE DEF n
  <2>3. QED
    BY <1>2, <2>1, <2>2, UpstreamMovesHolds
<1>6. CASE Fails(r)
  <2>1. PICK applied \in {q.applied, q.applied + 1} :
          /\ q.at = "first"
          /\ IF remote # q.remote THEN Moves(r, Waits("use", ready.number, applied))
             ELSE AskAgain(r, applied) /\ UNCHANGED <<remote, made, link>>
    BY <1>6 DEF Fails
  <2>2. applied \in Nat /\ applied <= made /\ applied <= q.remote /\ q.remote \in Nat
    BY <1>0, <1>1, <1>2, <2>1 DEF UpstreamHeld
  <2>3. CASE remote # q.remote
    <3>1. remote # 0 => applied < remote
      BY <1>0, <1>1, <1>2, <2>1, <2>2, <2>3 DEF UpstreamIInv, LastMade
    <3> DEFINE n == Waits("use", ready.number, applied)
    <3>2. n \in UpstreamHeld /\ n.at = "use" /\ n.event = ready.number /\ n.applied = applied
      BY <1>2, <2>2 DEF Waits, UpstreamHeld, UpstreamPlace
    <3>3. Moves(r, n)
      BY <2>1, <2>3
    <3> HIDE DEF n
    <3>4. QED
      BY <1>2, <2>2, <3>1, <3>2, <3>3, UpstreamMovesHolds
  <2>4. CASE remote = q.remote
    BY <1>2, <2>1, <2>2, <2>4, AskAgainHolds
  <2>5. QED
    BY <2>3, <2>4
<1>7. CASE Again(r)
  <2> DEFINE n == [q EXCEPT !.at = IF remote # 0 THEN "second" ELSE "failed", !.remote = remote]
  <2>1. n \in UpstreamHeld /\ n.at \in {"second", "failed"} /\ (n.at = "second" <=> remote # 0)
        /\ n.remote = remote /\ n.applied = q.applied
    BY <1>0, <1>1, <1>2 DEF UpstreamHeld, UpstreamPlace
  <2>a. q.at = "again" /\ Passes(r)
    BY <1>7 DEF Again
  <2>b. q.applied <= made /\ (remote # 0 => q.applied < remote)
    BY <2>a DEF UpstreamIInv, Counted, Counts
  <2>2. q.applied <= made /\ (remote # 0 => (q.applied < remote /\ remote <= made))
    BY <1>2, <2>b DEF UpstreamIInv, LastMade
  <2>3. Moves(r, n)
    BY <1>7 DEF Again
  <2> HIDE DEF n
  <2>4. QED
    BY <1>2, <2>1, <2>2, <2>3, UpstreamMovesHolds
<1>8. CASE FailsAgain(r)
  <2>1. PICK applied \in {q.applied, q.applied + 1} :
          q.at = "second" /\ Moves(r, [q EXCEPT !.at = "failed", !.applied = applied])
    BY <1>8 DEF FailsAgain
  <2> DEFINE n == [q EXCEPT !.at = "failed", !.applied = applied]
  <2>0. applied <= made /\ applied \in Nat
    BY <1>0, <1>1, <1>2, <2>1
  <2>2. n \in UpstreamHeld /\ n.at = "failed" /\ n.applied <= made
    BY <1>1, <2>0 DEF UpstreamHeld, UpstreamPlace
  <2>3. Moves(r, n)
    BY <2>1
  <2> HIDE DEF n
  <2>4. QED
    BY <1>2, <2>2, <2>3, UpstreamMovesHolds
<1>9. QED
  BY <1>3, <1>4, <1>5, <1>6, <1>7, <1>8

LEMMA UpstreamStepHolds == UpstreamIInv /\ [UpstreamNext]_upstreamVars => UpstreamIInv'
<1> SUFFICES ASSUME UpstreamIInv, [UpstreamNext]_upstreamVars PROVE UpstreamIInv'
  OBVIOUS
<1>1. made \in Nat /\ made + 1 \in Nat /\ 0 \in Nat
  BY DEF UpstreamIInv, UpstreamTypes
<1>2. CASE Connects
  BY <1>1, <1>2, SettleHolds DEF Connects
<1>3. CASE ConnectFails \/ Breaks
  BY <1>1, <1>3, SettleHolds DEF ConnectFails, Breaks
<1>4. CASE UNCHANGED upstreamVars
  BY <1>4 DEF upstreamVars, UpstreamIInv, UpstreamTypes, UpstreamAsked, NoneAbandoned, LastMade, ServedLater,
     FindsWhatIsThere, Counted,
              Counts, Passes
<1>5. QED
  BY <1>2, <1>3, <1>4, LinkHolds, RequestHolds DEF UpstreamNext

(* Whatever connections break, however many requests share them and in whatever order their tasks run:    *)
(* no request waits for an event nobody will set, an event that is set tells of a connection that is      *)
(* there or of none, and a request is repeated only over another connection (Upstream.use, ask_again,     *)
(* settle and supervise).                                                                                 *)
THEOREM RequestsServed == UpstreamSpec => []UpstreamInv
<1>1. UpstreamIInv => UpstreamInv
  <2> SUFFICES ASSUME UpstreamIInv PROVE UpstreamInv
    OBVIOUS
  <2>1. NobodyForgotten
    BY DEF NobodyForgotten, UpstreamIInv, UpstreamTypes, UpstreamHeld, UpstreamAsked, NoneAbandoned, ServedLater,
       Counted, Counts, Passes
  <2>2. QED
    BY <2>1 DEF UpstreamInv, UpstreamIInv, RepeatedOverNewOnes, Counted, Counts
<1>2. QED
  BY <1>1, UpstreamInitHolds, UpstreamStepHolds, PTL DEF UpstreamSpec

-----------------------------------------------------------------------------
(* The theorem about InstallSignal: for any number of servers on a machine, of days and of answers, a     *)
(* signal goes once a day of one install, and an install that was forgotten does not come back.           *)

SignalPlace == {"wait", "forget", "forget ledger", "lock", "ledger", "mark", "id", "make", "send"}
SignalHeld == [step : SignalPlace, day : Nat, id : Nat]
Inside == {"ledger", "mark", "id", "make", "send"}

SignalTypes ==
  /\ on \in BOOLEAN /\ ids \in Nat /\ installId \in 0..ids /\ utcDay \in Nat /\ ledger \in 0..utcDay
  /\ beats \in [Process -> SignalHeld] /\ sent \subseteq (1..ids) \X Nat /\ former \subseteq 1..ids
  /\ twice \in BOOLEAN /\ collided \in BOOLEAN
DaysPast == \A p \in Process :
  /\ beats[p].day <= utcDay /\ (beats[p].step = "send" => beats[p].id \in 1..ids)

(* One holds the lock at a time, where there is one.                                                      *)
OneInside == HasFlock => \A p, q \in Process : beats[p].step \in Inside /\ beats[q].step \in Inside => p = q

(* Unless an id was forgotten under somebody's hands: who is about to forget the ledger has forgotten the *)
(* id and nobody is on its way; what is sent is of an install that nobody forgot.                         *)
SignalForgotten == \A p \in Process : beats[p].step = "forget ledger" =>
  installId = 0 /\ \A q \in Process : ~OnItsWay(q)
Current == installId \notin former /\ \A p \in Process : beats[p].step = "send" => beats[p].id \notin former

(* The ledger has the last day on which the present install was spoken of, before it is spoken of.        *)
Gone(x, day) == x[1] \in former \/ x[2] < day
LedgerAhead == HasFlock =>
  /\ \A x \in sent : Gone(x, ledger + 1)
  /\ \A p \in Process :
       /\ beats[p].step = "mark" => ledger < beats[p].day
       /\ beats[p].step \in {"id", "make", "send"} => ledger = beats[p].day /\ \A x \in sent : Gone(x, ledger)
Once == HasFlock => ~twice

SignalIInv == SignalTypes /\ DaysPast /\ OneInside /\ (collided \/ (SignalForgotten /\ Current /\ LedgerAhead /\ Once))
LEMMA WaitingHeld == Waiting \in SignalHeld /\ Waiting.step = "wait" /\ Waiting.day = 0
BY DEF Waiting, SignalHeld, SignalPlace

LEMMA PlaceFacts == {"wait", "forget", "forget ledger", "lock", "ledger", "mark", "id", "make", "send"} = SignalPlace
BY DEF SignalPlace

(* What a step makes of what a server is at.                                                              *)
LEMMA StepOf ==
  ASSUME NEW b \in SignalHeld, NEW step \in SignalPlace
  PROVE  \E c \in SignalHeld : c = [b EXCEPT !.step = step] /\ c.step = step /\ c.day = b.day /\ c.id = b.id
<1>1. PICK c : c = [b EXCEPT !.step = step]
  OBVIOUS
<1>2. c \in SignalHeld /\ c.step = step /\ c.day = b.day /\ c.id = b.id
  BY <1>1 DEF SignalHeld
<1>3. QED
  BY <1>1, <1>2

-----------------------------------------------------------------------------
LEMMA SignalInitHolds == SignalInit => SignalIInv
<1> SUFFICES ASSUME SignalInit PROVE SignalIInv
  OBVIOUS
<1>1. Waiting \in SignalHeld
  BY DEF Waiting, SignalHeld, SignalPlace
<1>2. SignalTypes
  <2>1. beats \in [Process -> SignalHeld]
    BY <1>1 DEF SignalInit
  <2>2. installId \in 0..ids /\ ids \in Nat /\ utcDay \in Nat /\ ledger \in 0..utcDay
    BY DEF SignalInit
  <2>3. on \in BOOLEAN /\ twice \in BOOLEAN /\ collided \in BOOLEAN
    BY DEF SignalInit
  <2>4. sent \subseteq (1..ids) \X Nat /\ former \subseteq 1..ids
    BY DEF SignalInit
  <2>5. QED
    BY <2>1, <2>2, <2>3, <2>4 DEF SignalTypes
<1>3. DaysPast /\ OneInside
  BY DEF SignalInit, Waiting, DaysPast, OneInside, Inside
<1>4. SignalForgotten /\ Current /\ LedgerAhead /\ Once
  BY DEF SignalInit, Waiting, SignalForgotten, Current, LedgerAhead, Once, OnItsWay
<1>5. QED
  BY <1>2, <1>3, <1>4 DEF SignalIInv

LEMMA AnswerHolds == ASSUME SignalIInv, Answer PROVE SignalIInv'
<1>1. on' \in BOOLEAN /\ UNCHANGED <<installId, ids, ledger, utcDay, beats, sent, twice, former, collided>>
  BY DEF Answer, SignalIInv, SignalTypes
<1>2. SignalTypes' /\ DaysPast' /\ OneInside'
  BY <1>1 DEF SignalIInv, SignalTypes, DaysPast, OneInside
<1>3. collided' \/ (SignalForgotten' /\ Current' /\ LedgerAhead' /\ Once')
  BY <1>1 DEF SignalIInv, SignalForgotten, Current, LedgerAhead, Once, Gone, OnItsWay
<1>4. QED
  BY <1>2, <1>3 DEF SignalIInv

LEMMA NextDayHolds == ASSUME SignalIInv, NextDay PROVE SignalIInv'
<1>1. utcDay' = utcDay + 1 /\ UNCHANGED <<on, installId, ids, ledger, beats, sent, twice, former, collided>>
  BY DEF NextDay
<1>2. SignalTypes' /\ OneInside'
  BY <1>1 DEF SignalIInv, SignalTypes, OneInside
<1>3. DaysPast'
  BY <1>1 DEF SignalIInv, SignalTypes, SignalHeld, DaysPast
<1>4. collided' \/ (SignalForgotten' /\ Current' /\ LedgerAhead' /\ Once')
  BY <1>1 DEF SignalIInv, SignalForgotten, Current, LedgerAhead, Once, Gone, OnItsWay
<1>5. QED
  BY <1>2, <1>3, <1>4 DEF SignalIInv

(* What a step of one server leaves of the others.                                                        *)
LEMMA StepsFacts ==
  ASSUME SignalIInv, NEW p \in Process, NEW b \in SignalHeld, Steps(p, b)
  PROVE  beats' \in [Process -> SignalHeld] /\ beats'[p] = b /\ \A q \in Process \ {p} : beats'[q] = beats[q]
BY DEF Steps, SignalIInv, SignalTypes

LEMMA OnceKept == ASSUME Once, UNCHANGED twice PROVE Once'
BY DEF Once

(* A step that leaves the files as they are.                                                              *)
LEMMA SignalMovesHolds ==
  ASSUME SignalIInv, NEW p \in Process, NEW b \in SignalHeld, Steps(p, b),
         UNCHANGED <<Rest, installId, ids, ledger, sent, twice, former>>, collided' \in BOOLEAN,
         collided => collided',
         b.day <= utcDay, b.step = "send" => b.id \in 1..ids,
         b.step \in Inside /\ HasFlock => beats[p].step \in Inside \/ ~Locked,
         b.step = "forget ledger" => FALSE,
         ~collided' /\ b.step \in {"lock"} \cup Inside =>
           OnItsWay(p) \/ \A q \in Process : ~Forgetting(q),
         ~collided' /\ b.step = "send" => b.id \notin former,
         HasFlock /\ ~collided' /\ b.step = "mark" => ledger < b.day,
         HasFlock /\ ~collided' /\ b.step \in {"id", "make", "send"} =>
           ledger = b.day /\ \A x \in sent : Gone(x, ledger)
  PROVE  SignalIInv'
<1>1. beats' \in [Process -> SignalHeld] /\ beats'[p] = b /\ \A q \in Process \ {p} : beats'[q] = beats[q]
  BY StepsFacts
<1>2. UNCHANGED <<on, utcDay, installId, ids, ledger, sent, twice, former>>
  BY DEF Rest
<1>3. SignalTypes'
  BY <1>1, <1>2 DEF SignalIInv, SignalTypes
<1>4. DaysPast'
  BY <1>1, <1>2 DEF SignalIInv, DaysPast
<1>5. OneInside'
  BY <1>1 DEF SignalIInv, OneInside, Locked, Inside
<1>6. ASSUME ~collided' PROVE SignalForgotten' /\ Current' /\ LedgerAhead' /\ Once'
  <2>0. SignalForgotten /\ Current /\ LedgerAhead /\ Once
    BY <1>6 DEF SignalIInv
  <2>1. SignalForgotten'
    BY <1>1, <1>2, <1>6, <2>0 DEF SignalForgotten, OnItsWay, Forgetting, Inside
  <2>2. Current'
    BY <1>1, <1>2, <1>6, <2>0 DEF Current
  <2>3. LedgerAhead'
    BY <1>1, <1>2, <1>6, <2>0 DEF LedgerAhead, Gone
  <2>4. Once'
    BY <1>2, <2>0, OnceKept
  <2>5. QED
    BY <2>1, <2>2, <2>3, <2>4
<1>7. QED
  <2>1. collided' \in BOOLEAN
    OBVIOUS
  <2>2. QED
    BY <2>1, <1>3, <1>4, <1>5, <1>6 DEF SignalIInv

LEMMA SignalHeldFacts == SignalIInv => \A p \in Process :
  /\ beats[p] \in SignalHeld /\ beats[p].day \in Nat /\ beats[p].id \in Nat
  /\ utcDay \in Nat /\ ledger \in Nat /\ ids \in Nat /\ beats[p].day <= utcDay /\ ledger <= utcDay
<1> SUFFICES ASSUME SignalIInv, NEW p \in Process
             PROVE  /\ beats[p] \in SignalHeld /\ beats[p].day \in Nat /\ beats[p].id \in Nat
                    /\ utcDay \in Nat /\ ledger \in Nat /\ ids \in Nat /\ beats[p].day <= utcDay /\ ledger <= utcDay
  OBVIOUS
<1>1. beats[p] \in SignalHeld
  BY DEF SignalIInv, SignalTypes
<1>2. beats[p].day \in Nat /\ beats[p].id \in Nat
  BY <1>1 DEF SignalHeld
<1>3. utcDay \in Nat /\ ids \in Nat /\ ledger \in 0..utcDay
  BY DEF SignalIInv, SignalTypes
<1>4. beats[p].day <= utcDay
  BY DEF SignalIInv, DaysPast
<1>5. QED
  BY <1>1, <1>2, <1>3, <1>4

LEMMA BeatHolds == ASSUME SignalIInv, NEW p \in Process, Beat(p) PROVE SignalIInv'
<1>1. PICK b \in SignalHeld : /\ b = [Waiting EXCEPT !.step = IF on THEN "lock" ELSE "forget"]
                              /\ b.step = (IF on THEN "lock" ELSE "forget") /\ b.day = 0
  <2>1. (IF on THEN "lock" ELSE "forget") \in SignalPlace
    BY PlaceFacts
  <2>2. QED
    BY <2>1, WaitingHeld, StepOf
<1>2. collided' = (collided \/ (on /\ \E q \in Process : Forgetting(q))) /\ Steps(p, b)
  BY <1>1 DEF Beat
<1>3. collided' \in BOOLEAN /\ (collided => collided') /\ (~collided' /\ on => \A q \in Process : ~Forgetting(q))
  BY <1>2 DEF SignalIInv, SignalTypes
<1>4. UNCHANGED <<Rest, installId, ids, ledger, sent, twice, former>>
  BY DEF Beat
<1>5. b.day <= utcDay
  BY <1>1, SignalHeldFacts
<1>6. b.step \notin Inside /\ b.step # "send" /\ b.step # "forget ledger" /\ b.step # "mark"
      /\ b.step \notin {"id", "make", "send"} /\ (b.step = "lock" => on)
  BY <1>1 DEF Inside
<1>7. QED
  BY <1>2, <1>3, <1>4, <1>5, <1>6, SignalMovesHolds

LEMMA DropHolds == ASSUME SignalIInv, NEW p \in Process, Drop(p) PROVE SignalIInv'
<1>1. Waiting \in SignalHeld /\ Waiting.step = "wait" /\ Waiting.day <= utcDay
  BY WaitingHeld, SignalHeldFacts
<1>2. Waiting.step \notin {"lock"} \cup Inside \cup {"send", "forget ledger", "mark", "id", "make"}
  BY <1>1 DEF Inside
<1>3. UNCHANGED <<Rest, installId, ids, ledger, sent, twice, former, collided>> /\ Steps(p, Waiting)
  BY DEF Drop
<1>4. collided' \in BOOLEAN
  BY <1>3 DEF SignalIInv, SignalTypes
<1>5. QED
  BY <1>1, <1>2, <1>3, <1>4, SignalMovesHolds

LEMMA LockHolds == ASSUME SignalIInv, NEW p \in Process, Lock(p) PROVE SignalIInv'
<1>1. UNCHANGED <<Rest, installId, ids, ledger, sent, twice, former, collided>> /\ collided' \in BOOLEAN
  BY DEF Lock, SignalIInv, SignalTypes
<1>2. CASE HasFlock /\ Locked
  <2>1. Waiting \in SignalHeld /\ Waiting.step = "wait" /\ Waiting.day <= utcDay
    BY WaitingHeld, SignalHeldFacts
  <2>2. Waiting.step \notin {"lock"} \cup Inside \cup {"send", "forget ledger", "mark", "id", "make"}
    BY <2>1 DEF Inside
  <2>3. Steps(p, Waiting)
    BY <1>2 DEF Lock
  <2>4. QED
    BY <1>1, <2>1, <2>2, <2>3, SignalMovesHolds
<1>3. CASE ~(HasFlock /\ Locked)
  <2>1. PICK b \in SignalHeld : /\ b = [beats[p] EXCEPT !.step = "ledger"]
                                /\ b.step = "ledger" /\ b.day = beats[p].day /\ b.id = beats[p].id
    <3>1. beats[p] \in SignalHeld
      BY SignalHeldFacts
    <3>2. "ledger" \in SignalPlace
      BY DEF SignalPlace
    <3>3. QED
      BY <3>1, <3>2, StepOf
  <2>2. b.step = "ledger" /\ b.day = beats[p].day /\ b.day <= utcDay
    BY <2>1, SignalHeldFacts DEF SignalHeld
  <2>3. Steps(p, b) /\ OnItsWay(p)
    BY <1>3, <2>1 DEF Lock, OnItsWay
  <2>4. QED
    BY <1>1, <1>3, <2>2, <2>3, SignalMovesHolds
<1>4. QED
  BY <1>2, <1>3

LEMMA ReadLedgerHolds == ASSUME SignalIInv, NEW p \in Process, ReadLedger(p) PROVE SignalIInv'
<1>1. UNCHANGED <<Rest, installId, ids, ledger, sent, twice, former, collided>> /\ collided' \in BOOLEAN
  BY DEF ReadLedger, SignalIInv, SignalTypes
<1>2. CASE ledger = utcDay
  <2>1. Waiting \in SignalHeld /\ Waiting.step = "wait" /\ Waiting.day <= utcDay
    BY WaitingHeld, SignalHeldFacts
  <2>2. Waiting.step \notin {"lock"} \cup Inside \cup {"send", "forget ledger", "mark", "id", "make"}
    BY <2>1 DEF Inside
  <2>3. Steps(p, Waiting)
    BY <1>2 DEF ReadLedger
  <2>4. QED
    BY <1>1, <2>1, <2>2, <2>3, SignalMovesHolds
<1>3. CASE ledger # utcDay
  <2>0. beats[p] \in SignalHeld /\ utcDay \in Nat /\ ledger \in Nat /\ ledger <= utcDay
    BY SignalHeldFacts
  <2>1. PICK b : b = [beats[p] EXCEPT !.step = "mark", !.day = utcDay]
    OBVIOUS
  <2>a. "mark" \in SignalPlace
    BY DEF SignalPlace
  <2>b. b \in SignalHeld /\ b.step = "mark" /\ b.day = utcDay
    BY <2>0, <2>1, <2>a DEF SignalHeld
  <2>2. b.step = "mark" /\ b.day = utcDay /\ b.day <= utcDay /\ ledger < b.day
    BY <1>3, <2>0, <2>b
  <2>3. Steps(p, b) /\ OnItsWay(p) /\ beats[p].step \in Inside
    BY <1>3, <2>1 DEF ReadLedger, OnItsWay, Inside
  <2>4. QED
    BY <1>1, <2>b, <2>2, <2>3, SignalMovesHolds
<1>4. QED
  BY <1>2, <1>3

LEMMA ReadIdHolds == ASSUME SignalIInv, NEW p \in Process, ReadId(p) PROVE SignalIInv'
<1>1. UNCHANGED <<Rest, installId, ids, ledger, sent, twice, former, collided>> /\ collided' \in BOOLEAN
  BY DEF ReadId, SignalIInv, SignalTypes
<1>2. beats[p].step = "id" /\ OnItsWay(p) /\ beats[p].step \in Inside
  BY DEF ReadId, OnItsWay, Inside
<1>3. HasFlock /\ ~collided => ledger = beats[p].day /\ \A x \in sent : Gone(x, ledger)
  BY <1>2 DEF SignalIInv, LedgerAhead
<1>4. CASE installId # 0
  <2>0. beats[p] \in SignalHeld /\ beats[p].day <= utcDay
    BY SignalHeldFacts
  <2>1. PICK b : b = [beats[p] EXCEPT !.step = "send", !.id = installId]
    OBVIOUS
  <2>a. "send" \in SignalPlace /\ installId \in Nat
    BY DEF SignalPlace, SignalIInv, SignalTypes
  <2>b. b \in SignalHeld /\ b.step = "send" /\ b.day = beats[p].day /\ b.id = installId
    BY <2>0, <2>1, <2>a DEF SignalHeld
  <2>2. b.step = "send" /\ b.day = beats[p].day /\ b.day <= utcDay /\ b.id = installId
    BY <2>0, <2>b
  <2>3. b.id \in 1..ids /\ (~collided => b.id \notin former)
    BY <1>4, <2>2 DEF SignalIInv, SignalTypes, Current
  <2>4. Steps(p, b)
    BY <1>4, <2>1 DEF ReadId
  <2>5. QED
    BY <1>1, <1>2, <1>3, <2>b, <2>2, <2>3, <2>4, SignalMovesHolds
<1>5. CASE installId = 0
  <2>1. PICK b \in SignalHeld : /\ b = [beats[p] EXCEPT !.step = "make"]
                                /\ b.step = "make" /\ b.day = beats[p].day /\ b.id = beats[p].id
    <3>1. beats[p] \in SignalHeld
      BY SignalHeldFacts
    <3>2. "make" \in SignalPlace
      BY DEF SignalPlace
    <3>3. QED
      BY <3>1, <3>2, StepOf
  <2>2. b.step = "make" /\ b.day = beats[p].day /\ b.day <= utcDay
    BY <2>1, SignalHeldFacts DEF SignalHeld
  <2>3. Steps(p, b)
    BY <1>5, <2>1 DEF ReadId
  <2>4. QED
    BY <1>1, <1>2, <1>3, <2>2, <2>3, SignalMovesHolds
<1>6. QED
  BY <1>4, <1>5

LEMMA MakeIdHolds == ASSUME SignalIInv, NEW p \in Process, MakeId(p) PROVE SignalIInv'
<1>1. ids' = ids + 1 /\ installId' = ids + 1 /\ UNCHANGED <<on, utcDay, ledger, sent, twice, former, collided>>
  BY DEF MakeId, Rest
<1>a. beats[p] \in SignalHeld /\ "send" \in SignalPlace /\ ids + 1 \in Nat
  <2>1. beats[p] \in SignalHeld /\ ids \in Nat
    BY SignalHeldFacts
  <2>2. QED
    BY <2>1 DEF SignalPlace
<1>2. PICK b : b = [beats[p] EXCEPT !.step = "send", !.id = ids + 1]
  OBVIOUS
<1>b. b \in SignalHeld /\ b.step = "send" /\ b.day = beats[p].day /\ b.id = ids + 1
  BY <1>a, <1>2 DEF SignalHeld
<1>3. b.step = "send" /\ b.day = beats[p].day /\ b.id = ids + 1 /\ Steps(p, b)
  BY <1>2, <1>b DEF MakeId
<1>4. beats' \in [Process -> SignalHeld] /\ beats'[p] = b /\ \A q \in Process \ {p} : beats'[q] = beats[q]
  BY <1>3, <1>b, StepsFacts
<1>5. SignalTypes'
  BY <1>1, <1>4 DEF SignalIInv, SignalTypes
<1>6. DaysPast'
  BY <1>1, <1>3, <1>4 DEF SignalIInv, SignalTypes, DaysPast
<1>7. beats[p].step = "make" /\ OnItsWay(p) /\ beats[p].step \in Inside
  BY DEF MakeId, OnItsWay, Inside
<1>8. OneInside'
  BY <1>4, <1>7 DEF SignalIInv, OneInside
<1>9. ASSUME ~collided' PROVE SignalForgotten' /\ Current' /\ LedgerAhead' /\ Once'
  <2>0. SignalForgotten /\ Current /\ LedgerAhead /\ Once
    BY <1>1, <1>9 DEF SignalIInv
  <2>1. SignalForgotten'
    BY <1>3, <1>4, <1>7, <2>0 DEF SignalForgotten
  <2>2. Current'
    BY <1>1, <1>3, <1>4, <2>0 DEF Current, SignalIInv, SignalTypes
  <2>3. LedgerAhead'
    BY <1>1, <1>3, <1>4, <1>7, <2>0 DEF LedgerAhead, Gone
  <2>4. Once'
    BY <1>1, <2>0 DEF Once
  <2>5. QED
    BY <2>1, <2>2, <2>3, <2>4
<1>10. QED
  BY <1>5, <1>6, <1>8, <1>9 DEF SignalIInv

LEMMA ForgetIdHolds == ASSUME SignalIInv, NEW p \in Process, ForgetId(p) PROVE SignalIInv'
<1>1. installId' = 0 /\ UNCHANGED <<on, utcDay, ids, ledger, sent, twice, former>>
  BY DEF ForgetId, Rest
<1>2. PICK b \in SignalHeld : b = [Waiting EXCEPT !.step = "forget ledger"] /\ b.step = "forget ledger" /\ b.day = 0
  <2>1. "forget ledger" \in SignalPlace
    BY PlaceFacts
  <2>2. QED
    BY <2>1, WaitingHeld, StepOf
<1>3. Steps(p, b) /\ collided' = (collided \/ \E q \in Process : OnItsWay(q))
  BY <1>2 DEF ForgetId
<1>4. beats' \in [Process -> SignalHeld] /\ beats'[p] = b /\ \A q \in Process \ {p} : beats'[q] = beats[q]
  BY <1>3, StepsFacts
<1>5. collided' \in BOOLEAN
  BY <1>3 DEF SignalIInv, SignalTypes
<1>6. SignalTypes'
  BY <1>1, <1>4, <1>5 DEF SignalIInv, SignalTypes
<1>7. DaysPast' /\ OneInside'
  <2>1. b.day <= utcDay /\ b.step \notin Inside /\ b.step # "send"
    <3>1. utcDay \in Nat
      BY SignalHeldFacts
    <3>2. b.step = "forget ledger" /\ b.day = 0
      BY <1>2
    <3>3. 0 <= utcDay
      BY <3>1
    <3>4. b.day <= utcDay
      BY <3>2, <3>3
    <3>5. b.step \notin Inside /\ b.step # "send"
      BY <3>2 DEF Inside
    <3>6. QED
      BY <3>4, <3>5
  <2>2. DaysPast'
    BY <1>1, <1>4, <2>1 DEF SignalIInv, DaysPast
  <2>3. OneInside'
    BY <1>4, <2>1 DEF SignalIInv, OneInside
  <2>4. QED
    BY <2>2, <2>3
<1>8. ASSUME ~collided' PROVE SignalForgotten' /\ Current' /\ LedgerAhead' /\ Once'
  <2>0. SignalForgotten /\ Current /\ LedgerAhead /\ Once /\ \A q \in Process : ~OnItsWay(q)
    BY <1>3, <1>8 DEF SignalIInv
  <2>1. SignalForgotten'
    BY <1>1, <1>2, <1>4, <2>0 DEF SignalForgotten, OnItsWay
  <2>2. Current'
    <3>1. 0 \notin former
      BY DEF SignalIInv, SignalTypes
    <3>2. \A q \in Process : beats'[q].step # "send"
      BY <1>2, <1>4, <2>0 DEF OnItsWay
    <3>3. QED
      BY <1>1, <3>1, <3>2 DEF Current
  <2>3. LedgerAhead'
    BY <1>1, <1>2, <1>4, <2>0 DEF LedgerAhead, Gone
  <2>4. Once'
    BY <1>1, <2>0 DEF Once
  <2>5. QED
    BY <2>1, <2>2, <2>3, <2>4
<1>9. QED
  BY <1>6, <1>7, <1>8 DEF SignalIInv

(* The ids made until now are forgotten: everything sent was of one of them.                              *)
LEMMA ForgetLedgerHolds == ASSUME SignalIInv, NEW p \in Process, ForgetLedger(p) PROVE SignalIInv'
<1>1. ledger' = 0 /\ former' = former \cup 1..ids /\ UNCHANGED <<on, utcDay, installId, ids, sent, twice>>
  BY DEF ForgetLedger, Rest
<1>2. Steps(p, Waiting) /\ collided' = (collided \/ \E q \in Process : OnItsWay(q))
  BY DEF ForgetLedger
<1>3. beats' \in [Process -> SignalHeld] /\ beats'[p] = Waiting /\ \A q \in Process \ {p} : beats'[q] = beats[q]
  BY <1>2, WaitingHeld, StepsFacts
<1>4. collided' \in BOOLEAN
  BY <1>2 DEF SignalIInv, SignalTypes
<1>5. SignalTypes'
  BY <1>1, <1>3, <1>4 DEF SignalIInv, SignalTypes
<1>6. DaysPast' /\ OneInside'
  BY <1>1, <1>3, WaitingHeld DEF SignalIInv, SignalTypes, DaysPast, OneInside, Inside
<1>7. ASSUME ~collided' PROVE SignalForgotten' /\ Current' /\ LedgerAhead' /\ Once'
  <2>0. SignalForgotten /\ Current /\ LedgerAhead /\ Once /\ \A q \in Process : ~OnItsWay(q)
    BY <1>2, <1>7 DEF SignalIInv
  <2>1. SignalForgotten'
    BY <1>1, <1>3, <2>0, WaitingHeld DEF SignalForgotten, OnItsWay
  <2>2. Current'
    <3>1. installId = 0
      BY <2>0 DEF SignalForgotten, ForgetLedger
    <3>2. \A q \in Process : beats'[q].step # "send"
      BY <1>3, <2>0, WaitingHeld DEF OnItsWay
    <3>3. 0 \notin former'
      BY <1>1 DEF SignalIInv, SignalTypes
    <3>4. QED
      BY <1>1, <3>1, <3>2, <3>3 DEF Current
  <2>3. LedgerAhead'
    <3>1. \A q \in Process : beats'[q].step \notin {"mark", "id", "make", "send"}
      BY <1>3, <2>0, WaitingHeld DEF OnItsWay
    <3>2. \A x \in sent : x[1] \in former'
      BY <1>1 DEF SignalIInv, SignalTypes
    <3>3. QED
      BY <1>1, <3>1, <3>2 DEF LedgerAhead, Gone
  <2>4. Once'
    BY <1>1, <2>0 DEF Once
  <2>5. QED
    BY <2>1, <2>2, <2>3, <2>4
<1>8. QED
  BY <1>5, <1>6, <1>7 DEF SignalIInv

LEMMA MarkLedgerHolds == ASSUME SignalIInv, NEW p \in Process, MarkLedger(p) PROVE SignalIInv'
<1>1. ledger' = beats[p].day /\ UNCHANGED <<on, utcDay, installId, ids, sent, twice, former, collided>>
  BY DEF MarkLedger, Rest
<1>2. PICK b \in SignalHeld : /\ b = [beats[p] EXCEPT !.step = "id"]
                              /\ b.step = "id" /\ b.day = beats[p].day /\ b.id = beats[p].id
  <2>1. beats[p] \in SignalHeld
    BY SignalHeldFacts
  <2>2. "id" \in SignalPlace
    BY DEF SignalPlace
  <2>3. QED
    BY <2>1, <2>2, StepOf
<1>3. b.step = "id" /\ b.day = beats[p].day /\ b.id = beats[p].id /\ Steps(p, b)
  BY <1>2, SignalHeldFacts DEF MarkLedger, SignalHeld
<1>4. beats' \in [Process -> SignalHeld] /\ beats'[p] = b /\ \A q \in Process \ {p} : beats'[q] = beats[q]
  BY <1>3, StepsFacts
<1>5. SignalTypes'
  BY <1>1, <1>4, SignalHeldFacts DEF SignalIInv, SignalTypes
<1>6. DaysPast'
  BY <1>1, <1>3, <1>4 DEF SignalIInv, DaysPast
<1>7. beats[p].step = "mark" /\ OnItsWay(p) /\ beats[p].step \in Inside
  BY DEF MarkLedger, OnItsWay, Inside
<1>8. OneInside'
  BY <1>4, <1>7 DEF SignalIInv, OneInside
<1>9. ASSUME ~collided' PROVE SignalForgotten' /\ Current' /\ LedgerAhead' /\ Once'
  <2>0. SignalForgotten /\ Current /\ LedgerAhead /\ Once
    BY <1>1, <1>9 DEF SignalIInv
  <2>1. SignalForgotten'
    BY <1>3, <1>4, <1>7, <2>0 DEF SignalForgotten
  <2>2. Current'
    BY <1>1, <1>3, <1>4, <2>0 DEF Current
  <2>3. ASSUME HasFlock
        PROVE  /\ \A x \in sent' : Gone(x, ledger + 1)' /\ Gone(x, ledger)'
               /\ \A q \in Process : beats'[q].step \in Inside => q = p
    <3>1. \A q \in Process : beats[q].step \in Inside => q = p
      BY <1>7, <2>3 DEF SignalIInv, OneInside
    <3>2. ledger < beats[p].day /\ \A x \in sent : Gone(x, ledger + 1)
      BY <1>7, <2>0, <2>3 DEF LedgerAhead
    <3>3. ledger \in Nat /\ beats[p].day \in Nat /\ \A x \in sent : x[2] \in Nat
      BY SignalHeldFacts DEF SignalIInv, SignalTypes
    <3>4. \A q \in Process : beats'[q].step \in Inside => q = p
      BY <1>4, <3>1
    <3>5. \A x \in sent : x[1] \in former \/ (x[2] < beats[p].day + 1 /\ x[2] < beats[p].day)
      BY <3>2, <3>3 DEF Gone
    <3>6. QED
      BY <1>1, <3>4, <3>5 DEF Gone
  <2>4. LedgerAhead'
    <3> SUFFICES ASSUME HasFlock PROVE LedgerAhead'
      BY DEF LedgerAhead
    <3>1. \A q \in Process : beats'[q].step \in {"mark", "id", "make", "send"} => q = p
      BY <2>3 DEF Inside
    <3>2. \A q \in Process : beats'[q].step # "mark"
      BY <1>3, <1>4, <3>1
    <3>3. \A q \in Process : beats'[q].step \in {"id", "make", "send"} => ledger' = beats'[q].day
      BY <1>1, <1>3, <1>4, <3>1
    <3>4. QED
      BY <2>3, <3>2, <3>3 DEF LedgerAhead
  <2>5. Once'
    BY <1>1, <2>0 DEF Once
  <2>6. QED
    BY <2>1, <2>2, <2>4, <2>5
<1>10. QED
  BY <1>5, <1>6, <1>8, <1>9 DEF SignalIInv

LEMMA SendHolds == ASSUME SignalIInv, NEW p \in Process, Send(p) PROVE SignalIInv'
<1>1. Steps(p, Waiting) /\ UNCHANGED <<on, utcDay, installId, ids, ledger, former, collided>>
  BY DEF Send, Rest
<1>2. /\ sent' = sent \cup {<<beats[p].id, beats[p].day>>}
      /\ twice' = (twice \/ \E x \in sent : x[2] = beats[p].day /\ (x[1] = beats[p].id \/ x[1] \notin former))
  BY DEF Send
<1>3. beats' \in [Process -> SignalHeld] /\ beats'[p] = Waiting /\ \A q \in Process \ {p} : beats'[q] = beats[q]
  BY <1>1, WaitingHeld, StepsFacts
<1>4. beats[p].step = "send" /\ beats[p].id \in 1..ids /\ beats[p].day \in Nat /\ beats[p].step \in Inside
  BY SignalHeldFacts DEF Send, SignalIInv, DaysPast, Inside
<1>5. SignalTypes'
  <2>1. twice' \in BOOLEAN
    BY <1>2 DEF SignalIInv, SignalTypes
  <2>2. sent' \subseteq (1..ids) \X Nat
    BY <1>2, <1>4 DEF SignalIInv, SignalTypes
  <2>3. QED
    BY <1>1, <1>3, <2>1, <2>2 DEF SignalIInv, SignalTypes
<1>6. DaysPast' /\ OneInside'
  BY <1>1, <1>3, WaitingHeld DEF SignalIInv, SignalTypes, DaysPast, OneInside, Inside
<1>7. ASSUME ~collided' PROVE SignalForgotten' /\ Current' /\ LedgerAhead' /\ Once'
  <2>0. SignalForgotten /\ Current /\ LedgerAhead /\ Once
    BY <1>1, <1>7 DEF SignalIInv
  <2>1. SignalForgotten'
    BY <1>1, <1>3, <2>0, WaitingHeld DEF SignalForgotten, OnItsWay
  <2>2. Current'
    BY <1>1, <1>3, <2>0, WaitingHeld DEF Current
  <2>3. ASSUME HasFlock
        PROVE  /\ ledger = beats[p].day /\ \A x \in sent : Gone(x, ledger) /\ x[2] \in Nat
               /\ \A q \in Process : beats'[q].step \notin Inside
    <3>1. \A q \in Process : beats[q].step \in Inside => q = p
      BY <1>4, <2>3 DEF SignalIInv, OneInside
    <3>2. \A q \in Process : beats'[q].step \notin Inside
      BY <1>3, <3>1, WaitingHeld DEF Inside
    <3>3. QED
      BY <1>4, <2>0, <2>3, <3>2 DEF LedgerAhead, SignalIInv, SignalTypes
  <2>4. LedgerAhead'
    <3> SUFFICES ASSUME HasFlock PROVE LedgerAhead'
      BY DEF LedgerAhead
    <3>1. \A x \in sent' : Gone(x, ledger + 1)'
      <4>1. ledger \in Nat
        BY SignalHeldFacts
      <4>2. \A x \in sent : x[1] \in former \/ x[2] < ledger + 1
        BY <2>3, <4>1 DEF Gone
      <4>3. PICK x0 : x0 = <<beats[p].id, beats[p].day>>
        OBVIOUS
      <4>4. x0[2] < ledger + 1 /\ sent' = sent \cup {x0}
        BY <1>2, <2>3, <4>1, <4>3
      <4>5. \A x \in sent' : x[1] \in former \/ x[2] < ledger + 1
        BY <4>2, <4>4
      <4>6. QED
        BY <1>1, <4>5 DEF Gone
    <3>2. \A q \in Process : beats'[q].step \notin {"mark", "id", "make", "send"}
      BY <2>3 DEF Inside
    <3>3. QED
      BY <3>1, <3>2 DEF LedgerAhead
  <2>5. Once'
    <3> SUFFICES ASSUME HasFlock PROVE ~twice'
      BY DEF Once
    <3>1. ~\E x \in sent : x[2] = beats[p].day /\ (x[1] = beats[p].id \/ x[1] \notin former)
      BY <1>4, <2>0, <2>3 DEF Gone, Current
    <3>2. QED
      BY <1>2, <2>0, <3>1 DEF Once
  <2>6. QED
    BY <2>1, <2>2, <2>4, <2>5
<1>8. QED
  BY <1>5, <1>6, <1>7 DEF SignalIInv

LEMMA SignalNextHolds == SignalIInv /\ [SignalNext]_signalVars => SignalIInv'
<1> SUFFICES ASSUME SignalIInv, [SignalNext]_signalVars PROVE SignalIInv'
  OBVIOUS
<1>1. CASE UNCHANGED signalVars
  BY <1>1 DEF signalVars, SignalIInv, SignalTypes, DaysPast, OneInside, SignalForgotten, Current, LedgerAhead,
     Once, Gone, OnItsWay
<1>2. CASE Answer \/ NextDay
  BY <1>2, AnswerHolds, NextDayHolds
<1>3. ASSUME NEW p \in Process,
             \/ Beat(p) \/ ForgetId(p) \/ ForgetLedger(p) \/ Lock(p) \/ ReadLedger(p)
             \/ MarkLedger(p) \/ ReadId(p) \/ MakeId(p) \/ Send(p) \/ Drop(p)
      PROVE  SignalIInv'
  BY <1>3, BeatHolds, ForgetIdHolds, ForgetLedgerHolds, LockHolds, ReadLedgerHolds, MarkLedgerHolds, ReadIdHolds,
     MakeIdHolds, SendHolds, DropHolds
<1>4. QED
  BY <1>1, <1>2, <1>3 DEF SignalNext

(* Where the system has file locks, and no id is forgotten while another process is on its way to send,   *)
(* one install's signal goes once a day, however many servers run and whenever one of them dies; and      *)
(* after a no, a later yes makes an install of its own (install_signal.py: beat, tick, forget).           *)
THEOREM SignalOnce == SignalSpec => []SignalInv
<1>1. SignalIInv => SignalInv
  BY DEF SignalIInv, SignalInv, OnceADay, NewInstall, Once, Current
<1>2. QED
  BY <1>1, SignalInitHolds, SignalNextHolds, PTL DEF SignalSpec

-----------------------------------------------------------------------------
(* The theorem about LocalConfig: for any number of commands, servers, vaults and folders, what a machine *)
(* remembers of its vaults is what its commands have done, unless one overtook another.                   *)

ServerCommands == {"login", "logout", "use", "use folder", "drop", "setup server"}
ConfigCommands == {"setup s3", "setup folder", "setup server", "signals"}
Name == Slug \cup {Nowhere}
State == [vaults : SUBSET Name, default : Name, dirs : [Folder -> Name]]
Servers == [Url -> State]
Document == [servers : Servers, s3 : BOOLEAN]
Table == [vault : {"none", "folder", "s3"} \cup Url, signals : {"unasked", "yes", "no"}]
ConfigPlace == {"rest", "s3", "config", "wait", "state", "document", "replace", "write"}
ConfigHeld == [does : ServerCommands \cup ConfigCommands \cup {"rest"}, url : Url \cup {Nowhere}, slug : Name,
         folder : Folder \cup {Nowhere}, step : ConfigPlace, whole : {Nowhere} \cup Servers \cup Document \cup Table,
         crossed : BOOLEAN]

(* Which steps a command has, and what it has in hand there.                                              *)
Shape(p) ==
  /\ p.step \in {"wait", "state", "document"} => p.does \in ServerCommands
  /\ p.step = "s3" => p.does = "setup s3"
  /\ p.step = "replace" => p.does \in ServerCommands \cup {"setup s3"}
  /\ p.step \in {"config", "write"} => p.does \in ConfigCommands
  /\ p.does \in ServerCommands => p.url \in Url
  /\ p.does \in {"use", "use folder"} => p.slug \in Slug
  /\ p.does \in {"use folder", "drop"} => p.folder \in Folder
  /\ p.step = "document" => p.whole \in Servers
  /\ p.step = "replace" => p.whole \in Document
  /\ p.step = "write" => p.whole \in Table
ConfigTypes ==
  /\ config \in Table /\ credentials \in Document /\ proc \in [Command -> ConfigHeld]
  /\ signedIn \subseteq Url \X Name /\ overlapped \in BOOLEAN
Shapes == \A c \in Command : Shape(proc[c])

(* While nobody overtook a command, it has in hand what is in the file, with its own change.              *)
Server(p) == credentials.servers[p.url]
Next(p) == [credentials.servers EXCEPT ![p.url] = Changed(p, Server(p))]
Fresh(p) == ~p.crossed =>
  /\ p.step = "document" => p.whole[p.url] = Changed(p, Server(p)) /\ (p.does = "logout" => p.whole = Next(p))
  /\ p.step = "replace" =>
       /\ p.whole.servers = IF p.does = "setup s3" THEN credentials.servers ELSE Next(p)
       /\ credentials.s3 \/ p.does = "setup s3" => p.whole.s3
  /\ p.step = "write" /\ p.does = "signals" => p.whole.vault = config.vault
Names(p) == p.step = "write" =>
  /\ p.does = "setup server" => p.whole.vault = p.url
  /\ p.does = "setup s3" => p.whole.vault = "s3"
  /\ p.does = "setup folder" => p.whole.vault = "folder"
InHand == \A c \in Command : Names(proc[c]) /\ (overlapped \/ Fresh(proc[c]))

(* A setup for a bucket goes on to the config when the keys are stored.                                   *)
HasKeys(p) == p.does = "setup s3" /\ p.step \in {"config", "write"} => credentials.s3 \/ overlapped
KeysFirst == \A c \in Command : HasKeys(proc[c])

(* A server that the config names, and nobody signed out of, is signed in to or about to be.              *)
SigningIn(p, u) == p.does = "setup server" /\ p.url = u /\ p.step \in {"wait", "state", "document", "replace"}
SignedInOrAbout == ~overlapped => \A u \in Url \ unsigned : config.vault = u =>
  credentials.servers[u].vaults # {} \/ \E c \in Command : SigningIn(proc[c], u)

ConfigIInv ==
  ConfigTypes /\ Shapes /\ InHand /\ KeysFirst /\ BucketHasKeys /\ SignedInKept /\ DefaultHeld /\ SignedInOrAbout

LEMMA Names3 == "s3" \notin Url /\ "none" \notin Url /\ "folder" \notin Url /\ Nowhere \notin Slug
BY LocalConfigAssumption DEF LocalConfigAssumption
-----------------------------------------------------------------------------
LEMMA AtRestHeld ==
  /\ AtRest \in ConfigHeld /\ AtRest.step = "rest" /\ AtRest.does = "rest" /\ ~AtRest.crossed
  /\ \A does \in ConfigCommands \ {"setup server"} : \A q : q = [AtRest EXCEPT !.does = does, !.step = "config"] =>
       q \in ConfigHeld /\ q.does = does /\ q.step = "config" /\ ~q.crossed
BY DEF AtRest, ConfigHeld, ConfigPlace, ServerCommands, ConfigCommands, Name

(* What a setup goes on with.                                                                             *)
LEMMA ThenFacts ==
  ASSUME NEW p, NEW next \in Then(p)
  PROVE  /\ next \in ConfigHeld /\ next.step \in {"rest", "config"} /\ next.does \in {"rest", "signals"}
         /\ next.does = "rest" <=> next.step = "rest"
<1>1. CASE next = AtRest
  BY <1>1, AtRestHeld
<1>2. CASE next = [AtRest EXCEPT !.does = "signals", !.step = "config"]
  <2>1. "signals" \in ConfigCommands \ {"setup server"}
    BY DEF ConfigCommands
  <2>2. next \in ConfigHeld /\ next.does = "signals" /\ next.step = "config"
    BY <1>2, <2>1, AtRestHeld
  <2>3. QED
    BY <2>2
<1>3. QED
  BY <1>1, <1>2 DEF Then

(* Who rests, or is about to read the config, has nothing in hand.                                        *)
LEMMA EmptyHanded ==
  ASSUME NEW q \in ConfigHeld, q.step \in {"rest", "config"}, q.does \in {"rest", "setup s3", "signals"},
         q.does = "rest" <=> q.step = "rest"
  PROVE  Shape(q) /\ Names(q) /\ Fresh(q)
BY DEF Shape, Names, Fresh, ServerCommands, ConfigCommands

LEMMA ConfigInitHolds == ConfigInit => ConfigIInv
<1> SUFFICES ASSUME ConfigInit PROVE ConfigIInv
  OBVIOUS
<1>1. Empty \in State /\ Empty.vaults = {} /\ Empty.default = Nowhere
  BY DEF Empty, State, Name
<1>2. [u \in Url |-> Empty] \in Servers
  BY <1>1 DEF Servers
<1>3. credentials \in Document /\ config \in Table /\ config.vault = "none"
  BY <1>2 DEF ConfigInit, Document, Table
<1>4. ConfigTypes
  BY <1>3, AtRestHeld DEF ConfigInit, ConfigTypes
<1>5. \A c \in Command : proc[c] = AtRest
  BY DEF ConfigInit
<1>6. Shapes /\ InHand
  BY <1>5, AtRestHeld, EmptyHanded DEF Shapes, InHand
<1>7. KeysFirst /\ BucketHasKeys /\ SignedInOrAbout
  <2>1. KeysFirst
    BY <1>5, AtRestHeld DEF KeysFirst, HasKeys
  <2>2. \A u \in Url : config.vault # u
    BY <1>3, Names3
  <2>3. BucketHasKeys /\ SignedInOrAbout
    BY <1>3, <2>2 DEF BucketHasKeys, SignedInOrAbout
  <2>4. QED
    BY <2>1, <2>3
<1>8. SignedInKept /\ DefaultHeld
  BY <1>1 DEF ConfigInit, SignedInKept, DefaultHeld
<1>9. QED
  BY <1>4, <1>6, <1>7, <1>8 DEF ConfigIInv

(* A step of one command that leaves the files as they are.                                               *)
LEMMA GoesHolds ==
  ASSUME ConfigIInv, NEW c \in Command, NEW q \in ConfigHeld, Goes(c, q),
         UNCHANGED <<config, credentials, chose, signedIn, overlapped>>, unsigned \subseteq unsigned',
         Shape(q), Names(q), overlapped \/ Fresh(q), HasKeys(q),
         \A u \in Url : SigningIn(proc[c], u) => SigningIn(q, u) \/ u \in unsigned'
  PROVE  ConfigIInv'
<1>1. proc' \in [Command -> ConfigHeld] /\ proc'[c] = q /\ \A d \in Command \ {c} : proc'[d] = proc[d]
  BY DEF Goes, ConfigIInv, ConfigTypes
<1>2. ConfigTypes'
  BY <1>1 DEF ConfigIInv, ConfigTypes
<1>3. Shapes'
  BY <1>1 DEF ConfigIInv, Shapes, Shape
<1>4. InHand'
  <2> SUFFICES ASSUME NEW d \in Command PROVE Names(proc[d])' /\ (overlapped' \/ Fresh(proc[d])')
    BY DEF InHand
  <2>1. PICK p : p = proc'[d]
    OBVIOUS
  <2>2. Names(p) /\ (overlapped \/ Fresh(p))
    BY <1>1, <2>1 DEF ConfigIInv, InHand
  <2>3. Names(proc[d])'
    BY <2>1, <2>2 DEF Names
  <2>4. Fresh(p) => Fresh(proc[d])'
    BY <2>1 DEF Fresh, Next, Server
  <2>5. QED
    BY <2>2, <2>3, <2>4
<1>5. KeysFirst'
  BY <1>1 DEF ConfigIInv, KeysFirst, HasKeys
<1>6. BucketHasKeys' /\ SignedInKept' /\ DefaultHeld'
  BY DEF ConfigIInv, BucketHasKeys, SignedInKept, DefaultHeld
<1>7. SignedInOrAbout'
  <2> SUFFICES ASSUME ~overlapped, NEW u \in Url \ unsigned', config.vault = u, credentials.servers[u].vaults = {}
               PROVE  \E d \in Command : SigningIn(proc'[d], u)
    BY DEF SignedInOrAbout, SigningIn
  <2>1. PICK d \in Command : SigningIn(proc[d], u)
    BY DEF ConfigIInv, SignedInOrAbout
  <2>2. QED
    BY <1>1, <2>1
<1>8. QED
  BY <1>2, <1>3, <1>4, <1>5, <1>6, <1>7 DEF ConfigIInv

LEMMA ConfigHeldFacts == ConfigIInv => \A c \in Command :
  /\ proc[c] \in ConfigHeld /\ Shape(proc[c]) /\ Names(proc[c]) /\ HasKeys(proc[c])
BY DEF ConfigIInv, ConfigTypes, Shapes, InHand, KeysFirst

(* What a command that is started is told.                                                                *)
LEMMA WaysFacts ==
  ASSUME NEW does \in {"setup s3", "setup folder", "setup server", "signals", "login", "logout", "use", "use folder",
                       "drop"}, NEW way \in Ways(does)
  PROVE  /\ way.url \in Url \cup {Nowhere} /\ way.slug \in Name /\ way.folder \in Folder \cup {Nowhere}
         /\ does \in ServerCommands => way.url \in Url
         /\ does \in {"use", "use folder"} => way.slug \in Slug
         /\ does \in {"use folder", "drop"} => way.folder \in Folder
         /\ FirstStep(does) \in {"s3", "config", "wait", "state"}
         /\ FirstStep(does) = "s3" <=> does = "setup s3"
         /\ FirstStep(does) = "config" => does \in ConfigCommands \ {"setup s3"}
         /\ FirstStep(does) \in {"wait", "state"} => does \in ServerCommands \ {"setup server"}
<1>1. /\ way.url \in Url \cup {Nowhere} /\ (does \in ServerCommands => way.url \in Url)
  BY DEF Ways, ServerCommands
<1>2. /\ way.slug \in Name /\ (does \in {"use", "use folder"} => way.slug \in Slug)
  BY DEF Ways, Name
<1>3. way.folder \in Folder \cup {Nowhere} /\ (does \in {"use folder", "drop"} => way.folder \in Folder)
  BY DEF Ways
<1>4. /\ FirstStep(does) \in {"s3", "config", "wait", "state"}
      /\ FirstStep(does) = "s3" <=> does = "setup s3"
      /\ FirstStep(does) = "config" => does \in ConfigCommands \ {"setup s3"}
      /\ FirstStep(does) \in {"wait", "state"} => does \in ServerCommands \ {"setup server"}
  BY DEF FirstStep, ConfigCommands, ServerCommands
<1>5. QED
  BY <1>1, <1>2, <1>3, <1>4

LEMMA StartHolds == ASSUME ConfigIInv, NEW c \in Command, Start(c) PROVE ConfigIInv'
<1>1. PICK does \in {"setup s3", "setup folder", "setup server", "signals", "login", "logout", "use", "use folder",
                     "drop"} : \E way \in Ways(does) :
        /\ proc[c].does = "rest"
        /\ Goes(c, [AtRest EXCEPT !.does = does, !.step = FirstStep(does), !.url = way.url, !.slug = way.slug,
                                  !.folder = way.folder])
        /\ UNCHANGED <<Unwritten, kills>>
  BY DEF Start
<1>2. PICK way \in Ways(does) :
        /\ proc[c].does = "rest"
        /\ Goes(c, [AtRest EXCEPT !.does = does, !.step = FirstStep(does), !.url = way.url, !.slug = way.slug,
                                  !.folder = way.folder])
        /\ UNCHANGED <<Unwritten, kills>>
  BY <1>1
<1>3. PICK step : step = FirstStep(does)
  OBVIOUS
<1>4. /\ way.url \in Url \cup {Nowhere} /\ way.slug \in Name /\ way.folder \in Folder \cup {Nowhere}
      /\ does \in ServerCommands => way.url \in Url
      /\ does \in {"use", "use folder"} => way.slug \in Slug
      /\ does \in {"use folder", "drop"} => way.folder \in Folder
      /\ step \in {"s3", "config", "wait", "state"}
      /\ step = "s3" => does = "setup s3"
      /\ step = "config" => does \in ConfigCommands \ {"setup s3"}
      /\ step \in {"wait", "state"} => does \in ServerCommands \ {"setup server"}
  BY <1>3, WaysFacts
<1>5. PICK q : q = [AtRest EXCEPT !.does = does, !.step = step, !.url = way.url, !.slug = way.slug,
                                  !.folder = way.folder]
  OBVIOUS
<1>6. /\ q \in ConfigHeld /\ q.does = does /\ q.step = step /\ q.url = way.url /\ q.slug = way.slug
      /\ q.folder = way.folder
  BY <1>4, <1>5 DEF AtRest, ConfigHeld, ConfigPlace, ServerCommands, ConfigCommands
<1>7. Shape(q) /\ Names(q) /\ Fresh(q) /\ HasKeys(q)
  BY <1>4, <1>6 DEF Shape, Names, Fresh, HasKeys
<1>8. Goes(c, q) /\ UNCHANGED <<config, credentials, chose, signedIn, overlapped, unsigned>>
  BY <1>2, <1>3, <1>5 DEF Unwritten
<1>9. \A u \in Url : ~SigningIn(proc[c], u)
  BY <1>2 DEF SigningIn
<1>10. QED
  BY <1>6, <1>7, <1>8, <1>9, GoesHolds

LEMMA GrantedHolds == ASSUME ConfigIInv, NEW c \in Command, Granted(c) PROVE ConfigIInv'
<1>1. PICK s \in IF proc[c].slug = Nowhere THEN Slug \cup {Nowhere} ELSE {proc[c].slug} :
        Goes(c, [proc[c] EXCEPT !.step = "state", !.slug = s])
  BY DEF Granted
<1>2. s \in Name /\ proc[c] \in ConfigHeld /\ Shape(proc[c]) /\ proc[c].step = "wait"
      /\ (proc[c].does \in {"use", "use folder"} => s = proc[c].slug)
  BY <1>1, ConfigHeldFacts, Names3 DEF Granted, ConfigHeld, Name, Shape
<1>3. PICK q : q = [proc[c] EXCEPT !.step = "state", !.slug = s]
  OBVIOUS
<1>4. /\ q \in ConfigHeld /\ q.does = proc[c].does /\ q.step = "state" /\ q.url = proc[c].url /\ q.slug = s
      /\ q.folder = proc[c].folder
  BY <1>2, <1>3 DEF ConfigHeld, ConfigPlace
<1>5. Shape(q) /\ Names(q) /\ Fresh(q) /\ HasKeys(q)
  BY <1>2, <1>4 DEF Shape, Names, Fresh, HasKeys
<1>6. Goes(c, q) /\ UNCHANGED <<config, credentials, chose, signedIn, overlapped, unsigned>>
  BY <1>1, <1>3 DEF Granted, Unwritten
<1>7. \A u \in Url : SigningIn(proc[c], u) => SigningIn(q, u)
  BY <1>4 DEF SigningIn
<1>8. QED
  BY <1>4, <1>5, <1>6, <1>7, GoesHolds

(* A command that ends without a change, and what it had not signed in to is known.                       *)
LEMMA ConfigEndsHolds ==
  ASSUME ConfigIInv, NEW c \in Command, Goes(c, AtRest), UNCHANGED <<config, credentials, chose, signedIn, overlapped>>,
         unsigned' = IF proc[c].does = "setup server" THEN unsigned \cup {proc[c].url} ELSE unsigned
  PROVE  ConfigIInv'
<1>1. Shape(AtRest) /\ Names(AtRest) /\ Fresh(AtRest) /\ HasKeys(AtRest) /\ AtRest \in ConfigHeld
  BY AtRestHeld, EmptyHanded DEF HasKeys
<1>2. \A u \in Url : SigningIn(proc[c], u) => u \in unsigned'
  BY DEF SigningIn
<1>3. unsigned \subseteq unsigned'
  OBVIOUS
<1>4. QED
  BY <1>1, <1>2, <1>3, GoesHolds

LEMMA RefusedHolds == ASSUME ConfigIInv, NEW c \in Command, Refused(c) PROVE ConfigIInv'
BY ConfigEndsHolds DEF Refused
LEMMA KillHolds == ASSUME ConfigIInv, NEW c \in Command, Kill(c) PROVE ConfigIInv'
BY ConfigEndsHolds DEF Kill

(* What the commands make of a server's state.                                                            *)
LEMMA ChangedFacts ==
  ASSUME NEW p \in ConfigHeld, Shape(p), p.does \in ServerCommands, NEW state \in State
  PROVE  /\ Changed(p, state) \in State
         /\ p.does \in {"login", "setup server"} => Changed(p, state).vaults = state.vaults \cup {p.slug}
         /\ p.does \in {"login", "setup server"} =>
              Changed(p, state).default = state.default \/ Changed(p, state).default = p.slug
         /\ p.does = "logout" =>
              IF p.slug = Nowhere THEN Changed(p, state).vaults = {} /\ Changed(p, state).default = Nowhere
              ELSE /\ Changed(p, state).vaults = state.vaults \ {p.slug}
                   /\ Changed(p, state).default = IF state.default = p.slug THEN Nowhere ELSE state.default
         /\ p.does \in {"use", "use folder", "drop"} => Changed(p, state).vaults = state.vaults
         /\ p.does = "use" => Changed(p, state).default = p.slug
         /\ p.does \in {"use folder", "drop"} => Changed(p, state).default = state.default
<1>1. CASE p.does \in {"login", "setup server"}
  <2>1. Changed(p, state) = Saved(state, p.slug)
    BY <1>1 DEF Changed
  <2>2. p.slug \in Name
    BY DEF ConfigHeld
  <2>3. Saved(state, p.slug) \in State /\ Saved(state, p.slug).vaults = state.vaults \cup {p.slug}
        /\ (Saved(state, p.slug).default = state.default \/ Saved(state, p.slug).default = p.slug)
    BY <2>2 DEF Saved, State
  <2>4. QED
    BY <1>1, <2>1, <2>3
<1>2. CASE p.does = "logout"
  <2>1. Changed(p, state) = Forgotten(state, p.slug)
    BY <1>2 DEF Changed
  <2>2. Empty \in State /\ Empty.vaults = {} /\ Empty.default = Nowhere
    BY DEF Empty, State, Name
  <2>3. p.slug # Nowhere =>
          /\ Forgotten(state, p.slug) \in State /\ Forgotten(state, p.slug).vaults = state.vaults \ {p.slug}
          /\ Forgotten(state, p.slug).default = IF state.default = p.slug THEN Nowhere ELSE state.default
    BY DEF Forgotten, State, Name
  <2>4. p.slug = Nowhere => Forgotten(state, p.slug) = Empty
    BY DEF Forgotten
  <2>5. QED
    BY <1>2, <2>1, <2>2, <2>3, <2>4
<1>3. CASE p.does = "use"
  <2>1. Changed(p, state) = [state EXCEPT !.default = p.slug]
    BY <1>3 DEF Changed
  <2>2. QED
    BY <1>3, <2>1 DEF State, ConfigHeld
<1>4. CASE p.does \in {"use folder", "drop"}
  <2>1. PICK s \in Name : Changed(p, state) = [state EXCEPT !.dirs[p.folder] = s]
    BY <1>4 DEF Changed, ConfigHeld, Name
  <2>2. QED
    BY <1>4, <2>1 DEF State
<1>5. QED
  BY <1>1, <1>2, <1>3, <1>4 DEF ServerCommands

LEMMA NextType ==
  ASSUME ConfigIInv, NEW c \in Command, proc[c].does \in ServerCommands
  PROVE  /\ Next(proc[c]) \in Servers /\ Server(proc[c]) \in State /\ proc[c].url \in Url
         /\ Next(proc[c])[proc[c].url] = Changed(proc[c], Server(proc[c]))
         /\ \A u \in Url \ {proc[c].url} : Next(proc[c])[u] = credentials.servers[u]
<1>1. credentials.servers \in Servers /\ proc[c].url \in Url
  BY ConfigHeldFacts DEF ConfigIInv, ConfigTypes, Document, Shape
<1>2. Server(proc[c]) \in State
  BY <1>1 DEF Server, Servers
<1>3. Changed(proc[c], Server(proc[c])) \in State
  BY <1>2, ConfigHeldFacts, ChangedFacts
<1>4. QED
  BY <1>1, <1>2, <1>3 DEF Next, Servers

LEMMA ReadStateHolds == ASSUME ConfigIInv, NEW c \in Command, ReadState(c) PROVE ConfigIInv'
<1>1. proc[c].step = "state" /\ UNCHANGED <<config, credentials, chose, signedIn, overlapped, unsigned>>
      /\ proc[c] \in ConfigHeld /\ Shape(proc[c]) /\ proc[c].does \in ServerCommands
  BY ConfigHeldFacts DEF ReadState, Unwritten, Shape
<1>2. CASE NothingToDo(proc[c], credentials.servers[proc[c].url])
  <2>1. Goes(c, AtRest) /\ proc[c].does # "setup server"
    BY <1>2 DEF ReadState, NothingToDo
  <2>2. QED
    BY <1>1, <2>1, ConfigEndsHolds
<1>3. CASE ~NothingToDo(proc[c], credentials.servers[proc[c].url])
  <2>1. PICK q : q = [proc[c] EXCEPT !.step = "document", !.whole = Next(proc[c])]
    OBVIOUS
  <2>2. Goes(c, q)
    BY <1>3, <2>1 DEF ReadState, Next, Server
  <2>3. /\ q \in ConfigHeld /\ q.does = proc[c].does /\ q.step = "document" /\ q.url = proc[c].url /\ q.slug = proc[c].slug
        /\ q.folder = proc[c].folder /\ q.whole = Next(proc[c])
    BY <1>1, <2>1, NextType DEF ConfigHeld, ConfigPlace
  <2>4. Shape(q)
    BY <1>1, <2>3, NextType DEF Shape
  <2>5. Changed(q, Server(q)) = Changed(proc[c], Server(proc[c])) /\ Next(q) = Next(proc[c])
    BY <2>3 DEF Changed, Server, Next
  <2>6. Names(q) /\ Fresh(q) /\ HasKeys(q)
    BY <1>1, <2>3, <2>5, NextType DEF Names, Fresh, HasKeys
  <2>7. \A u \in Url : SigningIn(proc[c], u) => SigningIn(q, u)
    BY <2>3 DEF SigningIn
  <2>8. QED
    BY <1>1, <2>2, <2>3, <2>4, <2>6, <2>7, GoesHolds
<1>4. QED
  BY <1>2, <1>3

LEMMA ReadDocumentHolds == ASSUME ConfigIInv, NEW c \in Command, ReadDocument(c) PROVE ConfigIInv'
<1>1. UNCHANGED <<config, credentials, chose, signedIn, overlapped, unsigned>>
      /\ proc[c] \in ConfigHeld /\ Shape(proc[c]) /\ credentials \in Document
  BY ConfigHeldFacts DEF ReadDocument, Unwritten, ConfigIInv, ConfigTypes
<1>2. PICK servers : servers = IF proc[c].does = "logout" THEN proc[c].whole
                               ELSE [credentials.servers EXCEPT ![proc[c].url] = proc[c].whole[proc[c].url]]
  OBVIOUS
<1>3. CASE proc[c].step = "s3" /\ Goes(c, [proc[c] EXCEPT !.step = "replace", !.whole = [credentials EXCEPT !.s3 = TRUE]])
  <2>1. PICK whole : whole = [credentials EXCEPT !.s3 = TRUE]
    OBVIOUS
  <2>2. whole \in Document /\ whole.servers = credentials.servers /\ whole.s3
    BY <1>1, <2>1 DEF Document
  <2>3. PICK q : q = [proc[c] EXCEPT !.step = "replace", !.whole = whole]
    OBVIOUS
  <2>4. /\ q \in ConfigHeld /\ q.does = proc[c].does /\ q.step = "replace" /\ q.url = proc[c].url /\ q.slug = proc[c].slug
        /\ q.folder = proc[c].folder /\ q.whole = whole
    BY <1>1, <2>2, <2>3 DEF ConfigHeld, ConfigPlace
  <2>5. q.does = "setup s3"
    BY <1>1, <1>3, <2>4 DEF Shape
  <2>6. Shape(q) /\ Names(q) /\ Fresh(q) /\ HasKeys(q)
    BY <2>2, <2>4, <2>5 DEF Shape, Names, Fresh, HasKeys, ServerCommands
  <2>7. Goes(c, q) /\ \A u \in Url : ~SigningIn(proc[c], u)
    BY <1>3, <2>1, <2>3 DEF SigningIn
  <2>8. QED
    BY <1>1, <2>4, <2>6, <2>7, GoesHolds
<1>4. CASE /\ proc[c].step = "document"
           /\ Goes(c, [proc[c] EXCEPT !.step = "replace", !.whole = [credentials EXCEPT !.servers = servers]])
  <2>0. proc[c].does \in ServerCommands /\ proc[c].whole \in Servers /\ proc[c].url \in Url
    BY <1>1, <1>4 DEF Shape
  <2>1. servers \in Servers
    BY <1>1, <1>2, <2>0 DEF Document, Servers
  <2>2. PICK whole : whole = [credentials EXCEPT !.servers = servers]
    OBVIOUS
  <2>3. whole \in Document /\ whole.servers = servers /\ whole.s3 = credentials.s3
    BY <1>1, <2>1, <2>2 DEF Document
  <2>4. PICK q : q = [proc[c] EXCEPT !.step = "replace", !.whole = whole]
    OBVIOUS
  <2>5. /\ q \in ConfigHeld /\ q.does = proc[c].does /\ q.step = "replace" /\ q.url = proc[c].url /\ q.slug = proc[c].slug
        /\ q.folder = proc[c].folder /\ q.whole = whole /\ q.crossed = proc[c].crossed
    BY <1>1, <2>3, <2>4 DEF ConfigHeld, ConfigPlace
  <2>6. Shape(q) /\ Names(q) /\ HasKeys(q)
    BY <1>1, <2>0, <2>3, <2>5 DEF Shape, Names, HasKeys
  <2>7. overlapped \/ Fresh(q)
    <3> SUFFICES ASSUME ~overlapped, ~q.crossed PROVE whole.servers = Next(q) /\ q.does # "setup s3"
      BY <2>3, <2>5 DEF Fresh
    <3>1. Next(q) = Next(proc[c])
      BY <2>5 DEF Changed, Server, Next
    <3>2. Fresh(proc[c])
      BY DEF ConfigIInv, InHand
    <3>3. servers = Next(proc[c])
      BY <1>2, <1>4, <2>5, <3>2 DEF Fresh, Next
    <3>4. QED
      BY <2>0, <2>3, <2>5, <3>1, <3>3 DEF ServerCommands
  <2>8. Goes(c, q) /\ \A u \in Url : SigningIn(proc[c], u) => SigningIn(q, u)
    BY <1>4, <2>2, <2>4, <2>5 DEF SigningIn
  <2>9. QED
    BY <1>1, <2>5, <2>6, <2>7, <2>8, GoesHolds
<1>5. QED
  BY <1>2, <1>3, <1>4 DEF ReadDocument

LEMMA ReadConfigHolds == ASSUME ConfigIInv, NEW c \in Command, ReadConfig(c) PROVE ConfigIInv'
<1>1. /\ proc[c].step = "config" /\ UNCHANGED <<config, credentials, chose, signedIn, overlapped, unsigned>>
      /\ proc[c] \in ConfigHeld /\ Shape(proc[c]) /\ HasKeys(proc[c]) /\ proc[c].does \in ConfigCommands /\ config \in Table
  BY ConfigHeldFacts DEF ReadConfig, Unwritten, Shape, ConfigIInv, ConfigTypes
<1>2. PICK table \in CASE proc[c].does = "signals" -> {[config EXCEPT !.signals = answer] : answer \in {"yes", "no"}}
                       [] proc[c].does = "setup s3" -> {[config EXCEPT !.vault = "s3"]}
                       [] proc[c].does = "setup folder" -> {[config EXCEPT !.vault = "folder"]}
                       [] proc[c].does = "setup server" -> {[config EXCEPT !.vault = proc[c].url]} :
        Goes(c, [proc[c] EXCEPT !.step = "write", !.whole = table])
  BY DEF ReadConfig
<1>3. /\ table \in Table
      /\ proc[c].does = "signals" => table.vault = config.vault
      /\ proc[c].does = "setup s3" => table.vault = "s3"
      /\ proc[c].does = "setup folder" => table.vault = "folder"
      /\ proc[c].does = "setup server" => table.vault = proc[c].url
  <2>1. CASE proc[c].does = "signals"
    <3>1. PICK answer \in {"yes", "no"} : table = [config EXCEPT !.signals = answer]
      BY <1>2, <2>1
    <3>2. QED
      BY <1>1, <2>1, <3>1 DEF Table
  <2>2. CASE proc[c].does = "setup s3"
    <3>1. table = [config EXCEPT !.vault = "s3"]
      BY <1>2, <2>2
    <3>2. QED
      BY <1>1, <2>2, <3>1 DEF Table
  <2>3. CASE proc[c].does = "setup folder"
    <3>1. table = [config EXCEPT !.vault = "folder"]
      BY <1>2, <2>3
    <3>2. QED
      BY <1>1, <2>3, <3>1 DEF Table
  <2>4. CASE proc[c].does = "setup server"
    <3>1. table = [config EXCEPT !.vault = proc[c].url] /\ proc[c].url \in Url
      BY <1>1, <1>2, <2>4 DEF Shape, ServerCommands
    <3>2. QED
      BY <1>1, <2>4, <3>1 DEF Table
  <2>5. QED
    BY <1>1, <2>1, <2>2, <2>3, <2>4 DEF ConfigCommands
<1>4. PICK q : q = [proc[c] EXCEPT !.step = "write", !.whole = table]
  OBVIOUS
<1>5. /\ q \in ConfigHeld /\ q.does = proc[c].does /\ q.step = "write" /\ q.url = proc[c].url /\ q.slug = proc[c].slug
      /\ q.folder = proc[c].folder /\ q.whole = table
  BY <1>1, <1>3, <1>4 DEF ConfigHeld, ConfigPlace
<1>6. Shape(q)
  BY <1>1, <1>3, <1>5 DEF Shape
<1>7. Names(q) /\ Fresh(q) /\ HasKeys(q)
  BY <1>1, <1>3, <1>5 DEF Names, Fresh, HasKeys
<1>8. Goes(c, q) /\ \A u \in Url : ~SigningIn(proc[c], u)
  BY <1>1, <1>2, <1>4 DEF SigningIn
<1>9. QED
  BY <1>1, <1>5, <1>6, <1>7, <1>8, GoesHolds
-----------------------------------------------------------------------------
(* What putting a file in place leaves of the processes.                                                  *)
LEMMA ReplacesFacts ==
  ASSUME ConfigIInv, NEW c \in Command, NEW next \in ConfigHeld, NEW busy, Replaces(c, next, busy)
  PROVE  /\ proc' \in [Command -> ConfigHeld] /\ proc'[c] = next
         /\ overlapped' \in BOOLEAN /\ (~overlapped' => ~overlapped /\ ~proc[c].crossed)
         /\ \A d \in Command \ {c} :
              /\ proc'[d].does = proc[d].does /\ proc'[d].step = proc[d].step /\ proc'[d].url = proc[d].url
              /\ proc'[d].slug = proc[d].slug /\ proc'[d].folder = proc[d].folder /\ proc'[d].whole = proc[d].whole
              /\ ~proc'[d].crossed => ~proc[d].crossed /\ proc[d].step \notin busy
<1>1. \A d \in Command : proc[d] \in ConfigHeld
  BY ConfigHeldFacts
<1>2. \A d \in Command \ {c} :
        /\ proc'[d] \in ConfigHeld
        /\ proc'[d].does = proc[d].does /\ proc'[d].step = proc[d].step /\ proc'[d].url = proc[d].url
        /\ proc'[d].slug = proc[d].slug /\ proc'[d].folder = proc[d].folder /\ proc'[d].whole = proc[d].whole
        /\ ~proc'[d].crossed => ~proc[d].crossed /\ proc[d].step \notin busy
  BY <1>1 DEF Replaces, ConfigHeld
<1>3. proc'[c] = next /\ proc' \in [Command -> ConfigHeld]
  BY <1>2 DEF Replaces
<1>4. overlapped' \in BOOLEAN /\ (~overlapped' => ~overlapped /\ ~proc[c].crossed)
  BY <1>1 DEF Replaces, ConfigIInv, ConfigTypes, ConfigHeld
<1>5. QED
  BY <1>2, <1>3, <1>4

(* A new document: where nobody was overtaken, it differs from the one before by one command's change.    *)
LEMMA ReplaceCredentialsHolds == ASSUME ConfigIInv, NEW c \in Command, ReplaceCredentials(c) PROVE ConfigIInv'
<1>0. PICK p \in ConfigHeld : p = proc[c]
  BY ConfigHeldFacts
<1>1. /\ p.step = "replace" /\ credentials' = p.whole /\ UNCHANGED config /\ signedIn' = Answered(p)
      /\ chose' = IF p.does = "use" THEN chose \cup {<<p.url, p.slug>>} ELSE chose
      /\ unsigned' = IF p.does = "logout" THEN unsigned \cup {p.url} ELSE unsigned
  BY <1>0 DEF ReplaceCredentials
<1>2. PICK next :
        /\ next \in IF p.does = "setup s3" THEN {[AtRest EXCEPT !.does = p.does, !.step = "config"]} ELSE Then(p)
        /\ Replaces(c, next, {"document", "replace"})
  BY <1>0 DEF ReplaceCredentials
<1>3. /\ next \in ConfigHeld /\ next.step \in {"rest", "config"} /\ next.does \in {"rest", "setup s3", "signals"}
      /\ next.does = "rest" <=> next.step = "rest"
      /\ next.does = "setup s3" => p.does = "setup s3"
  <2>1. CASE p.does = "setup s3"
    <3>1. "setup s3" \in ConfigCommands \ {"setup server"} /\ next = [AtRest EXCEPT !.does = "setup s3", !.step = "config"]
      BY <1>2, <2>1 DEF ConfigCommands
    <3>2. next \in ConfigHeld /\ next.does = "setup s3" /\ next.step = "config"
      BY <3>1, AtRestHeld
    <3>3. QED
      BY <2>1, <3>2
  <2>2. CASE p.does # "setup s3"
    <3>1. next \in Then(p)
      BY <1>2, <2>2
    <3>2. QED
      BY <3>1, ThenFacts
  <2>3. QED
    BY <2>1, <2>2
<1>4. Shape(next) /\ Names(next)
  BY <1>3, EmptyHanded
<1>5. /\ Shape(p) /\ p.does \in ServerCommands \cup {"setup s3"} /\ p.whole \in Document
  BY <1>0, <1>1, ConfigHeldFacts DEF Shape
<1>6. /\ proc' \in [Command -> ConfigHeld] /\ proc'[c] = next
      /\ overlapped' \in BOOLEAN /\ (~overlapped' => ~overlapped /\ ~p.crossed)
      /\ \A d \in Command \ {c} :
           /\ proc'[d].does = proc[d].does /\ proc'[d].step = proc[d].step /\ proc'[d].url = proc[d].url
           /\ proc'[d].slug = proc[d].slug /\ proc'[d].folder = proc[d].folder /\ proc'[d].whole = proc[d].whole
           /\ ~proc'[d].crossed => ~proc[d].crossed /\ proc[d].step \notin {"document", "replace"}
  <2>1. PICK busy : busy = {"document", "replace"}
    OBVIOUS
  <2>2. Replaces(c, next, busy) /\ next \in ConfigHeld
    BY <1>2, <1>3, <2>1
  <2>3. /\ proc' \in [Command -> ConfigHeld] /\ proc'[c] = next
        /\ overlapped' \in BOOLEAN /\ (~overlapped' => ~overlapped /\ ~proc[c].crossed)
        /\ \A d \in Command \ {c} :
             /\ proc'[d].does = proc[d].does /\ proc'[d].step = proc[d].step /\ proc'[d].url = proc[d].url
             /\ proc'[d].slug = proc[d].slug /\ proc'[d].folder = proc[d].folder /\ proc'[d].whole = proc[d].whole
             /\ ~proc'[d].crossed => ~proc[d].crossed /\ proc[d].step \notin busy
    BY <2>2, ReplacesFacts
  <2>4. QED
    BY <1>0, <2>1, <2>3
<1>7. signedIn' \subseteq Url \X Name
  <2>1. p.slug \in Name /\ (p.does \in ServerCommands => p.url \in Url)
    BY <1>5 DEF ConfigHeld, Shape
  <2>2. signedIn' \subseteq signedIn \/ (p.does \in ServerCommands /\ signedIn' = signedIn \cup {<<p.url, p.slug>>})
    BY <1>1, <1>5 DEF Answered, ServerCommands
  <2>3. signedIn \subseteq Url \X Name
    BY DEF ConfigIInv, ConfigTypes
  <2>4. CASE signedIn' \subseteq signedIn
    BY <2>3, <2>4
  <2>5. CASE p.does \in ServerCommands /\ signedIn' = signedIn \cup {<<p.url, p.slug>>}
    <3>1. <<p.url, p.slug>> \in Url \X Name
      BY <2>1, <2>5
    <3>2. QED
      BY <2>3, <2>5, <3>1
  <2>6. QED
    BY <2>2, <2>4, <2>5
<1>8. ConfigTypes'
  BY <1>1, <1>5, <1>6, <1>7 DEF ConfigIInv, ConfigTypes
<1>9. Shapes'
  <2>1. ASSUME NEW d \in Command \ {c} PROVE Shape(proc'[d])
    BY <1>6, ConfigHeldFacts DEF Shape
  <2>2. QED
    BY <1>4, <1>6, <2>1 DEF Shapes, Shape
<1>10. InHand'
  <2> SUFFICES ASSUME NEW d \in Command PROVE Names(proc[d])' /\ (overlapped' \/ Fresh(proc[d])')
    BY DEF InHand
  <2>1. CASE d = c
    BY <1>3, <1>6, <2>1 DEF Names, Fresh
  <2>2. CASE d # c
    <3>1. Names(proc[d])'
      BY <1>6, <2>2, ConfigHeldFacts DEF Names
    <3>2. ASSUME ~overlapped' PROVE Fresh(proc[d])'
      <4>1. Fresh(proc[d])
        BY <1>6, <3>2 DEF ConfigIInv, InHand
      <4>2. ~proc'[d].crossed => proc'[d].step \notin {"document", "replace"} /\ ~proc[d].crossed
        BY <1>6, <2>2
      <4>3. proc'[d].step = proc[d].step /\ proc'[d].does = proc[d].does /\ proc'[d].whole = proc[d].whole
        BY <1>6, <2>2
      <4>4. QED
        BY <1>1, <4>1, <4>2, <4>3 DEF Fresh
    <3>3. QED
      BY <3>1, <3>2
  <2>3. QED
    BY <2>1, <2>2
<1>11. ASSUME ~overlapped'
       PROVE  /\ credentials.s3 \/ p.does = "setup s3" => credentials'.s3
              /\ p.does = "setup s3" => credentials'.servers = credentials.servers
              /\ p.does # "setup s3" => credentials'.servers = Next(p)
  BY <1>0, <1>1, <1>6, <1>11 DEF ConfigIInv, InHand, Fresh
<1>12. KeysFirst'
  <2> SUFFICES ASSUME NEW d \in Command, ~overlapped' PROVE HasKeys(proc[d])'
    BY DEF KeysFirst, HasKeys
  <2>1. CASE d = c
    BY <1>3, <1>6, <1>11, <2>1 DEF HasKeys
  <2>2. CASE d # c
    BY <1>6, <1>11, <2>2, ConfigHeldFacts DEF HasKeys
  <2>3. QED
    BY <2>1, <2>2
<1>13. BucketHasKeys'
  BY <1>1, <1>6, <1>11 DEF ConfigIInv, BucketHasKeys
<1>14. ASSUME ~overlapped', p.does \in ServerCommands
       PROVE  /\ p.url \in Url /\ Server(p) \in State /\ credentials'.servers[p.url] = Changed(p, Server(p))
              /\ \A u \in Url \ {p.url} : credentials'.servers[u] = credentials.servers[u]
  <2>1. p.does # "setup s3"
    BY <1>14 DEF ServerCommands
  <2>2. QED
    BY <1>0, <1>11, <1>14, <2>1, NextType
<1>15. p.does \in ServerCommands <=> p.does # "setup s3"
  BY <1>5 DEF ServerCommands
<1>16. SignedInKept'
  <2> SUFFICES ASSUME ~overlapped', NEW x \in signedIn' PROVE x[2] \in credentials'.servers[x[1]].vaults
    BY DEF SignedInKept
  <2>1. ~overlapped /\ \A y \in signedIn : y[2] \in credentials.servers[y[1]].vaults /\ y[1] \in Url
    BY <1>6 DEF ConfigIInv, SignedInKept, ConfigTypes
  <2>2. CASE p.does = "setup s3"
    BY <1>1, <1>11, <2>1, <2>2 DEF Answered
  <2>3. CASE p.does \in {"login", "setup server"}
    <3>1. signedIn' = signedIn \cup {<<p.url, p.slug>>}
      BY <1>1, <2>3 DEF Answered
    <3>2. Changed(p, Server(p)).vaults = Server(p).vaults \cup {p.slug}
      BY <1>5, <1>14, <2>3, ChangedFacts DEF ServerCommands
    <3>3. p.does \in ServerCommands
      BY <2>3 DEF ServerCommands
    <3>4. CASE x = <<p.url, p.slug>>
      BY <1>14, <3>2, <3>3, <3>4
    <3>5. CASE x \in signedIn
      BY <1>14, <2>1, <3>2, <3>3, <3>5 DEF Server
    <3>6. QED
      BY <3>1, <3>4, <3>5
  <2>4. CASE p.does = "logout"
    <3>1. x \in signedIn /\ (x[1] # p.url \/ (p.slug # Nowhere /\ x[2] # p.slug))
      BY <1>1, <2>4 DEF Answered
    <3>2. p.slug # Nowhere => Changed(p, Server(p)).vaults = Server(p).vaults \ {p.slug}
      BY <1>5, <1>14, <2>4, ChangedFacts DEF ServerCommands
    <3>3. QED
      BY <1>14, <2>1, <2>4, <3>1, <3>2 DEF ServerCommands, Server
  <2>5. CASE p.does \in {"use", "use folder", "drop"}
    <3>1. signedIn' = signedIn
      BY <1>1, <2>5 DEF Answered
    <3>2. Changed(p, Server(p)).vaults = Server(p).vaults
      BY <1>5, <1>14, <2>5, ChangedFacts DEF ServerCommands
    <3>3. QED
      BY <1>14, <2>1, <2>5, <3>1, <3>2 DEF ServerCommands, Server
  <2>6. QED
    BY <1>5, <2>2, <2>3, <2>4, <2>5 DEF ServerCommands
<1>17. DefaultHeld'
  <2> SUFFICES ASSUME ~overlapped', NEW u \in Url, credentials'.servers[u].default # Nowhere
               PROVE  \/ credentials'.servers[u].default \in credentials'.servers[u].vaults
                      \/ <<u, credentials'.servers[u].default>> \in chose'
    BY DEF DefaultHeld
  <2>1. credentials.servers[u].default # Nowhere =>
          \/ credentials.servers[u].default \in credentials.servers[u].vaults
          \/ <<u, credentials.servers[u].default>> \in chose
    BY <1>6 DEF ConfigIInv, DefaultHeld
  <2>2. chose \subseteq chose'
    BY <1>1
  <2>3. CASE p.does = "setup s3" \/ u # p.url
    <3>1. credentials'.servers[u] = credentials.servers[u]
      BY <1>11, <1>14, <1>15, <2>3
    <3>2. QED
      BY <2>1, <2>2, <3>1
  <2>4. CASE p.does \in ServerCommands /\ u = p.url
    <3>1. Server(p) \in State /\ credentials'.servers[u] = Changed(p, Server(p)) /\ Server(p) = credentials.servers[u]
      BY <1>14, <2>4 DEF Server
    <3>2. p.does \in {"login", "setup server"} \/ p.does = "logout" \/ p.does = "use" \/ p.does \in {"use folder", "drop"}
      BY <2>4 DEF ServerCommands
    <3>3. CASE p.does \in {"login", "setup server"}
      <4>1. /\ Changed(p, Server(p)).vaults = Server(p).vaults \cup {p.slug}
            /\ Changed(p, Server(p)).default = Server(p).default \/ Changed(p, Server(p)).default = p.slug
        BY <1>5, <2>4, <3>1, <3>3, ChangedFacts
      <4>2. QED
        BY <2>1, <2>2, <3>1, <4>1
    <3>4. CASE p.does = "logout"
      <4>1. IF p.slug = Nowhere THEN Changed(p, Server(p)).default = Nowhere
              ELSE /\ Changed(p, Server(p)).vaults = Server(p).vaults \ {p.slug}
                   /\ Changed(p, Server(p)).default = IF Server(p).default = p.slug THEN Nowhere ELSE Server(p).default
        BY <1>5, <2>4, <3>1, <3>4, ChangedFacts
      <4>2. QED
        BY <2>1, <2>2, <3>1, <4>1
    <3>5. CASE p.does = "use"
      <4>1. Changed(p, Server(p)).default = p.slug
        BY <1>5, <2>4, <3>1, <3>5, ChangedFacts
      <4>2. QED
        BY <1>1, <2>4, <3>1, <3>5, <4>1
    <3>6. CASE p.does \in {"use folder", "drop"}
      <4>1. Changed(p, Server(p)).vaults = Server(p).vaults /\ Changed(p, Server(p)).default = Server(p).default
        BY <1>5, <2>4, <3>1, <3>6, ChangedFacts
      <4>2. QED
        BY <2>1, <2>2, <3>1, <4>1
    <3>7. QED
      BY <3>2, <3>3, <3>4, <3>5, <3>6
  <2>5. QED
    BY <1>15, <2>3, <2>4
<1>18. SignedInOrAbout'
  <2> SUFFICES ASSUME ~overlapped', NEW u \in Url \ unsigned', config.vault = u, credentials'.servers[u].vaults = {}
               PROVE  \E d \in Command : SigningIn(proc'[d], u)
    BY <1>1 DEF SignedInOrAbout, SigningIn
  <2>1. u \notin unsigned
    BY <1>1
  <2>2. ~(p.does \in {"login", "setup server"} /\ u = p.url)
    <3> SUFFICES ASSUME p.does \in {"login", "setup server"}, u = p.url PROVE FALSE
      OBVIOUS
    <3>1. Changed(p, Server(p)).vaults = Server(p).vaults \cup {p.slug} /\ p.does \in ServerCommands
      BY <1>5, <1>14, ChangedFacts DEF ServerCommands
    <3>2. QED
      BY <1>14, <3>1
  <2>3. credentials.servers[u].vaults = {}
    <3>1. CASE p.does = "setup s3" \/ u # p.url
      BY <1>11, <1>14, <1>15, <3>1
    <3>2. CASE p.does \in ServerCommands /\ u = p.url
      <4>1. p.does \in {"use", "use folder", "drop"}
        BY <1>1, <2>2, <3>2 DEF ServerCommands
      <4>2. Changed(p, Server(p)).vaults = Server(p).vaults
        BY <1>5, <1>14, <3>2, <4>1, ChangedFacts
      <4>3. QED
        BY <1>14, <3>2, <4>2 DEF Server
    <3>3. QED
      BY <1>15, <3>1, <3>2
  <2>4. PICK d \in Command : SigningIn(proc[d], u)
    BY <1>6, <2>1, <2>3 DEF ConfigIInv, SignedInOrAbout
  <2>5. d # c
    BY <1>0, <2>2, <2>4 DEF SigningIn
  <2>6. SigningIn(proc'[d], u)
    BY <1>6, <2>4, <2>5 DEF SigningIn
  <2>7. QED
    BY <2>6
<1>19. QED
  BY <1>8, <1>9, <1>10, <1>12, <1>13, <1>16, <1>17, <1>18 DEF ConfigIInv

(* A setup that does not sign in has a key of that server.                                                *)
LEMMA KeyThere ==
  ASSUME ConfigIInv, NEW p \in ConfigHeld, p.does = "setup server", p.url \in Url, ~SignsIn(p)
  PROVE  credentials.servers[p.url].vaults # {}
<1>1. Chosen(p.url, p.folder) # {}
  BY DEF SignsIn
<1>2. \/ Chosen(p.url, p.folder) = {Nowhere} /\ Nowhere \in credentials.servers[p.url].vaults
      \/ Chosen(p.url, p.folder) \subseteq credentials.servers[p.url].vaults
  BY DEF Chosen
<1>3. QED
  BY <1>1, <1>2

(* A new config: it names what its setup is for, or what it named before.                                 *)
LEMMA WriteConfigHolds == ASSUME ConfigIInv, NEW c \in Command, WriteConfig(c) PROVE ConfigIInv'
<1>0. PICK p \in ConfigHeld : p = proc[c]
  BY ConfigHeldFacts
<1>1. p.step = "write" /\ config' = p.whole /\ UNCHANGED <<credentials, signedIn, unsigned, chose>>
  BY <1>0 DEF WriteConfig
<1>2. PICK next :
        /\ next \in IF SignsIn(p) THEN {[p EXCEPT !.step = "wait", !.whole = Nowhere]} ELSE Then(p)
        /\ Replaces(c, next, {"write"})
  BY <1>0 DEF WriteConfig
<1>3. Shape(p) /\ Names(p) /\ HasKeys(p) /\ p.does \in ConfigCommands /\ p.whole \in Table
  BY <1>0, <1>1, ConfigHeldFacts DEF Shape
<1>4. /\ next \in ConfigHeld /\ Shape(next) /\ Names(next) /\ ~(next.does = "setup s3")
      /\ next.step \in {"rest", "config", "wait"} /\ (SignsIn(p) => \A u \in Url : p.url = u => SigningIn(next, u))
  <2>1. CASE SignsIn(p)
    <3>1. next = [p EXCEPT !.step = "wait", !.whole = Nowhere] /\ p.does = "setup server"
      BY <1>2, <2>1 DEF SignsIn
    <3>2. next \in ConfigHeld /\ next.step = "wait" /\ next.does = p.does /\ next.url = p.url /\ next.slug = p.slug
          /\ next.folder = p.folder
      BY <3>1 DEF ConfigHeld, ConfigPlace
    <3>3. QED
      BY <1>3, <3>1, <3>2 DEF Shape, Names, SigningIn, ServerCommands
  <2>2. CASE ~SignsIn(p)
    <3>1. /\ next \in ConfigHeld /\ next.step \in {"rest", "config"} /\ next.does \in {"rest", "signals"}
          /\ next.does = "rest" <=> next.step = "rest"
      <4>1. next \in Then(p)
        BY <1>2, <2>2
      <4>2. QED
        BY <4>1, ThenFacts
    <3>2. QED
      BY <2>2, <3>1, EmptyHanded
  <2>3. QED
    BY <2>1, <2>2
<1>5. /\ proc' \in [Command -> ConfigHeld] /\ proc'[c] = next
      /\ overlapped' \in BOOLEAN /\ (~overlapped' => ~overlapped /\ ~p.crossed)
      /\ \A d \in Command \ {c} :
           /\ proc'[d].does = proc[d].does /\ proc'[d].step = proc[d].step /\ proc'[d].url = proc[d].url
           /\ proc'[d].slug = proc[d].slug /\ proc'[d].folder = proc[d].folder /\ proc'[d].whole = proc[d].whole
           /\ ~proc'[d].crossed => ~proc[d].crossed /\ proc[d].step \notin {"write"}
  BY <1>0, <1>2, <1>4, ReplacesFacts
<1>6. ConfigTypes'
  BY <1>1, <1>3, <1>5 DEF ConfigIInv, ConfigTypes
<1>7. Shapes'
  <2>1. ASSUME NEW d \in Command \ {c} PROVE Shape(proc'[d])
    BY <1>5, ConfigHeldFacts DEF Shape
  <2>2. QED
    BY <1>4, <1>5, <2>1 DEF Shapes, Shape
<1>8. InHand'
  <2> SUFFICES ASSUME NEW d \in Command PROVE Names(proc[d])' /\ (overlapped' \/ Fresh(proc[d])')
    BY DEF InHand
  <2>1. CASE d = c
    BY <1>4, <1>5, <2>1 DEF Names, Fresh
  <2>2. CASE d # c
    <3>1. Names(proc[d])'
      BY <1>5, <2>2, ConfigHeldFacts DEF Names
    <3>2. ASSUME ~overlapped' PROVE Fresh(proc[d])'
      <4>1. Fresh(proc[d])
        BY <1>5, <3>2 DEF ConfigIInv, InHand
      <4>2. /\ ~proc'[d].crossed => proc'[d].step # "write" /\ ~proc[d].crossed
            /\ proc'[d].step = proc[d].step /\ proc'[d].does = proc[d].does /\ proc'[d].whole = proc[d].whole
            /\ proc'[d].url = proc[d].url /\ proc'[d].slug = proc[d].slug /\ proc'[d].folder = proc[d].folder
        BY <1>5, <2>2
      <4>3. Changed(proc[d], Server(proc[d]))' = Changed(proc[d], Server(proc[d])) /\ Next(proc[d])' = Next(proc[d])
        BY <1>1, <4>2 DEF Changed, Server, Next
      <4>4. QED
        BY <1>1, <4>1, <4>2, <4>3 DEF Fresh
    <3>3. QED
      BY <3>1, <3>2
  <2>3. QED
    BY <2>1, <2>2
<1>9. ~overlapped' => (p.does = "signals" => config'.vault = config.vault)
  BY <1>0, <1>1, <1>5 DEF ConfigIInv, InHand, Fresh
<1>10. KeysFirst'
  <2> SUFFICES ASSUME NEW d \in Command, ~overlapped' PROVE HasKeys(proc[d])'
    BY DEF KeysFirst, HasKeys
  <2>1. QED
    BY <1>1, <1>4, <1>5, ConfigHeldFacts DEF HasKeys
<1>11. BucketHasKeys'
  <2> SUFFICES ASSUME ~overlapped', config'.vault = "s3" PROVE credentials.s3
    BY <1>1 DEF BucketHasKeys
  <2>1. p.does \in {"signals", "setup s3"}
    BY <1>1, <1>3, Names3 DEF Names, ConfigCommands, Shape, ServerCommands
  <2>2. QED
    BY <1>1, <1>3, <1>5, <1>9, <2>1 DEF ConfigIInv, BucketHasKeys, HasKeys
<1>12. SignedInKept' /\ DefaultHeld'
  BY <1>1, <1>5 DEF ConfigIInv, SignedInKept, DefaultHeld
<1>13. SignedInOrAbout'
  <2> SUFFICES ASSUME ~overlapped', NEW u \in Url \ unsigned, config'.vault = u, credentials.servers[u].vaults = {}
               PROVE  \E d \in Command : SigningIn(proc'[d], u)
    BY <1>1 DEF SignedInOrAbout, SigningIn
  <2>1. p.does \in {"signals", "setup server"}
    BY <1>1, <1>3, Names3 DEF Names, ConfigCommands
  <2>2. CASE p.does = "signals"
    <3>1. PICK d \in Command : SigningIn(proc[d], u)
      BY <1>5, <1>9, <2>2 DEF ConfigIInv, SignedInOrAbout
    <3>2. d # c /\ SigningIn(proc'[d], u)
      BY <1>0, <1>5, <2>2, <3>1 DEF SigningIn
    <3>3. QED
      BY <3>2
  <2>3. CASE p.does = "setup server"
    <3>1. p.url = u
      BY <1>1, <1>3, <2>3 DEF Names
    <3>2. SignsIn(p)
      BY <2>3, <3>1, KeyThere
    <3>3. QED
      BY <1>4, <1>5, <3>1, <3>2
  <2>4. QED
    BY <2>1, <2>2, <2>3
<1>14. QED
  BY <1>6, <1>7, <1>8, <1>10, <1>11, <1>12, <1>13 DEF ConfigIInv

LEMMA ConfigNextHolds == ConfigIInv /\ [ConfigNext]_configVars => ConfigIInv'
<1> SUFFICES ASSUME ConfigIInv, [ConfigNext]_configVars PROVE ConfigIInv'
  OBVIOUS
<1>1. CASE UNCHANGED configVars
  <2>1. UNCHANGED <<config, credentials, proc, chose, signedIn, unsigned, overlapped>>
    BY <1>1 DEF configVars
  <2>2. ConfigTypes' /\ BucketHasKeys' /\ SignedInKept' /\ DefaultHeld' /\ SignedInOrAbout'
    BY <2>1 DEF ConfigIInv, ConfigTypes, BucketHasKeys, SignedInKept, DefaultHeld, SignedInOrAbout, SigningIn
  <2>3. Shapes' /\ KeysFirst'
    BY <2>1 DEF ConfigIInv, Shapes, Shape, KeysFirst, HasKeys
  <2>4. InHand'
    BY <2>1 DEF ConfigIInv, InHand, Names, Fresh, Next, Server
  <2>5. QED
    BY <2>2, <2>3, <2>4 DEF ConfigIInv
<1>2. ASSUME NEW c \in Command,
             \/ Start(c) \/ Granted(c) \/ Refused(c) \/ ReadState(c) \/ ReadDocument(c) \/ ReplaceCredentials(c)
             \/ ReadConfig(c) \/ WriteConfig(c) \/ Kill(c)
      PROVE  ConfigIInv'
  BY <1>2, StartHolds, GrantedHolds, RefusedHolds, ReadStateHolds, ReadDocumentHolds, ReplaceCredentialsHolds,
     ReadConfigHolds, WriteConfigHolds, KillHolds
<1>3. QED
  BY <1>1, <1>2 DEF ConfigNext

(* Wherever commands are killed, and as long as none puts a file in place of one that another has put     *)
(* there meanwhile: a bucket that the config names has its keys, a server that it names is signed in to   *)
(* unless somebody signed out, what was signed in to is kept, and the default is a vault that is held or  *)
(* that somebody chose (places.py, credentials.py).                                                       *)
THEOREM ConfigRemembered == ConfigSpec => []ConfigInv
<1>1. ConfigIInv => ConfigInv
  <2> SUFFICES ASSUME ConfigIInv PROVE ServerSignedIn
    BY DEF ConfigIInv, ConfigInv
  <2>1. QED
    BY DEF ConfigIInv, SignedInOrAbout, SigningIn, ServerSignedIn
<1>2. QED
  BY <1>1, ConfigInitHolds, ConfigNextHolds, PTL DEF ConfigSpec

-----------------------------------------------------------------------------
(* The theorem about StopHook: for any number of sessions, hooks, repos, days and failures, a session is  *)
(* asked about a message once, a repo is remembered and gets its page.                                    *)

Memory == [asked : [Session -> Nat], repos : SUBSET Repo, ran : Nat]
HooksPlace == {"rest", "remember", "pages", "live", "write", "asked", "verdict"}
HooksHeld == [kind : {"none", "start", "stop"}, step : HooksPlace, session : Session \cup {NoSession}, todo : SUBSET Repo,
         data : Memory]
Talk == [prompts : Nat, written : Nat, active : BOOLEAN]

HooksTypes ==
  /\ onServer \in BOOLEAN /\ talk \in [Session -> Talk] /\ live \subseteq Repo /\ doc \in Memory
  /\ pages \in [Repo -> Nat] /\ today \in Nat \ {0} /\ missed \in Nat /\ run \in [Hook -> HooksHeld]
  /\ heard \in [Session -> SUBSET Nat] /\ again \in BOOLEAN /\ lost \in BOOLEAN
  /\ met \subseteq Repo /\ due \subseteq Repo

(* A hook that is at a step of the stop hook is one, of a session; each session has one at a time.        *)
Kinds == \A h \in Hook :
  /\ run[h].kind = "none" => run[h] = Idle
  /\ run[h].kind = "start" => run[h].step = "remember"
  /\ run[h].kind = "stop" => run[h].session \in Session /\ run[h].step \notin {"rest", "remember"}
OneEach == \A h, g \in Hook :
  run[h].kind = "stop" /\ run[g].kind = "stop" /\ run[h].session = run[g].session => h = g

(* Nothing is remembered of what has yet to come.                                                         *)
Past(data) == data.ran <= today /\ \A s \in Session : data.asked[s] <= talk[s].prompts
NothingToCome == Past(doc) /\ \A h \in Hook : Past(run[h].data)

(* The last message a session was asked about is the one remembered, and what its hook knows of.          *)
Remembered == lost \/
  /\ \A s \in Session : heard[s] \subseteq 1..doc.asked[s]
  /\ \A h \in Hook : run[h].kind = "stop" => heard[run[h].session] \subseteq 1..run[h].data.asked[run[h].session]

(* The rows of a local vault keep the repos that were to have their pages, and those that were met.       *)
RowsKept == ~onServer => due \cap live \subseteq doc.repos
MetKept == (onServer /\ lost) \/ met \cap live \subseteq doc.repos

(* Once anybody knows the day as marked, each page is written or a hook is yet to write it.               *)
ToWrite(k, r) ==
  \/ k.step = "live" /\ r \in (IF onServer THEN k.data.repos ELSE doc.repos)
  \/ k.step = "write" /\ r \in k.todo
Marked == doc.ran = today \/ \E h \in Hook : run[h].data.ran = today
Covered == Marked /\ missed # today =>
  \A r \in due \cap live : pages[r] = today \/ \E h \in Hook : ToWrite(run[h], r)

HooksIInv == HooksTypes /\ Kinds /\ OneEach /\ NothingToCome /\ (again => lost) /\ Remembered /\ RowsKept /\ MetKept /\ Covered

LEMMA Follows == HooksIInv => StopInv
<1> SUFFICES ASSUME HooksIInv PROVE StopInv
  OBVIOUS
<1>1. AskedOnce
  BY DEF HooksIInv, AskedOnce
<1>2. ReposKept
  BY DEF HooksIInv, ReposKept, MetKept
<1>3. PagesFollow
  BY DEF HooksIInv, PagesFollow, Covered, Marked, ToWrite
<1>4. QED
  BY <1>1, <1>2, <1>3 DEF StopInv

-----------------------------------------------------------------------------
LEMMA IdleFacts ==
  /\ Idle \in HooksHeld /\ Idle.kind = "none" /\ Idle.step = "rest" /\ Idle.data \in Memory
  /\ Idle.data.ran = 0 /\ \A s \in Session : Idle.data.asked[s] = 0
BY DEF Idle, HooksHeld, HooksPlace, Memory

LEMMA HooksInitHolds == StopInit => HooksIInv
<1> SUFFICES ASSUME StopInit PROVE HooksIInv
  OBVIOUS
<1>1. HooksTypes
  <2>1. talk \in [Session -> Talk]
    BY DEF StopInit, Talk
  <2>2. doc \in Memory /\ run \in [Hook -> HooksHeld]
    BY IdleFacts DEF StopInit
  <2>3. pages \in [Repo -> Nat] /\ heard \in [Session -> SUBSET Nat]
    BY DEF StopInit
  <2>4. onServer \in BOOLEAN /\ again \in BOOLEAN /\ lost \in BOOLEAN
    BY DEF StopInit
  <2>5. live \subseteq Repo /\ today \in Nat \ {0} /\ missed \in Nat /\ met \subseteq Repo /\ due \subseteq Repo
    BY DEF StopInit
  <2>6. QED
    BY <2>1, <2>2, <2>3, <2>4, <2>5 DEF HooksTypes
<1>2. Kinds /\ OneEach
  BY IdleFacts DEF StopInit, Kinds, OneEach
<1>3. NothingToCome
  BY IdleFacts DEF StopInit, NothingToCome, Past
<1>4. (again => lost) /\ Remembered /\ RowsKept /\ MetKept
  BY IdleFacts DEF StopInit, Remembered, RowsKept, MetKept
<1>5. Covered
  BY DEF StopInit, Covered
<1>6. QED
  BY <1>1, <1>2, <1>3, <1>4, <1>5 DEF HooksIInv

LEMMA HooksHeldFacts ==
  ASSUME HooksIInv, NEW h \in Hook
  PROVE  /\ run[h] \in HooksHeld /\ run[h].data \in Memory /\ run[h].todo \subseteq Repo /\ doc \in Memory
         /\ doc.repos \subseteq Repo /\ run[h].data.repos \subseteq Repo
         /\ Past(doc) /\ Past(run[h].data) /\ today \in Nat
<1>1. run[h] \in HooksHeld /\ doc \in Memory /\ today \in Nat
  BY DEF HooksIInv, HooksTypes
<1>2. run[h].data \in Memory /\ run[h].todo \subseteq Repo
  BY <1>1 DEF HooksHeld
<1>3. doc.repos \subseteq Repo /\ run[h].data.repos \subseteq Repo
  BY <1>1, <1>2 DEF Memory
<1>4. Past(doc) /\ Past(run[h].data)
  BY DEF HooksIInv, NothingToCome
<1>5. QED
  BY <1>1, <1>2, <1>3, <1>4

(* What a step of one hook has to keep to.  The pages may be marked anew, by one who is then to write     *)
(* them, or wait for the next day, or be written on.                                                      *)
LEMMA HooksStepHolds ==
  ASSUME HooksIInv, NEW h \in Hook, NEW k \in HooksHeld, Now(h, k), UNCHANGED <<onServer, live, today>>,
         talk' \in [Session -> Talk], \A s \in Session : talk'[s].prompts = talk[s].prompts,
         doc' \in Memory, lost' \in BOOLEAN, again' \in BOOLEAN, heard' \in [Session -> SUBSET Nat],
         met' \subseteq Repo, due' \subseteq Repo, pages' \in [Repo -> Nat], missed' \in {missed, today},
         lost => lost', again' => lost', Past(doc'), Past(k.data),
         k.kind = "none" => k = Idle, k.kind = "start" => k.step = "remember",
         k.kind = "stop" => k.session \in Session /\ k.step \notin {"rest", "remember"},
         k.kind = "stop" => (run[h].kind = "stop" /\ run[h].session = k.session) \/ ~Running(k.session),
         lost' \/ \A s \in Session : heard'[s] \subseteq 1..doc'.asked[s],
         lost' \/ (k.kind = "stop" => heard'[k.session] \subseteq 1..k.data.asked[k.session]),
         \A s \in Session : heard'[s] = heard[s] \/ (run[h].kind = "stop" /\ run[h].session = s),
         ~onServer => doc.repos \cap live \subseteq doc'.repos /\ due' \cap live \subseteq doc'.repos,
         (onServer /\ lost') \/ met' \cap live \subseteq doc'.repos,
         \/ missed' = today
         \/ \A r \in due' \cap live : k.step = "live" /\ r \in (IF onServer THEN k.data.repos ELSE doc'.repos)
         \/ /\ due' = due /\ (doc'.ran = today \/ k.data.ran = today => Marked)
            /\ \A r \in live : /\ pages[r] = today => pages'[r] = today
                               /\ ToWrite(run[h], r) => pages'[r] = today \/ ToWrite(k, r)
  PROVE  HooksIInv'
<1>1. run' \in [Hook -> HooksHeld] /\ run'[h] = k /\ \A g \in Hook \ {h} : run'[g] = run[g]
  BY DEF Now, HooksIInv, HooksTypes
<1>2. HooksTypes'
  <2>1. missed' \in Nat
    BY DEF HooksIInv, HooksTypes
  <2>2. QED
    BY <1>1, <2>1 DEF HooksIInv, HooksTypes
<1>3. Kinds'
  <2>1. \A g \in Hook \ {h} : /\ run'[g].kind = "none" => run'[g] = Idle
                              /\ run'[g].kind = "start" => run'[g].step = "remember"
                              /\ run'[g].kind = "stop" =>
                                   run'[g].session \in Session /\ run'[g].step \notin {"rest", "remember"}
    BY <1>1 DEF HooksIInv, Kinds
  <2>2. Idle' = Idle
    BY DEF Idle
  <2>3. QED
    BY <1>1, <2>1, <2>2 DEF Kinds
<1>4. OneEach'
  <2>1. \A g \in Hook \ {h} : run[g].kind = "stop" /\ k.kind = "stop" => run[g].session # k.session
    BY DEF HooksIInv, OneEach, Running
  <2>2. QED
    BY <1>1, <2>1 DEF HooksIInv, OneEach
<1>5. NothingToCome'
  <2>1. \A g \in Hook : Past(run'[g].data)
    BY <1>1 DEF HooksIInv, NothingToCome
  <2>2. QED
    BY <2>1 DEF NothingToCome, Past
<1>6. Remembered'
  <2>1. ASSUME ~lost', NEW g \in Hook \ {h}, run'[g].kind = "stop"
        PROVE  heard'[run'[g].session] \subseteq 1..run'[g].data.asked[run'[g].session]
    <3>1. run[g].kind = "stop" /\ run[g].session \in Session /\ run'[g] = run[g]
      BY <1>1, <2>1 DEF HooksIInv, Kinds
    <3>2. heard'[run[g].session] = heard[run[g].session]
      BY <2>1, <3>1 DEF HooksIInv, OneEach
    <3>3. heard[run[g].session] \subseteq 1..run[g].data.asked[run[g].session]
      BY <2>1, <3>1 DEF HooksIInv, Remembered
    <3>4. QED
      BY <3>1, <3>2, <3>3
  <2>2. QED
    BY <1>1, <2>1 DEF Remembered
<1>7. RowsKept' /\ MetKept'
  BY DEF RowsKept, MetKept
<1>8. Covered'
  <2>1. CASE missed' = today
    BY <2>1 DEF Covered
  <2>2. CASE \A r \in due' \cap live : k.step = "live" /\ r \in (IF onServer THEN k.data.repos ELSE doc'.repos)
    <3>1. \A r \in (due \cap live)' : ToWrite(run[h], r)'
      BY <1>1, <2>2 DEF ToWrite
    <3>2. QED
      BY <3>1 DEF Covered
  <2>3. ASSUME missed' # today, missed' = missed, due' = due, doc'.ran = today \/ k.data.ran = today => Marked,
               \A r \in live : /\ pages[r] = today => pages'[r] = today
                               /\ ToWrite(run[h], r) => pages'[r] = today \/ ToWrite(k, r)
        PROVE  Covered'
    <3> SUFFICES ASSUME Marked', NEW r \in due \cap live
                 PROVE  pages'[r] = today \/ \E g \in Hook : ToWrite(run[g], r)'
      BY <2>3 DEF Covered
    <3>1. Marked
      BY <1>1, <2>3 DEF Marked
    <3>2. pages[r] = today \/ \E g \in Hook : ToWrite(run[g], r)
      BY <2>3, <3>1 DEF HooksIInv, Covered
    <3>3. ASSUME NEW j, ToWrite(j, r) PROVE ToWrite(j, r)'
      BY <3>3 DEF ToWrite
    <3>4. ASSUME ToWrite(run[h], r) PROVE pages'[r] = today \/ ToWrite(run[h], r)'
      <4>1. pages'[r] = today \/ ToWrite(k, r)'
        BY <2>3, <3>3, <3>4
      <4>2. ToWrite(k, r)' => ToWrite(run[h], r)'
        BY <1>1 DEF ToWrite
      <4>3. QED
        BY <4>1, <4>2
    <3>5. ASSUME NEW g \in Hook \ {h}, ToWrite(run[g], r) PROVE ToWrite(run[g], r)'
      <4>1. ToWrite(run[g], r)'
        BY <1>1, <3>3, <3>5 DEF ToWrite
      <4>2. QED
        BY <4>1
    <3>6. QED
      BY <2>3, <3>2, <3>4, <3>5
  <2>4. QED
    BY <2>1, <2>2, <2>3
<1>9. QED
  BY <1>2, <1>3, <1>4, <1>5, <1>6, <1>7, <1>8 DEF HooksIInv

(* A step of a hook that leaves what they remember as it is.                                              *)
LEMMA QuietHolds ==
  ASSUME HooksIInv, NEW h \in Hook, NEW k \in HooksHeld, Now(h, k),
         UNCHANGED <<onServer, live, today, doc, lost, again, heard, met, due>>,
         talk' \in [Session -> Talk], \A s \in Session : talk'[s].prompts = talk[s].prompts,
         pages' \in [Repo -> Nat], missed' \in {missed, today}, Past(k.data),
         k.kind = "none" => k = Idle, k.kind = "start" => k.step = "remember",
         k.kind = "stop" => k.session \in Session /\ k.step \notin {"rest", "remember"},
         k.kind = "stop" => (run[h].kind = "stop" /\ run[h].session = k.session) \/ ~Running(k.session),
         lost \/ (k.kind = "stop" => heard[k.session] \subseteq 1..k.data.asked[k.session]),
         \/ missed' = today
         \/ /\ k.data.ran = today => Marked
            /\ \A r \in live : /\ pages[r] = today => pages'[r] = today
                               /\ ToWrite(run[h], r) => pages'[r] = today \/ ToWrite(k, r)
  PROVE  HooksIInv'
<1>1. doc' \in Memory /\ lost' \in BOOLEAN /\ again' \in BOOLEAN /\ heard' \in [Session -> SUBSET Nat]
  BY DEF HooksIInv, HooksTypes
<1>2. met' \subseteq Repo /\ due' \subseteq Repo
  BY DEF HooksIInv, HooksTypes
<1>3. (lost => lost') /\ (again' => lost') /\ Past(doc')
  BY DEF HooksIInv, NothingToCome
<1>4. lost' \/ \A s \in Session : heard'[s] \subseteq 1..doc'.asked[s]
  BY DEF HooksIInv, Remembered
<1>5. ~onServer => doc.repos \cap live \subseteq doc'.repos /\ due' \cap live \subseteq doc'.repos
  BY DEF HooksIInv, RowsKept
<1>6. (onServer /\ lost') \/ met' \cap live \subseteq doc'.repos
  BY DEF HooksIInv, MetKept
<1>7. lost' \/ (k.kind = "stop" => heard'[k.session] \subseteq 1..k.data.asked[k.session])
  OBVIOUS
<1>8. doc'.ran = today => Marked
  BY DEF Marked
<1>9. \A s \in Session : heard'[s] = heard[s]
  OBVIOUS
<1>10. QED
  BY <1>1, <1>2, <1>3, <1>4, <1>5, <1>6, <1>7, <1>8, <1>9, HooksStepHolds

(* What goes on beside the hooks.                                                                         *)
LEMMA OutsideHolds ==
  ASSUME HooksIInv, UNCHANGED <<onServer, memory, pages, run, ghosts>>, talk' \in [Session -> Talk],
         \A s \in Session : talk[s].prompts <= talk'[s].prompts,
         live' \subseteq live, today' \in Nat \ {0}, today <= today'
  PROVE  HooksIInv'
<1>1. UNCHANGED <<onServer, doc, lost, pages, run, heard, again, met, due, missed>>
  BY DEF memory, ghosts
<1>2. HooksTypes'
  BY <1>1 DEF HooksIInv, HooksTypes
<1>3. Kinds' /\ OneEach' /\ (again => lost)' /\ Remembered' /\ RowsKept' /\ MetKept'
  <2>1. Kinds'
    BY <1>1 DEF HooksIInv, Kinds, Idle
  <2>2. OneEach'
    BY <1>1 DEF HooksIInv, OneEach
  <2>3. (again => lost)'
    BY <1>1, Zenon DEF HooksIInv
  <2>4. Remembered'
    BY <1>1 DEF HooksIInv, Remembered
  <2>5. RowsKept' /\ MetKept'
    BY <1>1 DEF HooksIInv, RowsKept, MetKept
  <2>6. QED
    BY <2>1, <2>2, <2>3, <2>4, <2>5
<1>4. ASSUME NEW data \in Memory, Past(data) PROVE Past(data)' /\ (data.ran = today' => today' = today)
  <2>1. data.ran \in Nat /\ data.asked \in [Session -> Nat]
    BY DEF Memory
  <2>2. data.ran <= today /\ \A s \in Session : data.asked[s] <= talk[s].prompts
    BY <1>4 DEF Past
  <2>3. today \in Nat /\ today' \in Nat
    BY DEF HooksIInv, HooksTypes
  <2>4. \A s \in Session : talk[s].prompts \in Nat /\ talk'[s].prompts \in Nat
    BY DEF HooksIInv, HooksTypes, Talk
  <2>5. data.ran <= today' /\ (data.ran = today' => today' = today)
    BY <2>1, <2>2, <2>3
  <2>6. \A s \in Session : data.asked[s] <= talk'[s].prompts
    BY <2>1, <2>2, <2>4
  <2>7. QED
    BY <2>5, <2>6 DEF Past
<1>5. doc \in Memory /\ Past(doc) /\ \A h \in Hook : run[h].data \in Memory /\ Past(run[h].data)
  BY DEF HooksIInv, HooksTypes, NothingToCome, HooksHeld
<1>6. NothingToCome'
  <2>1. Past(doc)' /\ \A h \in Hook : Past(run[h].data)'
    BY <1>1, <1>4, <1>5
  <2>2. QED
    BY <1>1, <2>1 DEF NothingToCome
<1>7. Covered'
  <2> SUFFICES ASSUME Marked', missed' # today' PROVE Covered'
    BY DEF Covered
  <2>1. today' = today /\ Marked
    BY <1>1, <1>4, <1>5 DEF Marked
  <2>2. \A r \in due \cap live : pages[r] = today \/ \E h \in Hook : ToWrite(run[h], r)
    BY <1>1, <2>1 DEF HooksIInv, Covered
  <2>3. ASSUME NEW h \in Hook, NEW r \in live, ToWrite(run[h], r) PROVE ToWrite(run[h], r)'
    BY <1>1, <2>3 DEF ToWrite
  <2>4. QED
    BY <1>1, <2>1, <2>2, <2>3 DEF Covered
<1>8. QED
  BY <1>2, <1>3, <1>6, <1>7 DEF HooksIInv

LEMMA AroundHolds ==
  ASSUME HooksIInv, NEW s \in Session, Prompt(s) \/ VaultWrite(s) \/ StopAgain(s)
  PROVE  HooksIInv'
<1>1. talk \in [Session -> Talk] /\ talk[s] \in Talk /\ today \in Nat \ {0} /\ today <= today
  BY DEF HooksIInv, HooksTypes
<1>2. PICK t : talk' = [talk EXCEPT ![s] = t] /\ t \in Talk /\ talk[s].prompts <= t.prompts
  <2>1. CASE Prompt(s)
    <3>1. PICK n : n = talk[s].prompts + 1
      OBVIOUS
    <3>2. n \in Nat /\ talk[s].prompts <= n
      <4>1. talk[s].prompts \in Nat
        BY <1>1 DEF Talk
      <4>2. QED
        BY <3>1, <4>1
    <3>3. PICK t : t = [talk[s] EXCEPT !.prompts = n, !.active = FALSE]
      OBVIOUS
    <3>4. t \in Talk /\ t.prompts = n
      BY <1>1, <3>2, <3>3 DEF Talk
    <3>5. talk' = [talk EXCEPT ![s] = t]
      BY <1>1, <2>1, <3>1, <3>3 DEF Prompt, Talk
    <3>6. QED
      BY <3>2, <3>4, <3>5
  <2>2. CASE VaultWrite(s)
    <3>1. PICK t : t = [talk[s] EXCEPT !.written = talk[s].prompts]
      OBVIOUS
    <3>2. t \in Talk /\ talk[s].prompts <= t.prompts
      <4>1. t \in Talk /\ t.prompts \in {talk[s].prompts, talk[s].prompts + 1}
        BY <1>1, <3>1 DEF Talk
      <4>2. talk[s].prompts \in Nat
        BY <1>1 DEF Talk
      <4>3. QED
        BY <4>1, <4>2
    <3>3. talk' = [talk EXCEPT ![s] = t]
      BY <2>2, <3>1 DEF VaultWrite
    <3>4. QED
      BY <3>2, <3>3
  <2>3. CASE StopAgain(s)
    <3>1. PICK t : t = [talk[s] EXCEPT !.active = FALSE]
      OBVIOUS
    <3>2. t \in Talk /\ talk[s].prompts <= t.prompts
      <4>1. t \in Talk /\ t.prompts \in {talk[s].prompts, talk[s].prompts + 1}
        BY <1>1, <3>1 DEF Talk
      <4>2. talk[s].prompts \in Nat
        BY <1>1 DEF Talk
      <4>3. QED
        BY <4>1, <4>2
    <3>3. talk' = [talk EXCEPT ![s] = t]
      BY <2>3, <3>1 DEF StopAgain
    <3>4. QED
      BY <3>2, <3>3
  <2>4. QED
    BY <2>1, <2>2, <2>3
<1>3. UNCHANGED <<Around, live>>
  BY DEF Prompt, VaultWrite, StopAgain
<1>4. UNCHANGED <<onServer, memory, pages, run, ghosts>> /\ live' = live /\ today' = today
  BY <1>3 DEF Around
<1>5. talk' \in [Session -> Talk]
  BY <1>1, <1>2
<1>6. \A q \in Session : talk[q].prompts <= talk'[q].prompts
  <2>1. \A q \in Session : talk[q].prompts \in Nat
    BY <1>1 DEF Talk
  <2>2. QED
    BY <1>1, <1>2, <2>1
<1>7. QED
  BY <1>1, <1>4, <1>5, <1>6, OutsideHolds

LEMMA TalkStays == HooksIInv => \A s \in Session : talk[s].prompts \in Nat /\ talk[s].prompts <= talk[s].prompts
BY DEF HooksIInv, HooksTypes, Talk

LEMMA RootGoesHolds == ASSUME HooksIInv, NEW r \in Repo, RootGoes(r) PROVE HooksIInv'
<1>1. live' = live \ {r} /\ UNCHANGED <<Around, talk>>
  BY DEF RootGoes
<1>2. UNCHANGED <<onServer, memory, pages, run, ghosts>> /\ talk' = talk /\ today' = today
  BY <1>1 DEF Around
<1>3. talk \in [Session -> Talk] /\ today \in Nat \ {0} /\ today <= today
  BY DEF HooksIInv, HooksTypes
<1>4. QED
  BY <1>1, <1>2, <1>3, TalkStays, OutsideHolds

LEMMA DayTurnsHolds == ASSUME HooksIInv, DayTurns PROVE HooksIInv'
<1>1. today' = today + 1 /\ UNCHANGED <<onServer, memory, pages, run, ghosts, talk, live>>
  BY DEF DayTurns
<1>2. talk \in [Session -> Talk] /\ today' \in Nat \ {0} /\ today <= today'
  BY <1>1 DEF HooksIInv, HooksTypes
<1>3. QED
  BY <1>1, <1>2, TalkStays, OutsideHolds

-----------------------------------------------------------------------------
LEMMA TalkKept == HooksIInv /\ talk' = talk => /\ talk' \in [Session -> Talk]
                                               /\ \A s \in Session : talk'[s].prompts = talk[s].prompts
BY DEF HooksIInv, HooksTypes

LEMMA StartBeginsHolds == ASSUME HooksIInv, NEW h \in Hook, NEW r \in Repo, StartBegins(h, r) PROVE HooksIInv'
<1>1. UNCHANGED <<onServer, live, today, doc, lost, again, heard, met, due, talk, pages, missed>>
  BY DEF StartBegins, memory, ghosts
<1>2. PICK k : k = [run[h] EXCEPT !.kind = "start", !.step = "remember", !.data = doc, !.todo = {r}]
  OBVIOUS
<1>3. run[h] \in HooksHeld /\ doc \in Memory /\ {r} \subseteq Repo /\ Past(doc)
  BY HooksHeldFacts
<1>4. k.kind = "start" /\ k.step = "remember" /\ k.data = doc /\ k \in HooksHeld
  BY <1>2, <1>3 DEF HooksHeld, HooksPlace
<1>5. Now(h, k)
  BY <1>2 DEF StartBegins
<1>6. run[h].step = "rest"
  BY IdleFacts DEF StartBegins, HooksIInv, Kinds
<1>7. \A x \in live : ~ToWrite(run[h], x)
  BY <1>6 DEF ToWrite
<1>8. k.data.ran = today => Marked
  BY <1>4 DEF Marked
<1>9. pages' \in [Repo -> Nat] /\ missed' \in {missed, today}
  BY <1>1 DEF HooksIInv, HooksTypes
<1>10. QED
  BY <1>1, <1>3, <1>4, <1>5, <1>7, <1>8, <1>9, TalkKept, QuietHolds

LEMMA StopBeginsHolds == ASSUME HooksIInv, NEW h \in Hook, NEW s \in Session, StopBegins(h, s) PROVE HooksIInv'
<1>1. UNCHANGED <<onServer, live, today, doc, lost, again, heard, met, due, talk, pages, missed>>
  BY DEF StopBegins, memory, ghosts
<1>2. PICK k : k = [run[h] EXCEPT !.kind = "stop", !.step = "pages", !.session = s, !.data = doc]
  OBVIOUS
<1>3. run[h] \in HooksHeld /\ doc \in Memory /\ Past(doc)
  BY HooksHeldFacts
<1>4. k.kind = "stop" /\ k.step = "pages" /\ k.session = s /\ k.data = doc /\ k \in HooksHeld
  BY <1>2, <1>3 DEF HooksHeld, HooksPlace
<1>5. Now(h, k) /\ ~Running(k.session)
  BY <1>2, <1>4 DEF StopBegins
<1>6. run[h].step = "rest"
  BY IdleFacts DEF StopBegins, HooksIInv, Kinds
<1>7. \A x \in live : ~ToWrite(run[h], x)
  BY <1>6 DEF ToWrite
<1>8. k.data.ran = today => Marked
  BY <1>4 DEF Marked
<1>9. pages' \in [Repo -> Nat] /\ missed' \in {missed, today}
  BY <1>1 DEF HooksIInv, HooksTypes
<1>10. lost \/ heard[k.session] \subseteq 1..k.data.asked[k.session]
  BY <1>4 DEF HooksIInv, Remembered
<1>11. QED
  BY <1>1, <1>3, <1>4, <1>5, <1>7, <1>8, <1>9, <1>10, TalkKept, QuietHolds

(* A hook that ends leaves nothing behind.                                                                *)
LEMMA HooksEndsHolds ==
  ASSUME HooksIInv, NEW h \in Hook, Now(h, Idle), UNCHANGED <<onServer, live, today, doc, lost, again, heard, met, due>>,
         talk' \in [Session -> Talk], \A s \in Session : talk'[s].prompts = talk[s].prompts,
         UNCHANGED pages, missed' \in {missed, today},
         missed' = today \/ run[h].step \notin {"live", "write"}
  PROVE  HooksIInv'
<1>1. today \in Nat \ {0} /\ pages' \in [Repo -> Nat]
  BY DEF HooksIInv, HooksTypes
<1>2. \A s \in Session : 0 <= talk[s].prompts
  BY DEF HooksIInv, HooksTypes, Talk
<1>3. Past(Idle.data) /\ Idle.data.ran # today
  BY <1>1, <1>2, IdleFacts DEF Past
<1>4. Idle \in HooksHeld /\ Idle.kind = "none"
  BY IdleFacts
<1>5. missed' = today \/ \A x \in live : ~ToWrite(run[h], x)
  BY DEF ToWrite
<1>6. Idle.kind # "start" /\ Idle.kind # "stop"
  BY <1>4
<1>7. PICK k : k = Idle
  OBVIOUS
<1>8. QED
  BY <1>1, <1>3, <1>4, <1>5, <1>6, <1>7, QuietHolds

LEMMA HookDiesHolds == ASSUME HooksIInv, NEW h \in Hook, HookDies(h) PROVE HooksIInv'
<1>1. UNCHANGED <<onServer, live, today, doc, lost, again, heard, met, due, talk, pages>> /\ Now(h, Idle)
  BY DEF HookDies, Still, memory
<1>2. missed' = IF run[h].step \in {"live", "write"} THEN today ELSE missed
  BY DEF HookDies
<1>3. QED
  BY <1>1, <1>2, TalkKept, HooksEndsHolds

(* A stop hook goes from one of its steps to the next.                                                    *)
LEMMA GoesOn ==
  ASSUME HooksIInv, NEW h \in Hook, run[h].kind = "stop", NEW k \in HooksHeld, Now(h, k),
         UNCHANGED <<onServer, live, today, doc, lost, again, heard, met, due, talk>>,
         k.kind = "stop", k.session = run[h].session, k.step \notin {"rest", "remember"}, k.data \in {run[h].data, doc},
         pages' \in [Repo -> Nat], missed' \in {missed, today},
         \/ missed' = today
         \/ \A r \in live : /\ pages[r] = today => pages'[r] = today
                            /\ ToWrite(run[h], r) => pages'[r] = today \/ ToWrite(k, r)
  PROVE  HooksIInv'
<1>1. k.kind = "stop" /\ k.session \in Session
  BY DEF HooksIInv, Kinds
<1>2. Past(k.data)
  BY HooksHeldFacts
<1>3. lost \/ heard[k.session] \subseteq 1..k.data.asked[k.session]
  BY <1>1 DEF HooksIInv, Remembered
<1>4. k.data.ran = today => Marked
  BY DEF Marked
<1>5. k.kind # "none" /\ k.kind # "start"
  BY <1>1
<1>6. QED
  BY <1>1, <1>2, <1>3, <1>4, <1>5, TalkKept, QuietHolds

LEMMA StopKind == ASSUME HooksIInv, NEW h \in Hook, run[h].step \notin {"rest", "remember"} PROVE run[h].kind = "stop"
BY IdleFacts DEF HooksIInv, HooksTypes, Kinds, HooksHeld

LEMMA WritePageHolds == ASSUME HooksIInv, NEW h \in Hook, WritePage(h) PROVE HooksIInv'
<1>1. PICK r \in run[h].todo : pages' = [pages EXCEPT ![r] = today] /\ Now(h, [run[h] EXCEPT !.todo = @ \ {r}])
  BY DEF WritePage
<1>2. UNCHANGED <<onServer, live, today, doc, lost, again, heard, met, due, talk, missed>> /\ run[h].step = "write"
  BY DEF WritePage, Still, memory, ghosts
<1>3. PICK k : k = [run[h] EXCEPT !.todo = @ \ {r}]
  OBVIOUS
<1>4. run[h] \in HooksHeld /\ run[h].todo \subseteq Repo /\ r \in Repo
  BY HooksHeldFacts
<1>5. k \in HooksHeld /\ k.kind = run[h].kind /\ k.session = run[h].session /\ k.step = "write" /\ k.data = run[h].data
      /\ k.todo = run[h].todo \ {r}
  BY <1>2, <1>3, <1>4 DEF HooksHeld
<1>6. pages' \in [Repo -> Nat] /\ pages'[r] = today /\ \A x \in Repo \ {r} : pages'[x] = pages[x]
  BY <1>1, <1>4 DEF HooksIInv, HooksTypes
<1>7. \A x \in live : /\ pages[x] = today => pages'[x] = today
                      /\ ToWrite(run[h], x) => pages'[x] = today \/ ToWrite(k, x)
  BY <1>2, <1>5, <1>6 DEF ToWrite, HooksIInv, HooksTypes
<1>8. run[h].kind = "stop" /\ k.step \notin {"rest", "remember"} /\ missed' \in {missed, today} /\ Now(h, k)
  BY <1>1, <1>2, <1>3, <1>5, StopKind
<1>9. QED
  BY <1>2, <1>5, <1>6, <1>7, <1>8, GoesOn

LEMMA PagesDoneHolds == ASSUME HooksIInv, NEW h \in Hook, PagesDone(h) PROVE HooksIInv'
<1>1. UNCHANGED <<onServer, live, today, doc, lost, again, heard, met, due, talk, pages, missed>> /\ run[h].step = "write"
      /\ run[h].todo = {}
  BY DEF PagesDone, Still, memory, ghosts
<1>2. PICK k : k = [run[h] EXCEPT !.step = "asked"]
  OBVIOUS
<1>3. run[h] \in HooksHeld /\ "asked" \in HooksPlace
  BY HooksHeldFacts DEF HooksPlace
<1>4. k \in HooksHeld /\ k.kind = run[h].kind /\ k.session = run[h].session /\ k.step = "asked" /\ k.data = run[h].data
  BY <1>2, <1>3 DEF HooksHeld
<1>5. \A x \in live : ~ToWrite(run[h], x)
  BY <1>1 DEF ToWrite
<1>6. pages' \in [Repo -> Nat] /\ missed' \in {missed, today}
  BY <1>1 DEF HooksIInv, HooksTypes
<1>7. run[h].kind = "stop" /\ Now(h, k)
  BY <1>1, <1>2, StopKind DEF PagesDone
<1>8. QED
  BY <1>1, <1>4, <1>5, <1>6, <1>7, GoesOn

LEMMA PageFailsHolds == ASSUME HooksIInv, NEW h \in Hook, PageFails(h) PROVE HooksIInv'
<1>1. UNCHANGED <<onServer, live, today, doc, lost, again, heard, met, due, talk, pages>> /\ missed' = today
      /\ run[h].step \in {"live", "write"}
  BY DEF PageFails, Still, memory
<1>2. PICK k : k = [run[h] EXCEPT !.step = "asked", !.todo = {}]
  OBVIOUS
<1>3. run[h] \in HooksHeld /\ "asked" \in HooksPlace
  BY HooksHeldFacts DEF HooksPlace
<1>4. k \in HooksHeld /\ k.kind = run[h].kind /\ k.session = run[h].session /\ k.step = "asked" /\ k.data = run[h].data
  BY <1>2, <1>3 DEF HooksHeld
<1>5. pages' \in [Repo -> Nat] /\ missed' \in {missed, today}
  BY <1>1 DEF HooksIInv, HooksTypes
<1>6. run[h].kind = "stop" /\ Now(h, k)
  BY <1>1, <1>2, StopKind DEF PageFails
<1>7. QED
  BY <1>1, <1>4, <1>5, <1>6, GoesOn

LEMMA ReadAskedHolds == ASSUME HooksIInv, NEW h \in Hook, ReadAsked(h) PROVE HooksIInv'
<1>1. UNCHANGED <<onServer, live, today, doc, lost, again, heard, met, due, talk, pages, missed>> /\ run[h].step = "asked"
  BY DEF ReadAsked, Still, memory, ghosts
<1>2. PICK data : data = (IF onServer THEN run[h].data ELSE doc)
  OBVIOUS
<1>3. PICK k : k = [run[h] EXCEPT !.step = "verdict", !.data = data]
  OBVIOUS
<1>4. run[h] \in HooksHeld /\ data \in Memory /\ "verdict" \in HooksPlace
  BY <1>2, HooksHeldFacts DEF HooksPlace
<1>5. k \in HooksHeld /\ k.kind = run[h].kind /\ k.session = run[h].session /\ k.step = "verdict" /\ k.data = data
  BY <1>3, <1>4 DEF HooksHeld
<1>6. \A x \in live : ~ToWrite(run[h], x)
  BY <1>1 DEF ToWrite
<1>7. pages' \in [Repo -> Nat] /\ missed' \in {missed, today}
  BY <1>1 DEF HooksIInv, HooksTypes
<1>8. k = [run[h] EXCEPT !.step = "verdict", !.data = IF onServer THEN @ ELSE doc]
  BY <1>2, <1>3, <1>4 DEF HooksHeld
<1>9. run[h].kind = "stop" /\ Now(h, k)
  BY <1>1, <1>8, StopKind DEF ReadAsked
<1>10. QED
  BY <1>1, <1>2, <1>5, <1>6, <1>7, <1>9, GoesOn

(* What is saved of the repos and of the day, whole or as rows.                                           *)
LEMMA SavedFacts ==
  ASSUME HooksIInv, NEW h \in Hook, NEW data \in Memory, NEW row \in Memory, Sets(h, data, row),
         data.asked = run[h].data.asked, row.asked = doc.asked,
         data.ran <= today, row.ran <= today
  PROVE  /\ doc' = (IF onServer THEN data ELSE row) /\ doc' \in Memory /\ lost' \in BOOLEAN /\ (lost => lost')
         /\ Past(doc') /\ (lost' \/ \A s \in Session : heard[s] \subseteq 1..doc'.asked[s])
         /\ (onServer /\ ~lost' => doc = run[h].data /\ ~lost)
<1>1. \/ onServer /\ doc' = data /\ lost' = (lost \/ doc # run[h].data)
      \/ ~onServer /\ doc' = row /\ lost' = lost
  BY DEF Sets, Saves, HooksIInv, HooksTypes
<1>2. lost \in BOOLEAN /\ onServer \in BOOLEAN
  BY DEF HooksIInv, HooksTypes
<1>3. doc' = (IF onServer THEN data ELSE row) /\ doc' \in Memory
  BY <1>1
<1>4. lost' \in BOOLEAN /\ (lost => lost') /\ (onServer /\ ~lost' => doc = run[h].data /\ ~lost)
  BY <1>1, <1>2
<1>5. Past(doc')
  <2>1. Past(doc) /\ Past(run[h].data)
    BY HooksHeldFacts
  <2>2. QED
    BY <1>1, <2>1 DEF Past
<1>6. ASSUME ~lost' PROVE \A s \in Session : heard[s] \subseteq 1..doc'.asked[s]
  <2>1. doc'.asked = doc.asked /\ ~lost
    BY <1>1, <1>2, <1>6
  <2>2. QED
    BY <2>1 DEF HooksIInv, Remembered
<1>7. QED
  BY <1>3, <1>4, <1>5, <1>6

(* Where a start hook is, it is about to remember a repo.                                                 *)
LEMMA RememberHolds == ASSUME HooksIInv, NEW h \in Hook, Remember(h) PROVE HooksIInv'
<1>1. UNCHANGED <<onServer, live, today, heard, again, due, talk, pages, missed>> /\ run[h].step = "remember"
      /\ met' = met \cup run[h].todo /\ Now(h, Idle)
  BY DEF Remember, Still
<1>2. PICK data : data = [run[h].data EXCEPT !.repos = @ \cup run[h].todo]
  OBVIOUS
<1>3. PICK row : row = [doc EXCEPT !.repos = @ \cup run[h].todo]
  OBVIOUS
<1>4. /\ run[h].data \in Memory /\ run[h].todo \subseteq Repo /\ doc \in Memory
      /\ doc.repos \subseteq Repo /\ run[h].data.repos \subseteq Repo
  BY HooksHeldFacts
<1>5. data \in Memory /\ data.asked = run[h].data.asked /\ data.ran = run[h].data.ran
      /\ data.repos = run[h].data.repos \cup run[h].todo
  BY <1>2, <1>4 DEF Memory
<1>6. row \in Memory /\ row.asked = doc.asked /\ row.ran = doc.ran /\ row.repos = doc.repos \cup run[h].todo
  BY <1>3, <1>4 DEF Memory
<1>7. data.ran <= today /\ row.ran <= today
  BY <1>5, <1>6, HooksHeldFacts DEF Past
<1>8. Sets(h, data, row)
  BY <1>2, <1>3 DEF Remember
<1>9. /\ doc' = (IF onServer THEN data ELSE row) /\ doc' \in Memory /\ lost' \in BOOLEAN /\ (lost => lost')
      /\ Past(doc') /\ (lost' \/ \A s \in Session : heard[s] \subseteq 1..doc'.asked[s])
      /\ (onServer /\ ~lost' => doc = run[h].data /\ ~lost)
  BY <1>5, <1>6, <1>7, <1>8, SavedFacts
<1>10. PICK k : k = Idle
  OBVIOUS
<1>11. k \in HooksHeld /\ k.kind = "none" /\ k.step = "rest" /\ k.data.ran = 0 /\ Past(k.data)
  <2>1. \A s \in Session : 0 <= talk[s].prompts
    BY DEF HooksIInv, HooksTypes, Talk
  <2>2. 0 <= today
    BY DEF HooksIInv, HooksTypes
  <2>3. QED
    BY <1>10, <2>1, <2>2, IdleFacts DEF Past
<1>12. k.kind # "start" /\ k.kind # "stop" /\ today # 0
  BY <1>11 DEF HooksIInv, HooksTypes
<1>13. /\ again' \in BOOLEAN /\ heard' \in [Session -> SUBSET Nat] /\ met' \subseteq Repo /\ due' \subseteq Repo
       /\ pages' \in [Repo -> Nat] /\ missed' \in {missed, today}
  BY <1>1, <1>4 DEF HooksIInv, HooksTypes
<1>14. again' => lost'
  BY <1>1, <1>9 DEF HooksIInv
<1>15. ~onServer => doc.repos \cap live \subseteq doc'.repos /\ due' \cap live \subseteq doc'.repos
  BY <1>1, <1>6, <1>9 DEF HooksIInv, RowsKept
<1>16. (onServer /\ lost') \/ met' \cap live \subseteq doc'.repos
  <2>1. CASE onServer /\ ~lost'
    <3>1. met \cap live \subseteq doc.repos /\ doc'.repos = doc.repos \cup run[h].todo
      BY <1>5, <1>9, <2>1 DEF HooksIInv, MetKept
    <3>2. QED
      BY <1>1, <3>1
  <2>2. CASE ~onServer
    <3>1. met \cap live \subseteq doc.repos /\ doc'.repos = doc.repos \cup run[h].todo
      BY <1>6, <1>9, <2>2 DEF HooksIInv, MetKept
    <3>2. QED
      BY <1>1, <3>1
  <2>3. QED
    BY <2>1, <2>2
<1>17. doc'.ran = today \/ k.data.ran = today => Marked
  BY <1>5, <1>6, <1>9, <1>11, <1>12 DEF Marked
<1>18. \A r \in live : /\ pages[r] = today => pages'[r] = today
                       /\ ToWrite(run[h], r) => pages'[r] = today \/ ToWrite(k, r)
  BY <1>1 DEF ToWrite
<1>19. talk' \in [Session -> Talk] /\ \A s \in Session : talk'[s].prompts = talk[s].prompts
  BY <1>1, TalkKept
<1>20. Now(h, k) /\ \A s \in Session : heard'[s] = heard[s]
  BY <1>1, <1>10
<1>21. QED
  BY <1>1, <1>9, <1>10, <1>11, <1>12, <1>13, <1>14, <1>15, <1>16, <1>17, <1>18, <1>19, <1>20, HooksStepHolds

(* A stop hook that saves the day, or the repos that are left, keeps those that are still there.          *)
LEMMA SavesHolds ==
  ASSUME HooksIInv, NEW h \in Hook, run[h].kind = "stop", NEW data \in Memory, NEW row \in Memory, Sets(h, data, row),
         data.asked = run[h].data.asked, row.asked = doc.asked, data.ran <= today, row.ran <= today,
         run[h].data.repos \cap live \subseteq data.repos, doc.repos \cap live \subseteq row.repos,
         NEW k \in HooksHeld, Now(h, k), k.kind = "stop", k.session = run[h].session, k.step \notin {"rest", "remember"},
         k.data = (IF onServer THEN data ELSE run[h].data),
         UNCHANGED <<onServer, live, today, heard, again, met, talk, pages, missed>>, due' \subseteq Repo,
         ~onServer => due' \cap live \subseteq row.repos,
         \/ \A r \in due' \cap live : k.step = "live" /\ r \in (IF onServer THEN k.data.repos ELSE doc'.repos)
         \/ /\ due' = due /\ (doc'.ran = today \/ k.data.ran = today => Marked)
            /\ \A r \in live : /\ pages[r] = today => pages'[r] = today
                               /\ ToWrite(run[h], r) => pages'[r] = today \/ ToWrite(k, r)
  PROVE  HooksIInv'
<1>1. /\ doc' = (IF onServer THEN data ELSE row) /\ doc' \in Memory /\ lost' \in BOOLEAN /\ (lost => lost')
      /\ Past(doc') /\ (lost' \/ \A s \in Session : heard[s] \subseteq 1..doc'.asked[s])
      /\ (onServer /\ ~lost' => doc = run[h].data /\ ~lost)
  BY SavedFacts
<1>2. /\ again' \in BOOLEAN /\ heard' \in [Session -> SUBSET Nat] /\ met' \subseteq Repo
      /\ pages' \in [Repo -> Nat] /\ missed' \in {missed, today}
  BY DEF HooksIInv, HooksTypes
<1>3. again' => lost'
  BY <1>1 DEF HooksIInv
<1>4. Past(k.data)
  BY HooksHeldFacts DEF Past
<1>5. k.kind # "none" /\ k.kind # "start" /\ k.session \in Session
  BY DEF HooksIInv, Kinds
<1>6. lost' \/ heard'[k.session] \subseteq 1..k.data.asked[k.session]
  <2>1. k.data.asked = run[h].data.asked
    OBVIOUS
  <2>2. lost \/ heard[k.session] \subseteq 1..run[h].data.asked[k.session]
    BY DEF HooksIInv, Remembered
  <2>3. QED
    BY <1>1, <2>1, <2>2
<1>7. ~onServer => doc.repos \cap live \subseteq doc'.repos /\ due' \cap live \subseteq doc'.repos
  BY <1>1
<1>8. (onServer /\ lost') \/ met' \cap live \subseteq doc'.repos
  BY <1>1 DEF HooksIInv, MetKept
<1>9. talk' \in [Session -> Talk] /\ \A s \in Session : talk'[s].prompts = talk[s].prompts
  BY TalkKept
<1>10. \A s \in Session : heard'[s] = heard[s]
  OBVIOUS
<1>11. lost' \/ \A s \in Session : heard'[s] \subseteq 1..doc'.asked[s]
  BY <1>1
<1>12. QED
  BY <1>1, <1>2, <1>3, <1>4, <1>5, <1>6, <1>7, <1>8, <1>9, <1>10, <1>11, HooksStepHolds

LEMMA MarkDayHolds == ASSUME HooksIInv, NEW h \in Hook, MarkDay(h) PROVE HooksIInv'
<1>1. UNCHANGED <<onServer, live, today, heard, again, met, talk, pages, missed>> /\ run[h].step = "pages"
  BY DEF MarkDay, Still
<1>2. run[h] \in HooksHeld /\ run[h].data \in Memory /\ doc \in Memory
  BY HooksHeldFacts
<1>3. run[h].kind = "stop" /\ "asked" \in HooksPlace /\ "live" \in HooksPlace
  BY <1>1, StopKind DEF HooksPlace
<1>4. \A x \in live : ~ToWrite(run[h], x)
  BY <1>1 DEF ToWrite
<1>5. CASE Known(h).ran = today
  <2>1. UNCHANGED <<doc, lost, due>> /\ Now(h, [run[h] EXCEPT !.step = "asked"])
    BY <1>5 DEF MarkDay, memory
  <2>2. PICK k : k = [run[h] EXCEPT !.step = "asked"]
    OBVIOUS
  <2>3. k \in HooksHeld /\ k.kind = run[h].kind /\ k.session = run[h].session /\ k.step = "asked" /\ k.data = run[h].data
    BY <1>2, <1>3, <2>2 DEF HooksHeld
  <2>4. pages' \in [Repo -> Nat] /\ missed' \in {missed, today}
    BY <1>1 DEF HooksIInv, HooksTypes
  <2>5. Now(h, k)
    BY <2>1, <2>2
  <2>6. QED
    BY <1>1, <1>3, <1>4, <2>1, <2>3, <2>4, <2>5, GoesOn
<1>6. CASE Known(h).ran # today
  <2>1. PICK data : data = [run[h].data EXCEPT !.ran = today]
    OBVIOUS
  <2>2. PICK row : row = [doc EXCEPT !.ran = today]
    OBVIOUS
  <2>3. Sets(h, data, row) /\ due' = Known(h).repos
        /\ Now(h, [run[h] EXCEPT !.step = "live", !.data = IF onServer THEN doc' ELSE @])
    BY <1>6, <2>1, <2>2 DEF MarkDay
  <2>4. today \in Nat
    BY DEF HooksIInv, HooksTypes
  <2>5. /\ data \in Memory /\ data.asked = run[h].data.asked /\ data.repos = run[h].data.repos /\ data.ran = today
        /\ row \in Memory /\ row.asked = doc.asked /\ row.repos = doc.repos /\ row.ran = today
    BY <1>2, <2>1, <2>2, <2>4 DEF Memory
  <2>6. doc' = IF onServer THEN data ELSE row
    BY <2>3 DEF Sets, Saves
  <2>7. PICK now : now = (IF onServer THEN data ELSE run[h].data)
    OBVIOUS
  <2>8. PICK k : k = [run[h] EXCEPT !.step = "live", !.data = now]
    OBVIOUS
  <2>9. k \in HooksHeld /\ k.kind = run[h].kind /\ k.session = run[h].session /\ k.step = "live" /\ k.data = now
    BY <1>2, <1>3, <2>5, <2>7, <2>8 DEF HooksHeld
  <2>10. k = [run[h] EXCEPT !.step = "live", !.data = IF onServer THEN doc' ELSE @]
    BY <1>2, <2>6, <2>7, <2>8 DEF HooksHeld
  <2>11. due' \subseteq Repo /\ (~onServer => due' \cap live \subseteq row.repos)
    BY <2>3, <2>5, HooksHeldFacts DEF Known
  <2>12. \A r \in due' \cap live : k.step = "live" /\ r \in (IF onServer THEN k.data.repos ELSE doc'.repos)
    BY <2>3, <2>5, <2>6, <2>7, <2>9 DEF Known
  <2>13. data.ran <= today /\ row.ran <= today
    BY <2>4, <2>5
  <2>14. Now(h, k) /\ k.data = (IF onServer THEN data ELSE run[h].data)
    BY <2>3, <2>7, <2>9, <2>10
  <2>15. QED
    BY <1>1, <1>3, <2>3, <2>5, <2>9, <2>11, <2>12, <2>13, <2>14, SavesHolds
<1>7. QED
  BY <1>5, <1>6

LEMMA LiveReposHolds == ASSUME HooksIInv, NEW h \in Hook, LiveRepos(h) PROVE HooksIInv'
<1>1. UNCHANGED <<onServer, live, today, heard, again, met, due, talk, pages, missed>> /\ run[h].step = "live"
  BY DEF LiveRepos, Still, ghosts
<1>2. run[h] \in HooksHeld /\ run[h].data \in Memory /\ doc \in Memory
  BY HooksHeldFacts
<1>3. run[h].kind = "stop" /\ "write" \in HooksPlace
  BY <1>1, StopKind DEF HooksPlace
<1>4. Known(h).repos \subseteq Repo /\ Known(h).repos = IF onServer THEN run[h].data.repos ELSE doc.repos
  BY HooksHeldFacts DEF Known
<1>5. CASE Known(h).repos \subseteq live
  <2>1. UNCHANGED <<doc, lost>> /\ Now(h, [run[h] EXCEPT !.step = "write", !.todo = Known(h).repos])
    BY <1>5 DEF LiveRepos, memory
  <2>2. PICK k : k = [run[h] EXCEPT !.step = "write", !.todo = Known(h).repos]
    OBVIOUS
  <2>3. k \in HooksHeld /\ k.kind = run[h].kind /\ k.session = run[h].session /\ k.step = "write" /\ k.data = run[h].data
        /\ k.todo = Known(h).repos
    BY <1>2, <1>3, <1>4, <2>2 DEF HooksHeld
  <2>4. pages' \in [Repo -> Nat] /\ missed' \in {missed, today}
    BY <1>1 DEF HooksIInv, HooksTypes
  <2>5. Now(h, k)
    BY <2>1, <2>2
  <2>6. \A x \in live : ToWrite(run[h], x) => ToWrite(k, x)
    BY <1>1, <1>4, <2>3 DEF ToWrite
  <2>7. QED
    BY <1>1, <1>3, <2>1, <2>3, <2>4, <2>5, <2>6, GoesOn
<1>6. CASE ~(Known(h).repos \subseteq live)
  <2>1. PICK data : data = [run[h].data EXCEPT !.repos = @ \cap live]
    OBVIOUS
  <2>2. PICK row : row = [doc EXCEPT !.repos = @ \cap live]
    OBVIOUS
  <2>3. Sets(h, data, row)
        /\ Now(h, [run[h] EXCEPT !.step = "write", !.todo = Known(h).repos \cap live,
                                 !.data = IF onServer THEN doc' ELSE @])
    BY <1>6, <2>1, <2>2 DEF LiveRepos
  <2>4. run[h].data.repos \subseteq Repo /\ doc.repos \subseteq Repo
    BY HooksHeldFacts
  <2>5. /\ data \in Memory /\ data.asked = run[h].data.asked /\ data.repos = run[h].data.repos \cap live
        /\ data.ran = run[h].data.ran
        /\ row \in Memory /\ row.asked = doc.asked /\ row.repos = doc.repos \cap live /\ row.ran = doc.ran
    BY <1>2, <2>1, <2>2, <2>4 DEF Memory
  <2>6. doc' = IF onServer THEN data ELSE row
    BY <2>3 DEF Sets, Saves
  <2>7. PICK now : now = (IF onServer THEN data ELSE run[h].data)
    OBVIOUS
  <2>8. PICK k : k = [run[h] EXCEPT !.step = "write", !.todo = Known(h).repos \cap live, !.data = now]
    OBVIOUS
  <2>9. k \in HooksHeld /\ k.kind = run[h].kind /\ k.session = run[h].session /\ k.step = "write" /\ k.data = now
        /\ k.todo = Known(h).repos \cap live
    BY <1>2, <1>3, <1>4, <2>5, <2>7, <2>8 DEF HooksHeld
  <2>10. k = [run[h] EXCEPT !.step = "write", !.todo = Known(h).repos \cap live,
                            !.data = IF onServer THEN doc' ELSE @]
    BY <1>2, <2>6, <2>7, <2>8 DEF HooksHeld
  <2>11. due' \subseteq Repo /\ due' = due /\ (~onServer => due' \cap live \subseteq row.repos)
    BY <1>1, <2>5 DEF HooksIInv, HooksTypes, RowsKept
  <2>12. doc'.ran = today \/ k.data.ran = today => Marked
    BY <2>5, <2>6, <2>7, <2>9 DEF Marked
  <2>13. data.ran <= today /\ row.ran <= today
    BY <2>5, HooksHeldFacts DEF Past
  <2>14. Now(h, k) /\ k.data = (IF onServer THEN data ELSE run[h].data)
    BY <2>3, <2>7, <2>9, <2>10
  <2>15. \A r \in live : /\ pages[r] = today => pages'[r] = today
                         /\ ToWrite(run[h], r) => pages'[r] = today \/ ToWrite(k, r)
    BY <1>1, <1>4, <2>9 DEF ToWrite
  <2>16. run[h].data.repos \cap live \subseteq data.repos /\ doc.repos \cap live \subseteq row.repos
    BY <2>5
  <2>17. QED
    BY <1>1, <1>3, <2>3, <2>5, <2>9, <2>11, <2>12, <2>13, <2>14, <2>15, <2>16, SavesHolds
<1>7. QED
  BY <1>5, <1>6

(* What is asked about is what came after all that was asked about before.                                *)
LEMMA UnsavedIsNew ==
  ASSUME NEW s \in Session, talk[s] \in Talk, NEW before \in Nat, before <= talk[s].prompts
  PROVE  Unsaved(s, before) \subseteq 1..talk[s].prompts /\ Unsaved(s, before) \cap (1..before) = {}
<1>1. talk[s].prompts \in Nat /\ talk[s].written \in Nat
  BY DEF Talk
<1>2. PICK n \in Nat, w \in Nat : n = talk[s].prompts /\ w = talk[s].written
  BY <1>1
<1>3. Unsaved(s, before) = IF before \in (w + 1)..n THEN (before + 1)..n ELSE (w + 1)..n
  BY <1>2 DEF Unsaved
<1>4. before <= n
  BY <1>2
<1>5. QED
  BY <1>2, <1>3, <1>4

(* A verdict that asks, and one that does not.                                                            *)
LEMMA AsksHolds ==
  ASSUME HooksIInv, NEW h \in Hook, run[h].kind = "stop", run[h].step = "verdict", NEW s \in Session, s = run[h].session,
         NEW data \in Memory, data = run[h].data, NEW prompts, prompts = Unsaved(s, data.asked[s]),
         NEW kept \in SUBSET Others(data, s),
         doc' = [(IF onServer THEN data ELSE doc) EXCEPT !.asked = Asked(data, s, talk[s].prompts, kept)],
         lost' = (\/ lost \/ kept # Others(data, s)
                  \/ IF onServer THEN doc # data ELSE doc.asked # data.asked),
         heard' = [heard EXCEPT ![s] = @ \cup prompts], again' = (again \/ prompts \cap heard[s] # {}),
         talk' \in [Session -> Talk], \A t \in Session : talk'[t].prompts = talk[t].prompts, Now(h, Idle),
         UNCHANGED <<onServer, live, today, pages, met, due, missed>>
  PROVE  HooksIInv'
<1>1. /\ doc \in Memory /\ Past(doc) /\ Past(data) /\ talk[s] \in Talk /\ talk[s].prompts \in Nat /\ data.asked[s] \in Nat
      /\ data.asked[s] <= talk[s].prompts
  <2>1. doc \in Memory /\ Past(doc) /\ Past(data)
    BY HooksHeldFacts
  <2>2. talk[s] \in Talk /\ talk[s].prompts \in Nat /\ data.asked[s] \in Nat
    BY DEF HooksIInv, HooksTypes, Talk, Memory
  <2>3. QED
    BY <2>1, <2>2 DEF Past
<1>2. prompts \subseteq 1..talk[s].prompts /\ prompts \cap (1..data.asked[s]) = {}
  BY <1>1, UnsavedIsNew
<1>3. PICK table : table = Asked(data, s, talk[s].prompts, kept)
  OBVIOUS
<1>4. table \in [Session -> Nat] /\ table[s] = talk[s].prompts
      /\ \A t \in Session \ {s} : table[t] \in {data.asked[t], 0} /\ (t \in kept => table[t] = data.asked[t])
  BY <1>1, <1>3 DEF Asked, Memory
<1>5. \A t \in Session : table[t] <= talk[t].prompts
  <2>1. \A t \in Session : talk[t].prompts \in Nat /\ 0 <= talk[t].prompts
    BY DEF HooksIInv, HooksTypes, Talk
  <2>2. \A t \in Session : data.asked[t] <= talk[t].prompts
    BY <1>1 DEF Past
  <2>3. \A t \in Session \ {s} : table[t] <= talk[t].prompts
    BY <1>4, <2>1, <2>2
  <2>4. talk[s].prompts <= talk[s].prompts
    BY <1>1
  <2>5. QED
    BY <1>4, <2>3, <2>4
<1>6. PICK base \in Memory : base = IF onServer THEN data ELSE doc
  BY <1>1
<1>7. doc' = [base EXCEPT !.asked = table]
  BY <1>3, <1>6
<1>8. doc' \in Memory /\ doc'.asked = table /\ doc'.ran = base.ran /\ doc'.repos = base.repos
  BY <1>4, <1>6, <1>7 DEF Memory
<1>9. Past(doc')
  BY <1>1, <1>5, <1>6, <1>8 DEF Past
<1>10. lost' \in BOOLEAN /\ again' \in BOOLEAN /\ (lost => lost')
  BY DEF HooksIInv, HooksTypes
<1>11. heard' \in [Session -> SUBSET Nat] /\ heard'[s] = heard[s] \cup prompts
       /\ \A t \in Session \ {s} : heard'[t] = heard[t]
  <2>0. talk[s].prompts \in Nat
    BY <1>1
  <2>1. prompts \in SUBSET Nat
    <3>1. 1..talk[s].prompts \subseteq Nat
      BY <2>0
    <3>2. prompts \subseteq Nat
      BY <1>2, <3>1, Zenon
    <3>3. QED
      BY <3>2
  <2>2. heard \in [Session -> SUBSET Nat]
    BY DEF HooksIInv, HooksTypes
  <2>3. QED
    BY <2>1, <2>2
<1>12. ASSUME ~lost'
       PROVE  /\ ~again' /\ \A t \in Session : heard'[t] \subseteq 1..doc'.asked[t]
              /\ met' \cap live \subseteq doc'.repos
  <2>1. ~lost /\ kept = Others(data, s) /\ data.asked = doc.asked /\ base = doc
    BY <1>6, <1>12 DEF HooksIInv, HooksTypes
  <2>2. heard[s] \subseteq 1..data.asked[s] /\ \A t \in Session : heard[t] \subseteq 1..doc.asked[t]
    BY <2>1 DEF HooksIInv, Remembered
  <2>3. ~again'
    BY <1>2, <2>1, <2>2 DEF HooksIInv
  <2>4. heard'[s] \subseteq 1..table[s]
    <3>1. 1..data.asked[s] \subseteq 1..talk[s].prompts
      BY <1>1
    <3>2. QED
      BY <1>2, <1>4, <1>11, <2>2, <3>1
  <2>5. ASSUME NEW t \in Session \ {s} PROVE heard'[t] \subseteq 1..table[t]
    <3>1. t \in kept \/ data.asked[t] = 0
      BY <2>1 DEF Others
    <3>2. table[t] = data.asked[t]
      BY <1>4, <3>1
    <3>3. QED
      BY <1>11, <2>1, <2>2, <3>2
  <2>6. met' \cap live \subseteq doc'.repos
    BY <1>8, <2>1 DEF HooksIInv, MetKept
  <2>7. QED
    BY <1>8, <2>3, <2>4, <2>5, <2>6
<1>13. ~onServer => doc'.repos = doc.repos
  BY <1>6, <1>8
<1>14. ~onServer => doc.repos \cap live \subseteq doc'.repos /\ due' \cap live \subseteq doc'.repos
  BY <1>13 DEF HooksIInv, RowsKept
<1>15. (onServer /\ lost') \/ met' \cap live \subseteq doc'.repos
  BY <1>12, <1>13 DEF HooksIInv, MetKept
<1>16. PICK k : k = Idle
  OBVIOUS
<1>17. k \in HooksHeld /\ k.kind = "none" /\ k.data.ran = 0 /\ Past(k.data) /\ today # 0
  <2>1. \A t \in Session : 0 <= talk[t].prompts
    BY DEF HooksIInv, HooksTypes, Talk
  <2>2. 0 <= today /\ today # 0
    BY DEF HooksIInv, HooksTypes
  <2>3. QED
    BY <1>16, <2>1, <2>2, IdleFacts DEF Past
<1>18. k.kind # "start" /\ k.kind # "stop"
  BY <1>17
<1>19. doc'.ran = today \/ k.data.ran = today => Marked
  BY <1>6, <1>8, <1>17 DEF Marked
<1>20. \A r \in live : /\ pages[r] = today => pages'[r] = today
                       /\ ToWrite(run[h], r) => pages'[r] = today \/ ToWrite(k, r)
  BY DEF ToWrite
<1>21. met' \subseteq Repo /\ due' \subseteq Repo /\ due' = due /\ pages' \in [Repo -> Nat] /\ missed' \in {missed, today}
  BY DEF HooksIInv, HooksTypes
<1>22. Now(h, k) /\ (again' => lost') /\ (lost' \/ \A t \in Session : heard'[t] \subseteq 1..doc'.asked[t])
  BY <1>12, <1>16
<1>23. \A t \in Session : heard'[t] = heard[t] \/ (run[h].kind = "stop" /\ run[h].session = t)
  BY <1>11
<1>24. QED
  BY <1>8, <1>9, <1>10, <1>11, <1>14, <1>15, <1>16, <1>17, <1>18, <1>19, <1>20, <1>21, <1>22, <1>23, HooksStepHolds

LEMMA VerdictHolds == ASSUME HooksIInv, NEW h \in Hook, Verdict(h) PROVE HooksIInv'
<1>1. UNCHANGED <<onServer, live, today, pages, met, due, missed>> /\ run[h].step = "verdict" /\ Now(h, Idle)
  BY DEF Verdict
<1>2. run[h].kind = "stop" /\ run[h].session \in Session /\ run[h].data \in Memory
  BY <1>1, StopKind, HooksHeldFacts DEF HooksIInv, Kinds
<1>3. PICK s \in Session, data \in Memory : s = run[h].session /\ data = run[h].data
  BY <1>2
<1>4. PICK prompts : prompts = Unsaved(s, data.asked[s])
  OBVIOUS
<1>5. PICK asks : asks = (Threshold > 0 /\ Cardinality(prompts) >= Threshold)
  OBVIOUS
<1>6. talk' \in [Session -> Talk] /\ \A t \in Session : talk'[t].prompts = talk[t].prompts
  <2>1. PICK unlogged \in BOOLEAN : talk' = [talk EXCEPT ![s].active = unlogged \/ asks]
    BY <1>3, <1>4, <1>5 DEF Verdict
  <2>2. PICK active \in BOOLEAN : talk' = [talk EXCEPT ![s].active = active]
    BY <1>5, <2>1
  <2>3. talk \in [Session -> Talk]
    BY DEF HooksIInv, HooksTypes
  <2>4. QED
    BY <2>2, <2>3 DEF Talk
<1>7. CASE asks
  <2>1. PICK kept \in SUBSET Others(data, s) :
          /\ doc' = [(IF onServer THEN data ELSE doc) EXCEPT !.asked = Asked(data, s, talk[s].prompts, kept)]
          /\ lost' = (\/ lost \/ kept # Others(data, s)
                      \/ IF onServer THEN doc # data ELSE doc.asked # data.asked)
          /\ heard' = [heard EXCEPT ![s] = @ \cup prompts] /\ again' = (again \/ prompts \cap heard[s] # {})
    BY <1>3, <1>4, <1>5, <1>7 DEF Verdict
  <2>2. QED
    BY <1>1, <1>2, <1>3, <1>4, <1>6, <2>1, AsksHolds
<1>8. CASE ~asks
  <2>1. UNCHANGED <<memory, heard, again>>
    BY <1>3, <1>4, <1>5, <1>8 DEF Verdict
  <2>2. UNCHANGED <<doc, lost, heard, again>>
    BY <2>1 DEF memory
  <2>3. missed' \in {missed, today} /\ run[h].step \notin {"live", "write"}
    BY <1>1
  <2>4. QED
    BY <1>1, <1>6, <2>2, <2>3, HooksEndsHolds
<1>9. QED
  BY <1>7, <1>8

LEMMA HooksNextHolds == HooksIInv /\ [StopNext]_stopVars => HooksIInv'
<1> SUFFICES ASSUME HooksIInv, [StopNext]_stopVars PROVE HooksIInv'
  OBVIOUS
<1>1. CASE UNCHANGED stopVars
  <2>1. UNCHANGED <<onServer, memory, pages, run, ghosts>> /\ talk' = talk /\ live' = live /\ today' = today
    BY <1>1 DEF stopVars
  <2>2. talk \in [Session -> Talk] /\ today \in Nat \ {0} /\ today <= today
    BY DEF HooksIInv, HooksTypes
  <2>3. QED
    BY <2>1, <2>2, TalkStays, OutsideHolds
<1>2. ASSUME NEW s \in Session, Prompt(s) \/ VaultWrite(s) \/ StopAgain(s) PROVE HooksIInv'
  BY <1>2, AroundHolds
<1>3. CASE DayTurns \/ \E r \in Repo : RootGoes(r)
  BY <1>3, DayTurnsHolds, RootGoesHolds
<1>4. ASSUME NEW h \in Hook,
             \/ Remember(h) \/ MarkDay(h) \/ LiveRepos(h) \/ WritePage(h) \/ PagesDone(h) \/ PageFails(h)
             \/ HookDies(h) \/ ReadAsked(h) \/ Verdict(h)
             \/ \E s \in Session : StopBegins(h, s)
             \/ \E r \in Repo : StartBegins(h, r)
      PROVE  HooksIInv'
  BY <1>4, RememberHolds, MarkDayHolds, LiveReposHolds, WritePageHolds, PagesDoneHolds, PageFailsHolds,
     HookDiesHolds,
     ReadAskedHolds, VerdictHolds, StopBeginsHolds, StartBeginsHolds
<1>5. QED
  BY <1>1, <1>2, <1>3, <1>4 DEF StopNext

(* However hooks of several sessions interleave and wherever one ends, a session is asked about a message  *)
(* once and a repo that was met is remembered as long as its root is there, unless what one hook saved was *)
(* written over by another or pushed out of its memory; and once the day is marked and no hook is still at *)
(* it, the repos known then have their pages, unless the writing broke off (hooks.py: stop,                *)
(* session_start; remote.py: refresh_month_pages).                                                         *)
THEOREM HooksRemember == StopSpec => []StopInv
<1>1. HooksIInv => StopInv
  BY Follows
<1>2. QED
  BY <1>1, HooksInitHolds, HooksNextHolds, PTL DEF StopSpec

-----------------------------------------------------------------------------
(* The theorem about ChangeLog: for any number of writers, of days, of edits by people and of tries.       *)

PieceType == [is : {"start", "end", "text", "prose"}, n : Nat, commits : BOOLEAN]
PageType == [there : BOOLEAN, body : Seq(PieceType), status : {"active", "complete"}]
WriterType == [step : {"rest", "read", "put", "write"}, block : Seq(PieceType), seen : PageType, tries : Nat,
               crossed : BOOLEAN]

PageTypes ==
  /\ news \in Nat /\ newest \in Nat /\ edits \in Nat /\ broken \in BOOLEAN /\ crossed \in BOOLEAN
  /\ page \in PageType /\ writers \in [Writer -> WriterType]
  /\ \A p \in above \cup below : p.is = "prose"

(* A body with one block, at the place k.                                                                 *)
BlockAt(body, k) ==
  /\ k \in 1..Len(body) /\ k + 2 <= Len(body)
  /\ body[k] = StartMarker /\ body[k + 1].is = "text" /\ body[k + 2] = EndMarker
  /\ \A i \in 1..Len(body) : i < k \/ k + 2 < i => body[i].is = "prose"

(* What people wrote above the block is before every marker a block begins with, whatever became of them. *)
IsAbove(body, p) == \E i \in 1..Len(body) : body[i] = p /\ \A j \in 1..i : body[j] # StartMarker
IsIn(body, p) == \E i \in 1..Len(body) : body[i] = p

AboveKept == \A p \in above : IsAbove(page.body, p)
BelowKept == ~broken => \A p \in below : IsIn(page.body, p)
Placed ==
  ~broken => IF page.there THEN \E k \in Nat : BlockAt(page.body, k) /\ (~crossed => page.body[k + 1].n = newest)
                           ELSE page.body = << >>

(* A block under way says no more than there is to say, and no less than the page ever did unless another  *)
(* wrote the page meanwhile.                                                                               *)
IsBlock(block, n, commits) == block = <<StartMarker, Piece("text", n, commits), EndMarker>>
UnderWay(w) ==
  writers[w].step # "rest" =>
    \E n \in Nat, commits \in BOOLEAN :
      IsBlock(writers[w].block, n, commits) /\ n <= news /\ (~writers[w].crossed => newest <= n)

(* A page that is about to be written has what people wrote, and the block.                                *)
Whole(paged, block) ==
  /\ paged.there /\ \A p \in above : IsAbove(paged.body, p)
  /\ ~broken => /\ \A p \in below : IsIn(paged.body, p)
                /\ \E k \in Nat : BlockAt(paged.body, k) /\ paged.body[k + 1].n = block[2].n
Ready(w) == writers[w].step = "write" => Whole(writers[w].seen, writers[w].block)

PagesIInv ==
  /\ PageTypes /\ AboveKept /\ BelowKept /\ Placed /\ newest <= news
  /\ \A w \in Writer : UnderWay(w) /\ Ready(w)

-----------------------------------------------------------------------------
LEMMA LeastOf ==
  ASSUME NEW I \in SUBSET Nat, I # {}
  PROVE  Min(I) \in I
<1> DEFINE R == OpToRel(<, Nat)
<1>1. IsWellFoundedOn(R, Nat)
  BY NatLessThanWellFounded
<1>2. PICK i \in I : \A j \in I : <<j, i>> \notin R
  <2> HIDE DEF R
  <2> QED
    BY <1>1, WFMin
<1>3. \A j \in I : <<j, i>> \in R <=> j < i
  BY DEF OpToRel
<1>4. \A j \in I : ~(j < i)
  <2> HIDE DEF R
  <2> QED
    BY <1>2, <1>3
<1>5. i \in Nat /\ \A j \in I : j \in Nat
  OBVIOUS
<1>6. i \in I /\ \A j \in I : i <= j
  BY <1>4, <1>5
<1>7. QED
  BY <1>6 DEF Min

(* What str.find answers: a place of the mark, or none. *)
PlaceOf(body, mark) == SelectInSeq(body, LAMBDA x : x = mark)

LEMMA PlaceFound ==
  ASSUME NEW body \in Seq(PieceType), NEW mark
  PROVE  \/ PlaceOf(body, mark) = 0 /\ \A i \in 1..Len(body) : body[i] # mark
         \/ PlaceOf(body, mark) \in 1..Len(body) /\ body[PlaceOf(body, mark)] = mark
<1> DEFINE I == {i \in 1..Len(body) : body[i] = mark}
<1>1. PlaceOf(body, mark) = IF I # {} THEN Min(I) ELSE 0
  BY DEF SelectInSeq, PlaceOf
<1>2. I \subseteq Nat
  BY LenProperties
<1>3. CASE I = {}
  BY <1>1, <1>3
<1>4. CASE I # {}
  <2>1. PlaceOf(body, mark) \in I
    <3> HIDE DEF I
    <3> QED
      BY <1>1, <1>2, <1>4, LeastOf
  <2>2. QED
    BY <2>1
<1>5. QED
  BY <1>3, <1>4

LEMMA SpliceAt ==
  ASSUME NEW body, NEW block
  PROVE  LET start == PlaceOf(body, StartMarker)
             end == PlaceOf(body, EndMarker) IN
         Splice(body, block) = IF start # 0 /\ end > start
                                 THEN SubSeq(body, 1, start - 1) \o block \o SubSeq(body, end + 1, Len(body))
                                 ELSE body \o block
BY DEF Splice, PlaceOf

LEMMA Joined ==
  ASSUME NEW s \in Seq(PieceType), NEW t \in Seq(PieceType)
  PROVE  /\ s \o t \in Seq(PieceType) /\ Len(s \o t) = Len(s) + Len(t)
         /\ \A i \in 1..Len(s) : (s \o t)[i] = s[i]
         /\ \A i \in 1..Len(t) : (s \o t)[Len(s) + i] = t[i]
OBVIOUS

LEMMA Headed ==
  ASSUME NEW s \in Seq(PieceType), NEW k \in 1..Len(s)
  PROVE  LET h == SubSeq(s, 1, k - 1) IN h \in Seq(PieceType) /\ Len(h) = k - 1 /\ \A i \in 1..(k - 1) : h[i] = s[i]
OBVIOUS

LEMMA Tailed ==
  ASSUME NEW s \in Seq(PieceType), NEW k \in 1..Len(s)
  PROVE  LET t == SubSeq(s, k + 1, Len(s)) IN
         t \in Seq(PieceType) /\ Len(t) = Len(s) - k /\ \A i \in 1..(Len(s) - k) : t[i] = s[k + i]
OBVIOUS

LEMMA Marks ==
  /\ StartMarker \in PieceType /\ EndMarker \in PieceType /\ StartMarker # EndMarker
  /\ StartMarker.is = "start" /\ EndMarker.is = "end"
  /\ \A n \in Nat : Prose(n) \in PieceType /\ Prose(n).is = "prose"
BY DEF StartMarker, EndMarker, Prose, Piece, PieceType

LEMMA Blocks ==
  ASSUME NEW n \in Nat, NEW commits \in BOOLEAN, NEW block, IsBlock(block, n, commits)
  PROVE  /\ block \in Seq(PieceType) /\ Len(block) = 3
         /\ block[1] = StartMarker /\ block[2].is = "text" /\ block[2].n = n /\ block[3] = EndMarker
<1>1. Piece("text", n, commits) \in PieceType /\ Piece("text", n, commits).is = "text" /\ Piece("text", n, commits).n = n
  BY DEF Piece, PieceType
<1>2. QED
  BY <1>1, Marks DEF IsBlock

(* A block that replaces another leaves what stands around it. *)
LEMMA SpliceReplaces ==
  ASSUME NEW body \in Seq(PieceType), NEW k \in Nat, BlockAt(body, k),
         NEW n \in Nat, NEW commits \in BOOLEAN, NEW block, IsBlock(block, n, commits)
  PROVE  LET b == Splice(body, block) IN
         /\ b \in Seq(PieceType) /\ BlockAt(b, k) /\ b[k + 1].n = n /\ Len(b) = Len(body)
         /\ \A i \in 1..Len(body) : i < k \/ k + 2 < i => b[i] = body[i]
<1> DEFINE start == PlaceOf(body, StartMarker)
           end == PlaceOf(body, EndMarker)
           head == SubSeq(body, 1, k - 1)
           tail == SubSeq(body, (k + 2) + 1, Len(body))
<1>1. start = k
  <2>1. \A i \in 1..Len(body) : body[i] = StartMarker => i = k
    BY Marks DEF BlockAt
  <2>2. \/ start = 0 /\ \A i \in 1..Len(body) : body[i] # StartMarker
        \/ start \in 1..Len(body) /\ body[start] = StartMarker
      BY PlaceFound
  <2> HIDE DEF start
  <2>3. QED
    BY <2>1, <2>2 DEF BlockAt
<1>2. end = k + 2
  <2>1. \A i \in 1..Len(body) : body[i] = EndMarker => i = k + 2
    BY Marks DEF BlockAt
  <2>2. \/ end = 0 /\ \A i \in 1..Len(body) : body[i] # EndMarker
        \/ end \in 1..Len(body) /\ body[end] = EndMarker
      BY PlaceFound
  <2> HIDE DEF end
  <2>3. QED
    BY <2>1, <2>2 DEF BlockAt
<1>3. Splice(body, block) = head \o block \o tail
  <2>1. Splice(body, block) = IF start # 0 /\ end > start
                                THEN SubSeq(body, 1, start - 1) \o block \o SubSeq(body, end + 1, Len(body))
                                ELSE body \o block
    BY SpliceAt
  <2> HIDE DEF start, end
  <2>2. start # 0 /\ end > start
    BY <1>1, <1>2 DEF BlockAt
  <2>3. SubSeq(body, 1, start - 1) = head /\ SubSeq(body, end + 1, Len(body)) = tail
    BY <1>1, <1>2
  <2> HIDE DEF head, tail
  <2>4. QED
    BY <2>1, <2>2, <2>3
<1>4. head \in Seq(PieceType) /\ Len(head) = k - 1 /\ \A i \in 1..(k - 1) : head[i] = body[i]
  BY Headed DEF BlockAt
<1>5. tail \in Seq(PieceType) /\ Len(tail) = Len(body) - (k + 2)
      /\ \A i \in 1..(Len(body) - (k + 2)) : tail[i] = body[(k + 2) + i]
  BY Tailed DEF BlockAt
<1>6. /\ block \in Seq(PieceType) /\ Len(block) = 3
      /\ block[1] = StartMarker /\ block[2].is = "text" /\ block[2].n = n /\ block[3] = EndMarker
  BY Blocks
<1> HIDE DEF head, tail
<1> DEFINE front == head \o block
<1>7. /\ front \in Seq(PieceType) /\ Len(front) = k + 2
      /\ \A i \in 1..(k - 1) : front[i] = body[i]
      /\ \A i \in 1..3 : front[(k - 1) + i] = block[i]
  <2>1. /\ front \in Seq(PieceType) /\ Len(front) = Len(head) + Len(block)
        /\ \A i \in 1..Len(head) : front[i] = head[i]
        /\ \A i \in 1..Len(block) : front[Len(head) + i] = block[i]
    BY <1>4, <1>6, Joined
  <2> HIDE DEF front
  <2>2. QED
    BY <1>4, <1>6, <2>1
<1> DEFINE b == front \o tail
<1>8. /\ b \in Seq(PieceType) /\ Len(b) = Len(body)
      /\ \A i \in 1..(k + 2) : b[i] = front[i]
      /\ \A i \in 1..(Len(body) - (k + 2)) : b[(k + 2) + i] = body[(k + 2) + i]
  <2>1. k + 2 <= Len(body) /\ Len(body) \in Nat
    BY LenProperties DEF BlockAt
  <2> HIDE DEF front
  <2>2. /\ b \in Seq(PieceType) /\ Len(b) = Len(front) + Len(tail)
        /\ \A i \in 1..Len(front) : b[i] = front[i]
        /\ \A i \in 1..Len(tail) : b[Len(front) + i] = tail[i]
    BY <1>5, <1>7, Joined
  <2> HIDE DEF b
  <2>3. Len(b) = Len(body)
    BY <1>5, <1>7, <2>1, <2>2
  <2>4. \A i \in 1..(k + 2) : b[i] = front[i]
    BY <1>7, <2>2
  <2>5. \A i \in 1..(Len(body) - (k + 2)) : b[(k + 2) + i] = body[(k + 2) + i]
    BY <1>5, <1>7, <2>2
  <2>6. QED
    BY <2>2, <2>3, <2>4, <2>5
<1> HIDE DEF front, b
<1>9. b[k] = StartMarker /\ b[k + 1] = block[2] /\ b[k + 2] = EndMarker
  <2>1. (k - 1) + 1 = k /\ (k - 1) + 2 = k + 1 /\ (k - 1) + 3 = k + 2
    OBVIOUS
  <2>2. front[(k - 1) + 1] = block[1] /\ front[(k - 1) + 2] = block[2] /\ front[(k - 1) + 3] = block[3]
    BY <1>7
  <2>3. k \in 1..(k + 2) /\ k + 1 \in 1..(k + 2) /\ k + 2 \in 1..(k + 2)
    BY DEF BlockAt
  <2>4. QED
    BY <1>6, <1>8, <2>1, <2>2, <2>3
<1>10. \A i \in 1..Len(body) : i < k \/ k + 2 < i => b[i] = body[i]
  <2>1. ASSUME NEW i \in 1..Len(body), i < k PROVE b[i] = body[i]
    <3>1. i \in 1..(k - 1) /\ i \in 1..(k + 2)
      BY <2>1, LenProperties
    <3>2. QED
      BY <1>7, <1>8, <3>1
  <2>2. ASSUME NEW i \in 1..Len(body), k + 2 < i PROVE b[i] = body[i]
    <3>1. i - (k + 2) \in 1..(Len(body) - (k + 2)) /\ (k + 2) + (i - (k + 2)) = i
      BY <2>2, LenProperties
    <3>2. QED
      BY <1>8, <3>1
  <2>3. QED
    BY <2>1, <2>2
<1>11. BlockAt(b, k)
  BY <1>6, <1>8, <1>9, <1>10 DEF BlockAt
<1>12. QED
  BY <1>3, <1>6, <1>8, <1>9, <1>10, <1>11 DEF b, front

(* The first block of a page. *)
LEMMA SpliceBegins ==
  ASSUME NEW n \in Nat, NEW commits \in BOOLEAN, NEW block, IsBlock(block, n, commits)
  PROVE  LET b == Splice(<< >>, block) IN b \in Seq(PieceType) /\ BlockAt(b, 1) /\ b[2].n = n
<1>1. << >> \in Seq(PieceType) /\ Len(<< >>) = 0
  OBVIOUS
<1> DEFINE start == PlaceOf(<< >>, StartMarker)
<1>2. start = 0
  <2>1. start = 0 \/ start \in 1..Len(<< >>)
    BY <1>1, PlaceFound
  <2> HIDE DEF start
  <2>2. QED
    BY <1>1, <2>1
<1>3. Splice(<< >>, block) = << >> \o block
  <2> DEFINE end == PlaceOf(<< >>, EndMarker)
  <2>1. Splice(<< >>, block) =
          IF start # 0 /\ end > start
            THEN SubSeq(<< >>, 1, start - 1) \o block \o SubSeq(<< >>, end + 1, Len(<< >>)) ELSE << >> \o block
    BY SpliceAt
  <2> HIDE DEF start, end
  <2>2. QED
    BY <1>2, <2>1
<1>4. /\ block \in Seq(PieceType) /\ Len(block) = 3
      /\ block[1] = StartMarker /\ block[2].is = "text" /\ block[2].n = n /\ block[3] = EndMarker
  BY Blocks
<1>5. << >> \o block = block
  BY <1>4
<1>6. QED
  BY <1>3, <1>4, <1>5 DEF BlockAt

(* Whatever markers are left, what stands before the first stays. *)
LEMMA SpliceKeepsAbove ==
  ASSUME NEW body \in Seq(PieceType), NEW n \in Nat, NEW commits \in BOOLEAN, NEW block, IsBlock(block, n, commits)
  PROVE  LET b == Splice(body, block) IN b \in Seq(PieceType) /\ \A p : IsAbove(body, p) => IsAbove(b, p)
<1> DEFINE start == PlaceOf(body, StartMarker)
           end == PlaceOf(body, EndMarker)
<1>1. \/ start = 0 /\ \A i \in 1..Len(body) : body[i] # StartMarker
      \/ start \in 1..Len(body) /\ body[start] = StartMarker
    BY PlaceFound
<1>2. end \in 0..Len(body)
  <2>1. end = 0 \/ end \in 1..Len(body)
      BY PlaceFound
  <2> HIDE DEF end
  <2>2. QED
    BY <2>1, LenProperties
<1>3. Splice(body, block) = IF start # 0 /\ end > start
                              THEN SubSeq(body, 1, start - 1) \o block \o SubSeq(body, end + 1, Len(body))
                              ELSE body \o block
  BY SpliceAt
<1>4. block \in Seq(PieceType)
  BY Blocks
<1> HIDE DEF start, end
<1>5. ASSUME start # 0, end > start
      PROVE  Splice(body, block) \in Seq(PieceType) /\ \A p : IsAbove(body, p) => IsAbove(Splice(body, block), p)
  <2> DEFINE head == SubSeq(body, 1, start - 1)
             tail == SubSeq(body, end + 1, Len(body))
  <2>1. start \in 1..Len(body) /\ end \in 1..Len(body) /\ body[start] = StartMarker
    BY <1>1, <1>2, <1>5
  <2>2. head \in Seq(PieceType) /\ Len(head) = start - 1 /\ \A i \in 1..(start - 1) : head[i] = body[i]
    BY <2>1, Headed
  <2>3. tail \in Seq(PieceType)
    BY <2>1, Tailed
  <2> HIDE DEF head, tail
  <2>4. /\ head \o block \in Seq(PieceType) /\ Len(head \o block) >= start - 1
        /\ \A i \in 1..(start - 1) : (head \o block)[i] = body[i]
    BY <1>4, <2>1, <2>2, Joined, LenProperties
  <2> DEFINE b == (head \o block) \o tail
  <2>5. b \in Seq(PieceType) /\ Len(b) >= start - 1 /\ \A i \in 1..(start - 1) : b[i] = body[i]
    <3>1. Len(head \o block) \in Nat /\ Len(tail) \in Nat /\ start \in Nat
      BY <2>1, <2>3, <2>4, LenProperties
    <3>2. /\ b \in Seq(PieceType) /\ Len(b) = Len(head \o block) + Len(tail)
          /\ \A i \in 1..Len(head \o block) : b[i] = (head \o block)[i]
      BY <2>3, <2>4, Joined
    <3>3. QED
      BY <2>4, <3>1, <3>2
  <2>6. Splice(body, block) = b
    BY <1>3, <1>5 DEF b, head, tail
  <2> HIDE DEF b
  <2>7. ASSUME NEW p, IsAbove(body, p) PROVE IsAbove(b, p)
    <3>1. PICK i \in 1..Len(body) : body[i] = p /\ \A j \in 1..i : body[j] # StartMarker
      BY <2>7 DEF IsAbove
    <3>2. i < start
      BY <2>1, <3>1
    <3>3. i \in 1..Len(b) /\ \A j \in 1..i : b[j] = body[j]
      <4>1. Len(b) \in Nat /\ i \in Nat /\ start \in Nat
        BY <2>1, <2>5, LenProperties
      <4>2. QED
        BY <2>5, <3>2, <4>1
    <3>4. b[i] = p /\ \A j \in 1..i : b[j] # StartMarker
      BY <3>1, <3>3
    <3>5. QED
      BY <3>3, <3>4 DEF IsAbove
  <2>8. QED
    BY <2>5, <2>6, <2>7
<1>6. ASSUME ~(start # 0 /\ end > start)
      PROVE  Splice(body, block) \in Seq(PieceType) /\ \A p : IsAbove(body, p) => IsAbove(Splice(body, block), p)
  <2> DEFINE b == body \o block
  <2>1. b \in Seq(PieceType) /\ Len(b) = Len(body) + Len(block) /\ \A i \in 1..Len(body) : b[i] = body[i]
    BY <1>4, Joined
  <2>2. Splice(body, block) = b
    BY <1>3, <1>6
  <2> HIDE DEF b
  <2>3. ASSUME NEW p, IsAbove(body, p) PROVE IsAbove(b, p)
    <3>1. PICK i \in 1..Len(body) : body[i] = p /\ \A j \in 1..i : body[j] # StartMarker
      BY <2>3 DEF IsAbove
    <3>2. i \in 1..Len(b) /\ \A j \in 1..i : j \in 1..Len(body)
      BY <1>4, <2>1, LenProperties
    <3>3. b[i] = p /\ \A j \in 1..i : b[j] # StartMarker
      BY <2>1, <3>1, <3>2
    <3>4. QED
      BY <3>2, <3>3 DEF IsAbove
  <2>4. QED
    BY <2>1, <2>2, <2>3
<1>7. QED
  BY <1>5, <1>6

-----------------------------------------------------------------------------
LEMMA RestingWrites ==
  /\ NewPage \in PageType /\ ~NewPage.there /\ NewPage.body = << >>
  /\ Resting \in WriterType /\ Resting.step = "rest"
<1>1. << >> \in Seq(PieceType)
  OBVIOUS
<1>2. NewPage \in PageType /\ ~NewPage.there /\ NewPage.body = << >>
  BY <1>1 DEF NewPage, PageType
<1>3. QED
  BY <1>1, <1>2 DEF Resting, WriterType

LEMMA PagesBegin == ChangeLogInit => PagesIInv
<1> SUFFICES ASSUME ChangeLogInit PROVE PagesIInv
  OBVIOUS
<1>1. PageTypes
  BY RestingWrites DEF ChangeLogInit, PageTypes
<1>2. \A w \in Writer : UnderWay(w) /\ Ready(w)
  BY RestingWrites DEF ChangeLogInit, UnderWay, Ready
<1>3. QED
  BY RestingWrites, <1>1, <1>2 DEF ChangeLogInit, PagesIInv, AboveKept, BelowKept, Placed

(* Steps that leave the page alone, and the writers or what there is to say. *)
LEMMA PageStays ==
  ASSUME PagesIInv, UNCHANGED <<page, above, below, broken, newest>>, crossed' = crossed,
         news' \in Nat, news <= news', edits' \in Nat, writers' \in [Writer -> WriterType],
         \A w \in Writer : UnderWay(w)',
         \A w \in Writer : writers'[w].step = "write" => Whole(writers'[w].seen, writers'[w].block)
  PROVE  PagesIInv'
<1>1. PageTypes'
  BY DEF PagesIInv, PageTypes
<1>2. AboveKept' /\ BelowKept' /\ Placed'
  BY DEF PagesIInv, AboveKept, BelowKept, Placed, IsAbove, IsIn, BlockAt, StartMarker, EndMarker, Piece
<1>3. newest' <= news'
  BY DEF PagesIInv, PageTypes
<1>4. \A w \in Writer : Ready(w)'
  BY DEF Ready, Whole, IsAbove, IsIn, BlockAt, StartMarker, EndMarker, Piece
<1>5. QED
  BY <1>1, <1>2, <1>3, <1>4 DEF PagesIInv

LEMMA CalendarKeeps == PagesIInv /\ (DateTurns \/ UNCHANGED changeLogVars) => PagesIInv'
<1> SUFFICES ASSUME PagesIInv, DateTurns \/ UNCHANGED changeLogVars PROVE PagesIInv'
  OBVIOUS
<1>1. UNCHANGED <<news, page, writers, edits, above, below, broken, newest, crossed>>
  BY DEF DateTurns, changeLogVars, beside
<1>2. news' \in Nat /\ news <= news' /\ edits' \in Nat /\ writers' \in [Writer -> WriterType]
  BY <1>1 DEF PagesIInv, PageTypes
<1>3. \A w \in Writer : UnderWay(w)'
  BY <1>1 DEF PagesIInv, UnderWay, IsBlock, StartMarker, EndMarker, Piece
<1>4. \A w \in Writer : writers'[w].step = "write" => Whole(writers'[w].seen, writers'[w].block)
  BY <1>1 DEF PagesIInv, Ready
<1>5. QED
  BY <1>1, <1>2, <1>3, <1>4, PageStays

LEMMA NewsKeeps == PagesIInv /\ News => PagesIInv'
<1> SUFFICES ASSUME PagesIInv, News PROVE PagesIInv'
  OBVIOUS
<1>1. UNCHANGED <<page, writers, edits, above, below, broken, newest, crossed>> /\ news' = news + 1
  BY DEF News, beside
<1>2. news' \in Nat /\ news <= news' /\ edits' \in Nat /\ writers' \in [Writer -> WriterType]
  BY <1>1 DEF PagesIInv, PageTypes
<1>3. ASSUME NEW w \in Writer, writers[w].step # "rest" PROVE UnderWay(w)'
  <2>1. PICK n \in Nat, commits \in BOOLEAN :
          IsBlock(writers[w].block, n, commits) /\ n <= news /\ (~writers[w].crossed => newest <= n)
    BY <1>3 DEF PagesIInv, UnderWay
  <2>2. n <= news'
    BY <1>1, <2>1 DEF PagesIInv, PageTypes
  <2>3. QED
    BY <1>1, <2>1, <2>2 DEF UnderWay, IsBlock, StartMarker, EndMarker, Piece
<1>4. \A w \in Writer : UnderWay(w)'
  BY <1>1, <1>3 DEF UnderWay
<1>5. \A w \in Writer : writers'[w].step = "write" => Whole(writers'[w].seen, writers'[w].block)
  BY <1>1 DEF PagesIInv, Ready
<1>6. QED
  BY <1>1, <1>2, <1>4, <1>5, PageStays

(* A writer goes on, and has the block it had or one made of the news there are. *)
LEMMA WriterKeeps ==
  ASSUME PagesIInv, NEW w \in Writer, NEW r \in WriterType, WriterGoes(w, r),
         UNCHANGED <<news, page, edits, above, below, broken, newest, crossed>>,
         r.step # "rest" => \E n \in Nat, commits \in BOOLEAN :
                              IsBlock(r.block, n, commits) /\ n <= news /\ (~r.crossed => newest <= n),
         r.step = "write" => Whole(r.seen, r.block)
  PROVE  PagesIInv'
<1>1. writers' \in [Writer -> WriterType] /\ writers'[w] = r /\ \A v \in Writer : v # w => writers'[v] = writers[v]
  BY DEF WriterGoes, PagesIInv, PageTypes
<1>2. \A v \in Writer : UnderWay(v)'
  BY <1>1 DEF PagesIInv, UnderWay, IsBlock, StartMarker, EndMarker, Piece
<1>3. news' \in Nat /\ news <= news' /\ edits' \in Nat
  BY DEF PagesIInv, PageTypes
<1>4. \A v \in Writer : writers'[v].step = "write" => Whole(writers'[v].seen, writers'[v].block)
  BY <1>1 DEF PagesIInv, Ready
<1>5. QED
  BY <1>1, <1>2, <1>3, <1>4, PageStays

LEMMA BeginKeeps == ASSUME PagesIInv, NEW w \in Writer, WriteBegins(w) PROVE PagesIInv'
<1>1. PICK commits \in BOOLEAN : WriterGoes(w, [Resting EXCEPT !.step = "read", !.block = GeneratedBlock(commits)])
  BY DEF WriteBegins
<1>2. UNCHANGED <<news, page, edits, above, below, broken, newest, crossed>>
  BY DEF WriteBegins, beside
<1> DEFINE r == [Resting EXCEPT !.step = "read", !.block = GeneratedBlock(commits)]
<1>3. Resting \in WriterType
  BY RestingWrites
<1>4. news \in Nat /\ newest <= news
  BY DEF PagesIInv, PageTypes
<1>5. IsBlock(GeneratedBlock(commits), news, commits)
  BY DEF IsBlock, GeneratedBlock
<1>6. GeneratedBlock(commits) \in Seq(PieceType)
  BY <1>4, <1>5, Blocks
<1>7. r \in WriterType /\ r.block = GeneratedBlock(commits) /\ r.step # "write"
  BY <1>3, <1>6 DEF WriterType
<1>8. news <= news
  BY <1>4
<1>9. WriterGoes(w, r)
  BY <1>1
<1>10. \E n \in Nat, c \in BOOLEAN : IsBlock(r.block, n, c) /\ n <= news /\ (~r.crossed => newest <= n)
  BY <1>4, <1>5, <1>7, <1>8
<1> HIDE DEF r
<1>11. QED
  BY <1>2, <1>7, <1>9, <1>10, WriterKeeps

(* Reading, and going back to read, leave the block as it is. *)
LEMMA SameBlockKeeps ==
  ASSUME PagesIInv, NEW w \in Writer, NEW r \in WriterType, WriterGoes(w, r),
         UNCHANGED <<news, page, edits, above, below, broken, newest, crossed>>, writers[w].step # "rest",
         r.block = writers[w].block, r.crossed = writers[w].crossed, r.step = "write" => Whole(r.seen, r.block)
  PROVE  PagesIInv'
BY WriterKeeps DEF PagesIInv, UnderWay

LEMMA ReadKeeps == ASSUME PagesIInv, NEW w \in Writer, ReadPage(w) PROVE PagesIInv'
<1>1. UNCHANGED <<news, page, edits, above, below, broken, newest, crossed>> /\ writers[w].step # "rest"
  BY DEF ReadPage, beside
<1> DEFINE r == [writers[w] EXCEPT !.step = "put", !.seen = page]
<1>2. writers[w] \in WriterType /\ page \in PageType
  BY DEF PagesIInv, PageTypes
<1>3. r \in WriterType /\ r.block = writers[w].block /\ r.crossed = writers[w].crossed /\ r.step # "write"
  BY <1>2 DEF WriterType
<1>4. WriterGoes(w, r)
  BY DEF ReadPage
<1> HIDE DEF r
<1>5. QED
  BY <1>1, <1>3, <1>4, SameBlockKeeps

-----------------------------------------------------------------------------
(* People, who leave the writers alone: what they write while one of them is about to write is not told.  *)
LEMMA ByHand ==
  ASSUME PagesIInv, HandEdit, AboveKept', BelowKept', Placed', page' \in PageType, broken' \in BOOLEAN,
         \A p \in above' \cup below' : p.is = "prose",
         AboutToWrite => above' \subseteq above /\ below' \subseteq below /\ (~broken' => ~broken)
  PROVE  PagesIInv'
<1>1. UNCHANGED <<news, newest, writers, crossed>> /\ edits' = edits + 1
  BY DEF HandEdit
<1>2. PageTypes'
  BY <1>1 DEF PagesIInv, PageTypes
<1>3. \A w \in Writer : UnderWay(w)'
  BY <1>1 DEF PagesIInv, UnderWay, IsBlock, StartMarker, EndMarker, Piece
<1>4. ASSUME NEW w \in Writer PROVE Ready(w)'
  <2>1. CASE writers[w].step = "write"
    <3>1. /\ writers' = writers /\ Whole(writers[w].seen, writers[w].block)
          /\ above' \subseteq above /\ below' \subseteq below /\ (~broken' => ~broken)
      BY <1>1, <2>1 DEF AboutToWrite, PagesIInv, Ready
    <3>2. QED
      BY <3>1 DEF Ready, Whole, IsAbove, IsIn, BlockAt, StartMarker, EndMarker, Piece
  <2>2. CASE writers[w].step # "write"
    BY <1>1, <2>2 DEF Ready
  <2>3. QED
    BY <2>1, <2>2
<1>5. QED
  BY <1>1, <1>2, <1>3, <1>4 DEF PagesIInv

LEMMA AboveKeeps == PagesIInv /\ WriteAbove => PagesIInv'
<1> SUFFICES ASSUME PagesIInv, WriteAbove PROVE PagesIInv'
  OBVIOUS
<1> DEFINE new == Prose(edits)
           body == page.body
           b == <<new>> \o body
<1>1. edits \in Nat /\ page \in PageType /\ body \in Seq(PieceType)
  BY DEF PagesIInv, PageTypes, PageType
<1>2. new \in PieceType /\ new.is = "prose" /\ new # StartMarker
  BY <1>1, Marks
<1> HIDE DEF new
<1>3. <<new>> \in Seq(PieceType) /\ Len(<<new>>) = 1 /\ <<new>>[1] = new
  BY <1>2
<1>4. b \in Seq(PieceType) /\ Len(b) = 1 + Len(body) /\ b[1] = new /\ \A i \in 1..Len(body) : b[1 + i] = body[i]
  <2>1. /\ b \in Seq(PieceType) /\ Len(b) = Len(<<new>>) + Len(body) /\ \A i \in 1..Len(<<new>>) : b[i] = <<new>>[i]
        /\ \A i \in 1..Len(body) : b[Len(<<new>>) + i] = body[i]
    BY <1>1, <1>3, Joined
  <2> HIDE DEF b, body
  <2>2. QED
    BY <1>3, <2>1
<1>5. page'.there = page.there /\ page'.body = b /\ page' \in PageType
  BY <1>1, <1>4 DEF WriteAbove, PageType, new
<1>6. /\ HandEdit /\ page.there /\ above' \subseteq above \cup {new} /\ (AboutToWrite => above' = above)
      /\ UNCHANGED <<below, broken, crossed, newest>>
  BY DEF WriteAbove, HandEdit, Told, new
<1> HIDE DEF b, body
<1>7. Len(body) \in Nat
  BY <1>1, LenProperties
<1>8. \A j \in 1..Len(b) : j = 1 \/ (j - 1 \in 1..Len(body) /\ b[j] = body[j - 1])
  <2> TAKE j \in 1..Len(b)
  <2>1. j # 1 => j - 1 \in 1..Len(body) /\ 1 + (j - 1) = j
    BY <1>4, <1>7
  <2>2. QED
    BY <1>4, <2>1
<1>9. AboveKept'
  <2>1. IsAbove(b, new)
    BY <1>2, <1>4, <1>7 DEF IsAbove
  <2>2. ASSUME NEW p \in above PROVE IsAbove(b, p)
    <3>1. PICK i \in 1..Len(body) : body[i] = p /\ \A j \in 1..i : body[j] # StartMarker
      BY DEF PagesIInv, AboveKept, IsAbove, body
    <3>2. 1 + i \in 1..Len(b) /\ b[1 + i] = p
      BY <1>4, <1>7, <3>1
    <3>3. ASSUME NEW j \in 1..(1 + i) PROVE b[j] # StartMarker
      <4>1. j \in 1..Len(b) /\ (j # 1 => j - 1 \in 1..i)
        BY <1>4, <1>7
      <4>2. QED
        BY <1>2, <1>4, <1>8, <3>1, <4>1
    <3>4. QED
      BY <3>2, <3>3 DEF IsAbove
  <2>3. QED
    BY <1>5, <1>6, <2>1, <2>2 DEF AboveKept
<1>10. BelowKept'
  <2>1. ASSUME NEW p, IsIn(body, p) PROVE IsIn(b, p)
    <3>1. PICK i \in 1..Len(body) : body[i] = p
      BY <2>1 DEF IsIn
    <3>2. 1 + i \in 1..Len(b) /\ b[1 + i] = p
      BY <1>4, <1>7, <3>1
    <3>3. QED
      BY <3>2 DEF IsIn
  <2>2. QED
    BY <1>5, <1>6, <2>1 DEF PagesIInv, BelowKept, body
<1>11. Placed'
  <2>1. ASSUME NEW k \in Nat, BlockAt(body, k) PROVE BlockAt(b, k + 1) /\ b[(k + 1) + 1] = body[k + 1]
    <3>1. /\ k \in 1..Len(body) /\ k + 2 <= Len(body)
          /\ body[k] = StartMarker /\ body[k + 1].is = "text" /\ body[k + 2] = EndMarker
          /\ \A i \in 1..Len(body) : i < k \/ k + 2 < i => body[i].is = "prose"
      BY <2>1 DEF BlockAt
    <3>2. b[k + 1] = body[k] /\ b[(k + 1) + 1] = body[k + 1] /\ b[(k + 1) + 2] = body[k + 2]
      <4>1. /\ k \in 1..Len(body) /\ k + 1 \in 1..Len(body) /\ k + 2 \in 1..Len(body)
            /\ 1 + k = k + 1 /\ 1 + (k + 1) = (k + 1) + 1 /\ 1 + (k + 2) = (k + 1) + 2
        BY <1>7, <3>1
      <4>2. b[1 + k] = body[k] /\ b[1 + (k + 1)] = body[k + 1] /\ b[1 + (k + 2)] = body[k + 2]
        BY <1>4, <4>1
      <4>3. QED
        BY <4>1, <4>2
    <3>3. k + 1 \in 1..Len(b) /\ (k + 1) + 2 <= Len(b)
      BY <1>4, <1>7, <3>1
    <3>4. ASSUME NEW i \in 1..Len(b), i < k + 1 \/ (k + 1) + 2 < i PROVE b[i].is = "prose"
      <4>1. CASE i = 1
        BY <1>2, <1>4, <4>1
      <4>2. CASE i # 1
        <5>1. i - 1 \in 1..Len(body) /\ b[i] = body[i - 1]
          BY <1>8, <4>2
        <5>2. i - 1 < k \/ k + 2 < i - 1
          BY <3>4, <1>7, <1>4
        <5>3. QED
          BY <3>1, <5>1, <5>2
      <4>3. QED
        BY <4>1, <4>2
    <3>5. QED
      BY <3>1, <3>2, <3>3, <3>4 DEF BlockAt
  <2>2. ASSUME ~broken' PROVE \E k \in Nat : BlockAt(b, k) /\ (~crossed' => b[k + 1].n = newest')
    <3>1. PICK k \in Nat : BlockAt(body, k) /\ (~crossed => body[k + 1].n = newest)
      BY <1>6, <2>2 DEF PagesIInv, Placed, body
    <3>2. k + 1 \in Nat
      OBVIOUS
    <3>3. QED
      BY <1>6, <2>1, <3>1, <3>2
  <2>3. QED
    BY <1>5, <1>6, <2>2 DEF Placed
<1>12. \A p \in above' \cup below' : p.is = "prose"
  BY <1>2, <1>6 DEF PagesIInv, PageTypes
<1>13. broken' \in BOOLEAN
  BY <1>6 DEF PagesIInv, PageTypes
<1>14. QED
  BY <1>5, <1>6, <1>9, <1>10, <1>11, <1>12, <1>13, ByHand

(* What is in a body stays where something is put behind it. *)
LEMMA JoinedKeeps ==
  ASSUME NEW body \in Seq(PieceType), NEW t \in Seq(PieceType), NEW b, b = body \o t
  PROVE  \A p : (IsAbove(body, p) => IsAbove(b, p)) /\ (IsIn(body, p) => IsIn(b, p))
<1>1. b \in Seq(PieceType) /\ Len(b) = Len(body) + Len(t) /\ \A i \in 1..Len(body) : b[i] = body[i]
  BY Joined
<1>2. \A i \in 1..Len(body) : i \in 1..Len(b) /\ \A j \in 1..i : j \in 1..Len(body)
  BY <1>1, LenProperties
<1>3. ASSUME NEW p, IsAbove(body, p) PROVE IsAbove(b, p)
  <2>1. PICK i \in 1..Len(body) : body[i] = p /\ \A j \in 1..i : body[j] # StartMarker
    BY <1>3 DEF IsAbove
  <2>2. i \in 1..Len(b) /\ b[i] = p /\ \A j \in 1..i : b[j] # StartMarker
    BY <1>1, <1>2, <2>1
  <2>3. QED
    BY <2>2 DEF IsAbove
<1>4. ASSUME NEW p, IsIn(body, p) PROVE IsIn(b, p)
  BY <1>1, <1>2, <1>4 DEF IsIn
<1>5. QED
  BY <1>3, <1>4

LEMMA BelowKeeps == PagesIInv /\ WriteBelow => PagesIInv'
<1> SUFFICES ASSUME PagesIInv, WriteBelow PROVE PagesIInv'
  OBVIOUS
<1> DEFINE new == Prose(edits)
           body == page.body
           b == Append(body, new)
<1>1. edits \in Nat /\ page \in PageType /\ body \in Seq(PieceType)
  BY DEF PagesIInv, PageTypes, PageType
<1>2. new \in PieceType /\ new.is = "prose" /\ new # StartMarker
  BY <1>1, Marks
<1> HIDE DEF new
<1>3. b = body \o <<new>> /\ <<new>> \in Seq(PieceType)
  <2> HIDE DEF body
  <2>1. <<new>> \in Seq(PieceType)
    BY <1>2
  <2>2. QED
    BY <1>1, <1>2, <2>1, AppendIsConcat
<1>4. b \in Seq(PieceType) /\ Len(b) = Len(body) + 1 /\ b[Len(body) + 1] = new /\ \A i \in 1..Len(body) : b[i] = body[i]
  <2> HIDE DEF body
  <2>1. QED
    BY <1>1, <1>2, AppendProperties
<1>5. page'.there = page.there /\ page'.body = b /\ page' \in PageType
  BY <1>1, <1>4 DEF WriteBelow, PageType, new
<1>6. /\ HandEdit /\ page.there /\ below' \subseteq below \cup {new} /\ (AboutToWrite => below' = below)
      /\ UNCHANGED <<above, broken, crossed, newest>>
  BY DEF WriteBelow, HandEdit, Told, new
<1>7. \A p : (IsAbove(body, p) => IsAbove(b, p)) /\ (IsIn(body, p) => IsIn(b, p))
  <2> HIDE DEF b, body
  <2>1. QED
    BY <1>1, <1>3, JoinedKeeps
<1> HIDE DEF b, body
<1>8. Len(body) \in Nat
  BY <1>1, LenProperties
<1>9. AboveKept'
  BY <1>5, <1>6, <1>7 DEF PagesIInv, AboveKept, body
<1>10. BelowKept'
  <2>1. IsIn(b, new)
    BY <1>4, <1>8 DEF IsIn
  <2>2. QED
    BY <1>5, <1>6, <1>7, <2>1 DEF PagesIInv, BelowKept, body
<1>11. Placed'
  <2>1. ASSUME NEW k \in Nat, BlockAt(body, k) PROVE BlockAt(b, k) /\ b[k + 1] = body[k + 1]
    <3>1. /\ k \in 1..Len(body) /\ k + 2 <= Len(body)
          /\ body[k] = StartMarker /\ body[k + 1].is = "text" /\ body[k + 2] = EndMarker
          /\ \A i \in 1..Len(body) : i < k \/ k + 2 < i => body[i].is = "prose"
      BY <2>1 DEF BlockAt
    <3>2. k \in 1..Len(body) /\ k + 1 \in 1..Len(body) /\ k + 2 \in 1..Len(body)
      BY <1>8, <3>1
    <3>3. b[k] = body[k] /\ b[k + 1] = body[k + 1] /\ b[k + 2] = body[k + 2]
      BY <1>4, <3>2
    <3>4. k \in 1..Len(b) /\ k + 2 <= Len(b)
      BY <1>4, <1>8, <3>1
    <3>5. ASSUME NEW i \in 1..Len(b), i < k \/ k + 2 < i PROVE b[i].is = "prose"
      <4>1. i = Len(body) + 1 \/ i \in 1..Len(body)
        BY <1>4, <1>8
      <4>2. QED
        BY <1>2, <1>4, <3>1, <3>5, <4>1
    <3>6. QED
      BY <3>1, <3>3, <3>4, <3>5 DEF BlockAt
  <2>2. ASSUME ~broken' PROVE \E k \in Nat : BlockAt(b, k) /\ (~crossed' => b[k + 1].n = newest')
    <3>1. PICK k \in Nat : BlockAt(body, k) /\ (~crossed => body[k + 1].n = newest)
      BY <1>6, <2>2 DEF PagesIInv, Placed, body
    <3>2. QED
      BY <1>6, <2>1, <3>1
  <2>3. QED
    BY <1>5, <1>6, <2>2 DEF Placed
<1>12. \A p \in above' \cup below' : p.is = "prose"
  BY <1>2, <1>6 DEF PagesIInv, PageTypes
<1>13. broken' \in BOOLEAN
  BY <1>6 DEF PagesIInv, PageTypes
<1>14. QED
  BY <1>5, <1>6, <1>9, <1>10, <1>11, <1>12, <1>13, ByHand

(* Taking a marker away: what is above the first block is above the next. *)
LEMMA RemovedKeeps ==
  ASSUME NEW body \in Seq(PieceType), NEW mark, NEW i \in 1..Len(body), body[i] = mark
  PROVE  LET b == RemoveFirst(body, mark) IN
         b \in Seq(PieceType) /\ \A p : p # mark /\ IsAbove(body, p) => IsAbove(b, p)
<1> DEFINE m == PlaceOf(body, mark)
           head == SubSeq(body, 1, m - 1)
           tail == SubSeq(body, m + 1, Len(body))
           b == head \o tail
<1>1. RemoveFirst(body, mark) = b
  BY DEF RemoveFirst, RemoveAt, PlaceOf
<1>2. m \in 1..Len(body) /\ body[m] = mark
  BY PlaceFound
<1> HIDE DEF m
<1>3. head \in Seq(PieceType) /\ Len(head) = m - 1 /\ \A j \in 1..(m - 1) : head[j] = body[j]
  BY <1>2, Headed
<1>4. tail \in Seq(PieceType) /\ Len(tail) = Len(body) - m /\ \A j \in 1..(Len(body) - m) : tail[j] = body[m + j]
  BY <1>2, Tailed
<1> HIDE DEF head, tail
<1>5. /\ b \in Seq(PieceType) /\ Len(b) = Len(head) + Len(tail)
      /\ \A j \in 1..Len(head) : b[j] = head[j]
      /\ \A l \in 1..Len(tail) : b[Len(head) + l] = tail[l]
  BY <1>3, <1>4, Joined
<1>6. Len(body) \in Nat /\ m \in Nat
  BY <1>2, LenProperties
<1> HIDE DEF b
<1>7. Len(b) = Len(body) - 1
  BY <1>3, <1>4, <1>5, <1>6
<1>8. \A j \in 1..(m - 1) : b[j] = body[j]
  BY <1>3, <1>5, <1>7
<1>9. \A j \in m..(Len(body) - 1) : b[j] = body[j + 1]
  <2> TAKE j \in m..(Len(body) - 1)
  <2>1. j - (m - 1) \in 1..Len(tail) /\ Len(head) + (j - (m - 1)) = j /\ m + (j - (m - 1)) = j + 1
    BY <1>3, <1>4, <1>6
  <2>2. b[j] = tail[j - (m - 1)]
    <3>1. PICK l \in 1..Len(tail) : l = j - (m - 1) /\ Len(head) + l = j
      BY <2>1
    <3>2. b[Len(head) + l] = tail[l]
      BY <1>5
    <3>3. QED
      BY <3>1, <3>2
  <2>3. QED
    BY <1>4, <2>1, <2>2
<1>10. ASSUME NEW p, p # mark, IsAbove(body, p) PROVE IsAbove(b, p)
  <2>1. PICK k \in 1..Len(body) : body[k] = p /\ \A j \in 1..k : body[j] # StartMarker
    BY <1>10 DEF IsAbove
  <2>2. k # m
    BY <1>2, <1>10, <2>1
  <2>3. CASE k < m
    <3>1. k \in 1..Len(b) /\ \A j \in 1..k : j \in 1..(m - 1)
      BY <1>2, <1>6, <1>7, <2>3
    <3>2. b[k] = p /\ \A j \in 1..k : b[j] # StartMarker
      BY <1>8, <2>1, <3>1
    <3>3. QED
      BY <3>1, <3>2 DEF IsAbove
  <2>4. CASE m < k
    <3>1. k - 1 \in 1..Len(b) /\ k - 1 \in m..(Len(body) - 1) /\ (k - 1) + 1 = k
      BY <1>2, <1>6, <1>7, <2>4
    <3>2. ASSUME NEW j \in 1..(k - 1) PROVE b[j] # StartMarker
      <4>1. CASE j < m
        <5>1. j \in 1..(m - 1) /\ j \in 1..k
          BY <1>6, <2>4, <4>1
        <5>2. QED
          BY <1>8, <2>1, <5>1
      <4>2. CASE m <= j
        <5>1. j \in m..(Len(body) - 1) /\ j + 1 \in 1..k
          BY <1>6, <3>1, <4>2
        <5>2. QED
          BY <1>9, <2>1, <5>1
      <4>3. QED
        BY <1>6, <4>1, <4>2
    <3>3. b[k - 1] = p
      BY <1>9, <2>1, <3>1
    <3>4. QED
      BY <3>1, <3>2, <3>3 DEF IsAbove
  <2>5. QED
    BY <1>6, <2>2, <2>3, <2>4
<1>11. QED
  BY <1>1, <1>5, <1>10

LEMMA TakeKeeps == PagesIInv /\ TakeMarker => PagesIInv'
<1> SUFFICES ASSUME PagesIInv, TakeMarker PROVE PagesIInv'
  OBVIOUS
<1>1. PICK mark \in {StartMarker, EndMarker} :
        /\ HandEdit /\ Contains(page.body, mark) /\ page' = [page EXCEPT !.body = RemoveFirst(@, mark)]
        /\ broken' = TRUE /\ UNCHANGED <<above, below>>
  BY DEF TakeMarker
<1>2. page \in PageType /\ page.body \in Seq(PieceType)
  BY DEF PagesIInv, PageTypes, PageType
<1>3. PICK i \in 1..Len(page.body) : page.body[i] = mark
  BY <1>1 DEF Contains
<1>4. /\ RemoveFirst(page.body, mark) \in Seq(PieceType)
      /\ \A p : p # mark /\ IsAbove(page.body, p) => IsAbove(RemoveFirst(page.body, mark), p)
  BY <1>2, <1>3, RemovedKeeps
<1>5. page' \in PageType /\ page'.body = RemoveFirst(page.body, mark)
  BY <1>1, <1>2, <1>4 DEF PageType
<1>6. \A p \in above \cup below : p # mark
  BY Marks DEF PagesIInv, PageTypes
<1>7. AboveKept'
  BY <1>1, <1>4, <1>5, <1>6 DEF PagesIInv, AboveKept
<1>8. BelowKept' /\ Placed'
  BY <1>1 DEF BelowKept, Placed
<1>9. \A p \in above' \cup below' : p.is = "prose"
  BY <1>1 DEF PagesIInv, PageTypes
<1>10. QED
  BY <1>1, <1>5, <1>7, <1>8, <1>9, ByHand

-----------------------------------------------------------------------------
(* What a writer makes of a page that is as it has read it.                                               *)
LEMMA PagedIsWhole ==
  ASSUME PagesIInv, NEW w \in Writer, writers[w].step = "put", page = writers[w].seen
  PROVE  LET paged == Paged(page, writers[w].block) IN paged \in PageType /\ Whole(paged, writers[w].block)
<1> DEFINE body == page.body
           block == writers[w].block
           b == Splice(body, block)
           paged == Paged(page, block)
<1>1. page \in PageType /\ body \in Seq(PieceType)
  BY DEF PagesIInv, PageTypes, PageType
<1>2. PICK n \in Nat, commits \in BOOLEAN : IsBlock(block, n, commits)
  BY DEF PagesIInv, UnderWay
<1>3. block[2].n = n
  BY <1>2, Blocks
<1> HIDE DEF block
<1>4. b \in Seq(PieceType) /\ \A p : IsAbove(body, p) => IsAbove(b, p)
  <2> HIDE DEF body
  <2>1. QED
    BY <1>1, <1>2, SpliceKeepsAbove
<1> HIDE DEF b, body
<1>5. paged = [there |-> TRUE, body |-> b, status |-> IF PeriodOver(date) THEN "complete" ELSE "active"]
  BY DEF Paged, b, body, block
<1>6. paged \in PageType /\ paged.there /\ paged.body = b
  BY <1>4, <1>5 DEF PageType
<1>7. \A p \in above : IsAbove(b, p)
  BY <1>4 DEF PagesIInv, AboveKept, body
<1>8. ASSUME ~broken
      PROVE  /\ \A p \in below : IsIn(b, p)
             /\ \E k \in Nat : BlockAt(b, k) /\ b[k + 1].n = block[2].n
  <2>1. CASE page.there
    <3>1. PICK k \in Nat : BlockAt(body, k)
      BY <1>8, <2>1 DEF PagesIInv, Placed, body
    <3>2. /\ BlockAt(b, k) /\ b[k + 1].n = n /\ Len(b) = Len(body)
          /\ \A i \in 1..Len(body) : i < k \/ k + 2 < i => b[i] = body[i]
      BY <1>1, <1>2, <3>1, SpliceReplaces DEF b
    <3>3. ASSUME NEW p, p.is = "prose", IsIn(body, p) PROVE IsIn(b, p)
      <4>1. PICK i \in 1..Len(body) : body[i] = p
        BY <3>3 DEF IsIn
      <4>2. i # k /\ i # k + 1 /\ i # k + 2
        BY <3>1, <3>3, <4>1, Marks DEF BlockAt
      <4>3. i < k \/ k + 2 < i
        BY <1>1, <4>2, LenProperties
      <4>4. QED
        BY <3>2, <4>1, <4>3 DEF IsIn
    <3>4. \A p \in below : IsIn(b, p)
      BY <1>8, <3>3 DEF PagesIInv, PageTypes, BelowKept, body
    <3>5. QED
      BY <1>3, <3>2, <3>4
  <2>2. CASE ~page.there
    <3>1. body = << >>
      BY <1>8, <2>2 DEF PagesIInv, Placed, body
    <3>2. BlockAt(b, 1) /\ b[2].n = n
      BY <1>2, <3>1, SpliceBegins DEF b
    <3>3. below = {}
      <4>1. ASSUME NEW p \in below PROVE FALSE
        <5>1. IsIn(<< >>, p)
          BY <1>8, <3>1 DEF PagesIInv, BelowKept, body
        <5>2. QED
          BY <5>1 DEF IsIn
      <4>2. QED
        BY <4>1
    <3>4. BlockAt(b, 1) /\ b[1 + 1].n = block[2].n
      BY <1>3, <3>2
    <3>5. QED
      BY <3>3, <3>4
  <2>3. QED
    BY <2>1, <2>2
<1>9. paged \in PageType /\ Whole(paged, block)
  <2> HIDE DEF paged
  <2> QED
    BY <1>6, <1>7, <1>8 DEF Whole
<1>10. QED
  BY <1>9 DEF block

(* Such a page is written; who wrote meanwhile to the others has overtaken them.                           *)
LEMMA PutsKeeps ==
  ASSUME PagesIInv, NEW w \in Writer, writers[w].step # "rest",
         NEW paged \in PageType, Whole(paged, writers[w].block), Puts(w, paged),
         UNCHANGED <<news, edits, above, below, broken>>
  PROVE  PagesIInv'
<1> DEFINE block == writers[w].block
<1>1. /\ newest \in Nat /\ news \in Nat /\ newest <= news
      /\ \A v \in Writer : writers[v] \in WriterType
  BY DEF PagesIInv, PageTypes
<1>2. PICK n \in Nat, commits \in BOOLEAN : IsBlock(block, n, commits) /\ n <= news /\ (~writers[w].crossed => newest <= n)
  BY DEF PagesIInv, UnderWay
<1>3. block[2].n = n
  BY <1>2, Blocks
<1>4. newest' = (IF n > newest THEN n ELSE newest) /\ crossed' = writers[w].crossed
  BY <1>3 DEF Puts
<1>5. page' = paged /\ Whole(paged, block)
  BY DEF Puts
<1> HIDE DEF block
<1>6. newest' \in Nat /\ newest' <= news' /\ crossed' \in BOOLEAN
  BY <1>1, <1>2, <1>4 DEF WriterType
<1>7. writers' = [v \in Writer |->
        IF v = w THEN Resting ELSE [writers[v] EXCEPT !.crossed = @ \/ writers[v].step # "rest"]]
  BY DEF Puts
<1>8. ASSUME NEW v \in Writer, v # w
       PROVE  /\ writers'[v] \in WriterType /\ writers'[v].step = writers[v].step /\ writers'[v].block = writers[v].block
              /\ writers'[v].seen = writers[v].seen
              /\ writers[v].step # "rest" => writers'[v].crossed
  <2>1. writers'[v] = [writers[v] EXCEPT !.crossed = writers[v].crossed \/ writers[v].step # "rest"]
    BY <1>7, <1>8
  <2>2. PICK c \in BOOLEAN : c = (writers[v].crossed \/ writers[v].step # "rest")
    OBVIOUS
  <2>3. writers'[v] = [writers[v] EXCEPT !.crossed = c]
    BY <2>1, <2>2
  <2>4. writers'[v] \in WriterType /\ writers'[v].step = writers[v].step /\ writers'[v].block = writers[v].block
        /\ writers'[v].seen = writers[v].seen /\ writers'[v].crossed = c
    BY <1>1, <2>3 DEF WriterType
  <2>5. QED
    BY <2>2, <2>4
<1>9. writers'[w] = Resting
  BY <1>7
<1>10. writers' \in [Writer -> WriterType]
  <2>1. \A v \in Writer : writers'[v] \in WriterType
    BY <1>8, <1>9, RestingWrites
  <2>2. QED
    BY <1>7, <2>1
<1>11. PageTypes'
  BY <1>5, <1>6, <1>10 DEF PagesIInv, PageTypes
<1>12. AboveKept'
  BY <1>5 DEF AboveKept, Whole
<1>13. BelowKept' /\ Placed'
  <2> SUFFICES ASSUME ~broken' PROVE BelowKept' /\ Placed'
    BY DEF BelowKept, Placed
  <2>1. page'.there /\ ~broken /\ \A p \in below : IsIn(paged.body, p)
    BY <1>5 DEF Whole
  <2>2. PICK k \in Nat : BlockAt(paged.body, k) /\ paged.body[k + 1].n = n
    BY <1>3, <1>5, <2>1 DEF Whole
  <2>3. ~crossed' => n = newest'
    BY <1>1, <1>2, <1>4
  <2>4. BelowKept'
    BY <1>5, <2>1 DEF BelowKept
  <2>5. Placed'
    BY <1>5, <2>1, <2>2, <2>3 DEF Placed
  <2>6. QED
    BY <2>4, <2>5
<1>14. ASSUME NEW v \in Writer PROVE UnderWay(v)'
  <2>1. CASE v = w
    BY <1>9, <2>1, RestingWrites DEF UnderWay
  <2>2. ASSUME v # w, writers[v].step # "rest" PROVE UnderWay(v)'
    <3>1. PICK m \in Nat, c \in BOOLEAN : IsBlock(writers[v].block, m, c) /\ m <= news
      BY <2>2 DEF PagesIInv, UnderWay
    <3>2. writers'[v].crossed /\ IsBlock(writers'[v].block, m, c)
      BY <1>8, <2>2, <3>1
    <3>3. IsBlock(writers[v].block, m, c)'
      BY <3>2 DEF IsBlock, StartMarker, EndMarker, Piece
    <3>4. QED
      BY <3>1, <3>2, <3>3 DEF UnderWay
  <2>3. QED
    BY <1>8, <2>1, <2>2 DEF UnderWay
<1>15. ASSUME NEW v \in Writer PROVE Ready(v)'
  <2>1. CASE v = w
    BY <1>9, <2>1, RestingWrites DEF Ready
  <2>2. CASE v # w
    <3>1. writers'[v].step = writers[v].step /\ writers'[v].seen = writers[v].seen /\ writers'[v].block = writers[v].block
      BY <1>8, <2>2
    <3>2. Ready(v)
      BY DEF PagesIInv
    <3>3. QED
      BY <3>1, <3>2 DEF Ready, Whole, IsAbove, IsIn, BlockAt, StartMarker, EndMarker, Piece
  <2>3. QED
    BY <2>1, <2>2
<1>16. QED
  BY <1>6, <1>11, <1>12, <1>13, <1>14, <1>15 DEF PagesIInv

LEMMA PutKeeps == ASSUME PagesIInv, NEW w \in Writer, PutPage(w) PROVE PagesIInv'
<1> DEFINE idle == NothingNew(writers[w].seen, writers[w].block)
<1>1. writers[w].step = "put" /\ UNCHANGED <<news, edits, above, below, broken>>
  BY DEF PutPage
<1>2. /\ writers[w] \in WriterType
      /\ Resting \in WriterType /\ Resting.step = "rest"
  BY RestingWrites DEF PagesIInv, PageTypes
<1>3. CASE idle /\ WriterGoes(w, Resting) /\ UNCHANGED <<page, newest, crossed>>
  BY <1>1, <1>2, <1>3, WriterKeeps
<1> DEFINE paged == Paged(writers[w].seen, writers[w].block)
<1>4. CASE page = writers[w].seen /\ Puts(w, paged)
  BY <1>1, <1>4, PagedIsWhole, PutsKeeps
<1>7. CASE page = writers[w].seen /\ WriterGoes(w, [writers[w] EXCEPT !.step = "write", !.seen = paged])
           /\ UNCHANGED <<page, newest, crossed>>
  <2> DEFINE r == [writers[w] EXCEPT !.step = "write", !.seen = paged]
  <2>1. paged \in PageType /\ Whole(paged, writers[w].block)
    BY <1>1, <1>7, PagedIsWhole
  <2>2. WriterGoes(w, r)
    BY <1>7
  <2> HIDE DEF paged
  <2>3. r \in WriterType /\ r.block = writers[w].block /\ r.crossed = writers[w].crossed /\ r.seen = paged
    BY <1>2, <2>1 DEF WriterType
  <2> HIDE DEF r
  <2>4. QED
    BY <1>1, <1>7, <2>1, <2>2, <2>3, SameBlockKeeps
<1>5. ASSUME WriterGoes(w, IF writers[w].tries = RewriteRetries THEN Resting
                           ELSE [writers[w] EXCEPT !.step = "read", !.tries = @ + 1]),
             UNCHANGED <<page, newest, crossed>>
      PROVE  PagesIInv'
  <2>1. CASE writers[w].tries = RewriteRetries
    <3>1. WriterGoes(w, Resting)
      BY <1>5, <2>1
    <3>2. QED
      BY <1>1, <1>2, <1>5, <3>1, WriterKeeps
  <2>2. CASE writers[w].tries # RewriteRetries
    <3>1. writers[w].tries + 1 \in Nat
      BY <1>2 DEF WriterType
    <3>2. PICK tries \in Nat : tries = writers[w].tries + 1
      BY <3>1
    <3> DEFINE r == [writers[w] EXCEPT !.step = "read", !.tries = tries]
    <3>3. WriterGoes(w, r)
      BY <1>5, <2>2, <3>2
    <3>4. r \in WriterType /\ r.block = writers[w].block /\ r.crossed = writers[w].crossed /\ r.step # "write"
      BY <1>2 DEF WriterType
    <3> HIDE DEF r
    <3>5. QED
      BY <1>1, <1>5, <3>3, <3>4, SameBlockKeeps
  <2>3. QED
    BY <2>1, <2>2
<1>6. QED
  BY <1>3, <1>4, <1>5, <1>7 DEF PutPage

(* A local folder's page is written over whatever it has become.                                           *)
LEMMA FileKeeps == ASSUME PagesIInv, NEW w \in Writer, WriteFile(w) PROVE PagesIInv'
<1>1. writers[w].step = "write" /\ Puts(w, writers[w].seen) /\ UNCHANGED <<news, edits, above, below, broken>>
  BY DEF WriteFile
<1>2. writers[w].seen \in PageType /\ Whole(writers[w].seen, writers[w].block)
  BY <1>1 DEF PagesIInv, PageTypes, WriterType, Ready
<1>3. QED
  BY <1>1, <1>2, PutsKeeps

-----------------------------------------------------------------------------
LEMMA OneOf ==
  ASSUME NEW body \in Seq(PieceType), NEW k \in Nat, BlockAt(body, k), NEW is \in {"start", "text", "end"}
  PROVE  Count(body, is) = 1
<1>1. DOMAIN body = 1..Len(body)
  BY LenProperties
<1>2. Len(body) \in Nat
  BY LenProperties
<1>3. /\ k \in 1..Len(body) /\ k + 1 \in 1..Len(body) /\ k + 2 \in 1..Len(body)
      /\ body[k].is = "start" /\ body[k + 1].is = "text" /\ body[k + 2].is = "end"
  BY <1>2, Marks DEF BlockAt
<1>4. ASSUME NEW i \in 1..Len(body), i # k, i # k + 1, i # k + 2 PROVE body[i].is = "prose"
  <2>1. i < k \/ k + 2 < i
    BY <1>2, <1>4
  <2>2. QED
    BY <2>1 DEF BlockAt
<1>5. \E i : {j \in DOMAIN body : body[j].is = is} = {i}
  <2>1. CASE is = "start"
    <3>1. {j \in DOMAIN body : body[j].is = is} = {k}
      BY <1>1, <1>3, <1>4, <2>1
    <3>2. QED
      BY <3>1
  <2>2. CASE is = "text"
    <3>1. {j \in DOMAIN body : body[j].is = is} = {k + 1}
      BY <1>1, <1>3, <1>4, <2>2
    <3>2. QED
      BY <3>1
  <2>3. CASE is = "end"
    <3>1. {j \in DOMAIN body : body[j].is = is} = {k + 2}
      BY <1>1, <1>3, <1>4, <2>3
    <3>2. QED
      BY <3>1
  <2>4. QED
    BY <2>1, <2>2, <2>3
<1>6. QED
  BY <1>5, FS_Singleton DEF Count

LEMMA PagesShow == PagesIInv => PagesInv
<1> SUFFICES ASSUME PagesIInv PROVE PagesInv
  OBVIOUS
<1>1. page.body \in Seq(PieceType)
  BY DEF PagesIInv, PageTypes, PageType
<1>2. DOMAIN page.body = 1..Len(page.body)
  BY <1>1, LenProperties
<1>3. ProseKept
  <2>1. \A p : IsAbove(page.body, p) \/ IsIn(page.body, p) => p \in ToSet(page.body)
    BY <1>2 DEF IsAbove, IsIn, ToSet
  <2>2. QED
    BY <2>1 DEF ProseKept, PagesIInv, AboveKept, BelowKept
<1>4. ASSUME page.there, ~broken
      PROVE  /\ \A is \in {"start", "text", "end"} : Count(page.body, is) = 1
             /\ ~crossed => \E i \in DOMAIN page.body : page.body[i].is = "text" /\ page.body[i].n = newest
  <2>1. PICK k \in Nat : BlockAt(page.body, k) /\ (~crossed => page.body[k + 1].n = newest)
    BY <1>4 DEF PagesIInv, Placed
  <2>2. k + 1 \in DOMAIN page.body /\ page.body[k + 1].is = "text"
    BY <1>1, <1>2, <2>1, LenProperties DEF BlockAt
  <2>3. QED
    BY <1>1, <2>1, <2>2, OneOf
<1>5. QED
  BY <1>3, <1>4 DEF PagesInv, OneBlock, OlderOnlyWhenOvertaken

LEMMA PagesStep == PagesIInv /\ [ChangeLogNext]_changeLogVars => PagesIInv'
BY CalendarKeeps, NewsKeeps, AboveKeeps, BelowKeeps, TakeKeeps, BeginKeeps, ReadKeeps, PutKeeps, FileKeeps
   DEF ChangeLogNext

(* What people wrote above the generated block of a page stays, whatever becomes of the markers, and what  *)
(* they wrote below it while these stand, unless on a local folder a writer had compared the page and not  *)
(* written it yet when they wrote; the page has one block, as new as any it has had unless another writer  *)
(* came in between: for any number of hooks and commands, days, edits and tries (changelog.py, notes.py:   *)
(* rewrite, backends/local.py: write_text).                                                                *)
THEOREM PagesKeepProse == ChangeLogSpec => []PagesInv
<1>1. ChangeLogInit => PagesIInv
  BY PagesBegin
<1>2. PagesIInv /\ [ChangeLogNext]_changeLogVars => PagesIInv'
  BY PagesStep
<1>3. PagesIInv => PagesInv
  BY PagesShow
<1>4. QED
  BY <1>1, <1>2, <1>3, PTL DEF ChangeLogSpec
=============================================================================
