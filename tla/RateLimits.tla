----------------------------- MODULE RateLimits -----------------------------
(* The limits on sign-ins, callbacks and device codes: Window, which counts the hits of an address in    *)
(* memory, or with RateCounter in the account store, in slots of a window's length that all servers      *)
(* share.  Time is in ticks; a clock of another server may be ahead of the true one.                     *)
EXTENDS Naturals, FiniteSets

CONSTANTS
  Server, Ahead,    \* Ahead[s] : how many ticks the clock of s is ahead
  Limit, Seconds,   \* hits per window, and its length in ticks
  MaxTime,          \* bound: the true time
  MaxAhead,         \* bound: how far a clock is ahead
  MaxHits           \* bound: requests that ask

ASSUME RateAssumption ==
  /\ IsFiniteSet(Server) /\ MaxAhead \in Nat /\ Ahead \in [Server -> 0..MaxAhead]
  /\ Limit \in Nat \ {0} /\ MaxTime \in Nat /\ Seconds \in 1..MaxTime /\ MaxHits \in Nat

VARIABLES
  sharing,    \* the servers that count in one store; when there are none each counts by itself
  time, asked,
  rows,       \* rate_limit_hits of one scope and address : hits by slot
  hits,       \* each server's times of one address, when it counts by itself
  blocked,    \* each server's memory of when an address is next worth a look
  swept,      \* the slot each server last swept in
  count,      \* the hit a server is at : [step, at, seen]
  allowed     \* the hits counted : [id, at, by]
rateVars == <<sharing, time, asked, rows, hits, blocked, swept, count, allowed>>

Slots == 0..((MaxTime + MaxAhead) \div Seconds)
Resting == [step |-> "rest", at |-> 0, seen |-> FALSE]
Clock(s) == time + Ahead[s]
SlotOf(moment) == moment \div Seconds

RateInit ==
  /\ sharing \in SUBSET Server /\ time = Seconds /\ asked = 0
  /\ rows = [slot \in Slots |-> 0] /\ hits = [s \in Server |-> {}]
  /\ blocked = [s \in Server |-> 0] /\ swept = [s \in Server |-> 0]
  /\ count = [s \in Server |-> Resting] /\ allowed = {}

Passes ==
  /\ time < MaxTime /\ time' = time + 1
  /\ UNCHANGED <<sharing, asked, rows, hits, blocked, swept, count, allowed>>

(* _allow_here: the hits of the last seconds, of this server only.                                       *)
\* Mutant: a hit is forgotten a tick before its window has passed.
RecentTooShort(s) == {hit \in hits[s] : Clock(s) - hit.at < Seconds - 1}

Recent(s) == {hit \in hits[s] : Clock(s) - hit.at < Seconds}

AllowHere(s) ==
  LET recent == Recent(s) IN
  /\ sharing = {} /\ asked < MaxHits /\ asked' = asked + 1
  /\ IF Cardinality(recent) >= Limit THEN hits' = [hits EXCEPT ![s] = recent] /\ UNCHANGED allowed
     ELSE /\ hits' = [hits EXCEPT ![s] = recent \cup {[id |-> asked', at |-> Clock(s)]}]
          /\ allowed' = allowed \cup {[id |-> asked', at |-> Clock(s), by |-> s]}
  /\ UNCHANGED <<sharing, time, rows, blocked, swept, count>>

(* allow: an address that is blocked is not looked up; the first of a new slot forgets the slots before  *)
(* the last one.                                                                                         *)
Allow(s) ==
  LET slot == SlotOf(Clock(s)) IN
  /\ s \in sharing /\ asked < MaxHits /\ asked' = asked + 1 /\ count[s].step = "rest"
  /\ IF blocked[s] > Clock(s) THEN UNCHANGED <<rows, swept, count>>
     ELSE /\ rows' = IF slot = swept[s] THEN rows ELSE [n \in Slots |-> IF n < slot - 1 THEN 0 ELSE rows[n]]
          /\ swept' = [swept EXCEPT ![s] = slot]
          /\ count' = [count EXCEPT ![s] = [step |-> "select", at |-> Clock(s), seen |-> FALSE]]
  /\ UNCHANGED <<sharing, time, hits, blocked, allowed>>

(* hit weighs the last slot by what of it is still in the window; reading and counting are two           *)
(* statements, with another server's between them.                                                       *)
Full(moment) ==
  LET slot == SlotOf(moment) IN
  rows[slot - 1] * (Seconds - (moment - slot * Seconds)) + rows[slot] * Seconds >= Limit * Seconds

Select(s) ==
  /\ count[s].step = "select"
  /\ count' = [count EXCEPT ![s] = [step |-> "answer", at |-> @.at, seen |-> Full(@.at)]]
  /\ UNCHANGED <<sharing, time, asked, rows, hits, blocked, swept, allowed>>

(* A refused address is remembered until its slot ends, if there is room for one more.                   *)
Answer(s) ==
  LET slot == SlotOf(count[s].at) IN
  /\ count[s].step = "answer" /\ count' = [count EXCEPT ![s] = Resting]
  /\ \/ /\ ~count[s].seen /\ rows' = [rows EXCEPT ![slot] = @ + 1] /\ UNCHANGED <<asked, blocked>>
        /\ allowed' = allowed \cup {[id |-> Cardinality(allowed) + 1, at |-> count[s].at, by |-> s]}
     \/ /\ count[s].seen /\ UNCHANGED <<asked, rows, allowed>>
        /\ \E room \in BOOLEAN : blocked' = IF room THEN [blocked EXCEPT ![s] = (slot + 1) * Seconds] ELSE blocked
  /\ UNCHANGED <<sharing, time, hits, swept>>

RateNext == Passes \/ \E s \in Server : AllowHere(s) \/ Allow(s) \/ Select(s) \/ Answer(s)

RateSpec == RateInit /\ [][RateNext]_rateVars

-----------------------------------------------------------------------------
RateTypeOK ==
  /\ time \in 0..MaxTime /\ asked \in 0..MaxHits /\ rows \in [Slots -> 0..MaxHits]
  /\ \A s \in Server : count[s].step \in {"rest", "select", "answer"} /\ count[s].seen \in BOOLEAN

Within(from, till) == {hit \in allowed : hit.at \in from..till}

(* A server that counts by itself lets no more than the limit through in any time of a window's length. *)
OwnLimit ==
  sharing = {} => \A s \in Server, from \in 0..MaxTime :
    Cardinality({hit \in Within(from, from + Seconds - 1) : hit.by = s}) <= Limit

(* Counted in slots, no slot's row goes beyond the limit, but for one hit of each other server that read it
   before.  While no clock is a window behind, a slot takes no more than that, and one more hit of each other
   server that was on its way when the row was forgotten. *)
Others == Cardinality(sharing) - 1
HitsIn(slot) == {hit \in allowed : SlotOf(hit.at) = slot}
SlotLimit == sharing # {} => \A slot \in Slots :
  /\ rows[slot] <= Limit + Others
  /\ MaxAhead <= Seconds => Cardinality(HitsIn(slot)) <= Limit + 2 * Others

(* No burst of a few ticks takes much more than it where the clocks agree: the slot before still counts, by
   what of it is in the window.  Each other server may have read the counts before, of either slot, and once
   more before they are forgotten. *)
ClocksAgree == \A s, t \in sharing : Ahead[s] = Ahead[t]
BurstLimit ==
  sharing # {} /\ ClocksAgree => \A from \in 0..MaxTime, length \in 0..(Seconds - 1) :
    Seconds * Cardinality(Within(from, from + length))
      < Seconds * Limit + (Limit + Others) * length + Seconds + 2 * Seconds * Others

(* "counts its rate limits per client address": the limits hold, on one server or on several. *)
RatesInv == RateTypeOK /\ OwnLimit /\ SlotLimit /\ BurstLimit
=============================================================================
