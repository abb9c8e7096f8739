------------------------------ MODULE RateLimiter ------------------------------
(***************************************************************************)
(* The login rate limiter: Limiter of src/pkg/security/security.go, a map  *)
(* of token buckets under one mutex, whose only caller is the handler of   *)
(* POST /api/login, and which a ticker sweeps every minute.                *)
(*                                                                         *)
(* The code's tokens are floats that grow by elapsed seconds times RPS.    *)
(* Here a tick is the time in which 1/Cost of a token is refilled, so that *)
(* a second is RPS * Cost ticks, a token is Cost units and a bucket gains  *)
(* one unit per tick: any resolution of the clock is some Cost, and        *)
(* rounding is left out.  bucket[c].last is read with now, as in the code. *)
(***************************************************************************)
EXTENDS Naturals, Sequences

CONSTANTS
  Clients,  \* client addresses
  RPS,      \* RateLimit of the configuration, validated to be at least 1
  Cost,     \* units of a token
  Ttl,      \* the ttl of Sweep, in ticks
  Horizon   \* bound: how long the clock runs

ASSUME LimiterAssumption == /\ RPS \in Nat \ {0}
                            /\ Cost \in Nat \ {0}
                            /\ Ttl \in Nat
                            /\ Horizon \in Nat

Cap == 2 * RPS * Cost

(* The configuration's RPS is at most 1000 and the ttl 5 minutes, in which *)
(* every bucket fills up.                                                  *)
ASSUME TtlAssumption == Cap <= Ttl

VARIABLES
  now,
  buckets,  \* the clients that have a bucket
  tokens,   \* bucket.tokens
  last,     \* bucket.last
  admitted, \* history: when requests were admitted
  verdict   \* history: what the last request was told

limiterVars == <<buckets, tokens, last>>
vars == <<now, limiterVars, admitted, verdict>>

TypeOK == /\ now \in Nat
          /\ buckets \in SUBSET Clients
          /\ tokens \in [Clients -> 0..Cap]
          /\ last \in [Clients -> Nat] /\ \A c \in Clients : last[c] <= now
          /\ admitted \in [Clients -> Seq(Nat)]
          /\ verdict \in [Clients -> {"none", "admitted", "refused"}]

(* NewLimiter. *)
Init == /\ now = 0
        /\ buckets = {}
        /\ tokens = [c \in Clients |-> 0]
        /\ last = [c \in Clients |-> 0]
        /\ admitted = [c \in Clients |-> <<>>]
        /\ verdict = [c \in Clients |-> "none"]

(* What Allow finds in the bucket once it has added what time refilled.    *)
Refilled(c) == LET t == tokens[c] + (now - last[c])
               IN  IF t > Cap THEN Cap ELSE t

Told(c, v) == /\ verdict' = [verdict EXCEPT ![c] = v]
              /\ admitted' = [admitted EXCEPT ![c] = IF v = "admitted" THEN Append(@, now) ELSE @]
              /\ UNCHANGED now

(* Allow, for a client without a bucket: it gets a full one less a token.  *)
AllowFirst(c) == /\ c \notin buckets
                 /\ buckets' = buckets \cup {c}
                 /\ tokens' = [tokens EXCEPT ![c] = Cap - Cost]
                 /\ last' = [last EXCEPT ![c] = now]
                 /\ Told(c, "admitted")

(* Mutant of Spend: a refusal does not advance last.                       *)
SpendKeepsLast(c) ==
  /\ c \in buckets
  /\ IF Refilled(c) < Cost
       THEN tokens' = [tokens EXCEPT ![c] = Refilled(c)] /\ UNCHANGED last /\ Told(c, "refused")
       ELSE /\ tokens' = [tokens EXCEPT ![c] = Refilled(c) - Cost]
            /\ last' = [last EXCEPT ![c] = now]
            /\ Told(c, "admitted")
  /\ UNCHANGED buckets

(* Allow, for a client that has a bucket: a refusal refills it as well.    *)
Spend(c) == /\ c \in buckets
            /\ last' = [last EXCEPT ![c] = now]
            /\ \/ /\ Refilled(c) < Cost
                  /\ tokens' = [tokens EXCEPT ![c] = Refilled(c)]
                  /\ Told(c, "refused")
               \/ /\ Refilled(c) >= Cost
                  /\ tokens' = [tokens EXCEPT ![c] = Refilled(c) - Cost]
                  /\ Told(c, "admitted")
            /\ UNCHANGED buckets

(* Mutant of Sweep: a ttl too short for a bucket to fill up.               *)
SweepEarly == /\ buckets' = {c \in buckets : last[c] + RPS * Cost >= now}
              /\ buckets' # buckets
              /\ UNCHANGED <<now, tokens, last, admitted, verdict>>

(* Sweep forgets the buckets unused for longer than the ttl.               *)
Sweep == /\ buckets' = {c \in buckets : last[c] + Ttl >= now}
         /\ buckets' # buckets
         /\ UNCHANGED <<now, tokens, last, admitted, verdict>>

Tick  == now < Horizon /\ now' = now + 1 /\ UNCHANGED <<limiterVars, admitted, verdict>>

Next == Tick \/ Sweep \/ \E c \in Clients : AllowFirst(c) \/ Spend(c)
Spec == Init /\ [][Next]_vars

-----------------------------------------------------------------------------
(* Between any two moments a client was admitted no more often than the    *)
(* burst of 2 * RPS and RPS per second allow, although its bucket may have *)
(* been swept and made anew in between (Limiter.Allow, Limiter.Sweep).     *)
BoundedRate == \A c \in Clients : \A i, j \in 1..Len(admitted[c]) :
  i <= j => Cost * (j - i + 1) <= Cap + (admitted[c][j] - admitted[c][i])

(* Buckets are an implementation of the sliding window: what is admitted   *)
(* keeps every interval within the rate, what is refused would have broken *)
(* it (so polling while refused costs nothing), and Sweep never shows.     *)
Window == INSTANCE SlidingWindow
WindowSpec == Window!Spec
================================================================================
