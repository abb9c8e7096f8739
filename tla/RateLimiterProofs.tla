--------------------------- MODULE RateLimiterProofs ---------------------------
(***************************************************************************)
(* Proofs about RateLimiter, for any clients, any rate, any resolution of  *)
(* the clock and any ttl in which a bucket fills up.                       *)
(*                                                                         *)
(* The argument: what a client may spend at once, Avail, is its burst less *)
(* what the tightest interval of its admissions has used of it (Upper and  *)
(* Lower); and a sweep does not change it, for it forgets full buckets.    *)
(***************************************************************************)
EXTENDS RateLimiter, Integers, TLAPS

Avail(c)   == IF c \in buckets THEN Refilled(c) ELSE Cap
(* What the interval since the i-th admission leaves.                      *)
Left(c, i) == Cap - Cost * (Len(admitted[c]) - i + 1) + (now - admitted[c][i])

Upper(c) == \A i \in 1..Len(admitted[c]) : Avail(c) <= Left(c, i)
Lower(c) == Avail(c) = Cap \/ \E i \in 1..Len(admitted[c]) : Avail(c) = Left(c, i)
Kept(c)  == \A i, j \in 1..Len(admitted[c]) :
  i <= j => Cost * (j - i + 1) <= Cap + (admitted[c][j] - admitted[c][i])

Account(c) == Upper(c) /\ Lower(c) /\ Kept(c)
IInv == TypeOK /\ \A c \in Clients : Account(c)

-----------------------------------------------------------------------------
(* The burst is a number of units that pays for a request (NewLimiter).    *)
LEMMA Burst == Cap \in Nat /\ Cost \in Nat /\ Cost > 0 /\ Cost <= Cap /\ Cap <= Ttl /\ Ttl \in Nat
<1>1. RPS \in Nat /\ RPS > 0 /\ Cost \in Nat /\ Cost > 0 /\ Ttl \in Nat
  BY LimiterAssumption
<1>2. RPS * Cost >= Cost
  BY <1>1
<1>3. Cap = RPS * Cost + RPS * Cost
  BY <1>1 DEF Cap
<1> QED BY <1>1, <1>2, <1>3, TtlAssumption

(* What telling a client changes: its verdict, and its log if admitted.    *)
LEMMA ToldType ==
  ASSUME TypeOK, NEW c \in Clients, NEW v \in {"admitted", "refused"}, Told(c, v)
  PROVE  /\ now' = now
         /\ admitted' \in [Clients -> Seq(Nat)]
         /\ verdict' \in [Clients -> {"none", "admitted", "refused"}]
         /\ admitted'[c] = IF v = "admitted" THEN Append(admitted[c], now) ELSE admitted[c]
         /\ \A d \in Clients \ {c} : admitted'[d] = admitted[d]
<1>1. now \in Nat /\ admitted[c] \in Seq(Nat) /\ Append(admitted[c], now) \in Seq(Nat)
  BY DEF TypeOK
<1> QED BY <1>1 DEF TypeOK, Told

(* The variables hold what their Go types allow; a bucket never holds more *)
(* than the burst, and no time of last use lies in the future.             *)
THEOREM Typing == Spec => []TypeOK
<1>1. Init => TypeOK
  BY Burst DEF Init, TypeOK
<1>2. TypeOK /\ [Next]_vars => TypeOK'
  <2> SUFFICES ASSUME TypeOK, [Next]_vars PROVE TypeOK'
    OBVIOUS
  <2>1. CASE Tick
    BY <2>1 DEF TypeOK, Tick, limiterVars
  <2>2. CASE Sweep
    BY <2>2 DEF TypeOK, Sweep
  <2>3. ASSUME NEW c \in Clients, AllowFirst(c) PROVE TypeOK'
    <3>1. Told(c, "admitted") /\ Cap - Cost \in 0..Cap
      BY <2>3, Burst DEF AllowFirst
    <3>2. tokens' \in [Clients -> 0..Cap] /\ last' \in [Clients -> Nat]
      BY <2>3, <3>1 DEF TypeOK, AllowFirst
    <3>3. \A d \in Clients : last'[d] <= now
      BY <2>3 DEF TypeOK, AllowFirst
    <3> QED BY <2>3, <3>1, <3>2, <3>3, ToldType DEF TypeOK, AllowFirst
  <2>4. ASSUME NEW c \in Clients, Spend(c) PROVE TypeOK'
    <3>1. Refilled(c) \in 0..Cap
      BY Burst DEF TypeOK, Refilled
    <3>2. Refilled(c) >= Cost => Refilled(c) - Cost \in 0..Cap
      BY <3>1, Burst
    <3>3. tokens' \in [Clients -> 0..Cap] /\ last' \in [Clients -> Nat]
      BY <2>4, <3>1, <3>2 DEF TypeOK, Spend
    <3>4. \A d \in Clients : last'[d] <= now
      BY <2>4 DEF TypeOK, Spend
    <3>5. Told(c, "admitted") \/ Told(c, "refused")
      BY <2>4 DEF Spend
    <3> QED BY <2>4, <3>3, <3>4, <3>5, ToldType DEF TypeOK, Spend
  <2>5. CASE UNCHANGED vars
    BY <2>5 DEF TypeOK, vars, limiterVars
  <2> QED BY <2>1, <2>2, <2>3, <2>4, <2>5 DEF Next
<1> QED BY <1>1, <1>2, PTL DEF Spec

-----------------------------------------------------------------------------
(* What a client may spend is a number up to the burst.                    *)
LEMMA AvailType == ASSUME TypeOK, NEW c \in Clients PROVE Avail(c) \in 0..Cap
BY Burst DEF TypeOK, Avail, Refilled

(* A client whose bucket and log stay as they are keeps its account.       *)
LEMMA SameKeeps ==
  ASSUME NEW c \in Clients, Account(c), now' = now,
         admitted'[c] = admitted[c], Avail(c)' = Avail(c)
  PROVE  Account(c)'
<1>1. \A i : Left(c, i)' = Left(c, i)
  BY DEF Left
<1> QED BY <1>1 DEF Account, Upper, Lower, Kept

(* Time gives a unit to each client that has not its full burst.           *)
LEMMA TickKeeps ==
  ASSUME TypeOK, NEW c \in Clients, Account(c), now' = now + 1,
         admitted'[c] = admitted[c],
         Avail(c)' = IF Avail(c) = Cap THEN Cap ELSE Avail(c) + 1
  PROVE  Account(c)'
<1>1. Avail(c) \in 0..Cap
  BY AvailType
<1>2. ASSUME NEW i \in 1..Len(admitted[c])
      PROVE  Left(c, i) \in Int /\ Left(c, i)' = Left(c, i) + 1
  <2>1. Len(admitted[c]) \in Nat /\ admitted[c][i] \in Nat /\ now \in Nat
    BY DEF TypeOK
  <2>2. Cost * (Len(admitted[c]) - i + 1) \in Int
    BY <2>1, Burst
  <2> HIDE DEF Cap
  <2> QED BY <2>1, <2>2, Burst DEF Left
<1>3. Upper(c)'
  BY <1>1, <1>2, Burst DEF Account, Upper
<1>4. Lower(c)'
  BY <1>1, <1>2, Burst DEF Account, Lower
<1> QED BY <1>3, <1>4 DEF Account, Kept

(* A request that is admitted is paid for by every interval.               *)
LEMMA AdmitKeeps ==
  ASSUME TypeOK, NEW c \in Clients, Account(c), now' = now,
         admitted'[c] = Append(admitted[c], now),
         Avail(c) >= Cost, Avail(c)' = Avail(c) - Cost
  PROVE  Account(c)'
<1>1. Avail(c) \in 0..Cap
  BY AvailType
<1>0. PICK L \in Nat : L = Len(admitted[c])
  BY DEF TypeOK
<1>2. L = Len(admitted[c]) /\ L \in Nat /\ now \in Nat /\ admitted[c] \in Seq(Nat)
  BY <1>0 DEF TypeOK
<1>3. /\ Len(admitted'[c]) = L + 1
      /\ admitted'[c][L + 1] = now
      /\ \A i \in 1..L : admitted'[c][i] = admitted[c][i] /\ admitted[c][i] \in Nat
  BY <1>2
<1>4. \A k \in Int : Cost * k \in Int /\ Cost * (k + 1) = Cost * k + Cost
  BY Burst
<1> HIDE DEF Cap
<1>5. Left(c, L + 1)' = Cap - Cost
  <2>1. (L + 1) - (L + 1) + 1 = 1 /\ Cost * 1 = Cost
    BY <1>2, Burst
  <2> QED BY <2>1, <1>2, <1>3, Burst DEF Left
<1>6. ASSUME NEW i \in 1..L
      PROVE  /\ Left(c, i) \in Int
             /\ Left(c, i)' = Left(c, i) - Cost
             /\ Cost * (L + 1 - i + 1) <= Cap + (now - admitted[c][i])
  <2>1. L - i + 1 \in Int /\ L + 1 - i + 1 = (L - i + 1) + 1
    BY <1>2
  <2>2. Cost * (L - i + 1) \in Int /\ Cost * (L + 1 - i + 1) = Cost * (L - i + 1) + Cost
    BY <2>1, <1>4
  <2>3. Left(c, i) \in Int /\ Left(c, i)' = Left(c, i) - Cost
    <3>1. Left(c, i) = Cap - Cost * (L - i + 1) + (now - admitted[c][i])
      BY <1>2 DEF Left
    <3>2. Left(c, i)' = Cap - Cost * (L + 1 - i + 1) + (now - admitted[c][i])
      BY <1>3 DEF Left
    <3>3. Cap \in Nat /\ Cost \in Nat /\ now \in Nat /\ admitted[c][i] \in Nat
      BY <1>2, <1>3, Burst
    <3> QED BY <2>2, <3>1, <3>2, <3>3
  <2>4. Avail(c) <= Left(c, i)
    BY <1>2 DEF Account, Upper
  <2>5. Cost * (L - i + 1) + Cost <= Cap + (now - admitted[c][i])
    <3>1. Left(c, i) = Cap - Cost * (L - i + 1) + (now - admitted[c][i])
      BY <1>2 DEF Left
    <3>2. Cap \in Nat /\ Cost \in Nat /\ now \in Nat /\ admitted[c][i] \in Nat
      BY <1>2, <1>3, Burst
    <3> QED BY <2>2, <2>4, <3>1, <3>2, <1>1
  <2> QED BY <2>2, <2>3, <2>5
<1>7. Upper(c)'
  <2> SUFFICES ASSUME NEW i \in 1..(L + 1) PROVE Avail(c)' <= Left(c, i)'
    BY <1>3 DEF Upper
  <2>1. CASE i = L + 1
    BY <2>1, <1>1, <1>5, Burst
  <2>2. CASE i \in 1..L
    <3>1. Avail(c) <= Left(c, i)
      BY <2>2, <1>2 DEF Account, Upper
    <3> QED BY <2>2, <3>1, <1>1, <1>6, Burst
  <2> QED BY <2>1, <2>2, <1>2
<1>8. Lower(c)'
  <2>1. CASE Avail(c) = Cap
    <3>1. Avail(c)' = Left(c, L + 1)' /\ L + 1 \in 1..Len(admitted'[c])
      BY <2>1, <1>2, <1>3, <1>5
    <3> QED BY <3>1 DEF Lower
  <2>2. CASE \E i \in 1..L : Avail(c) = Left(c, i)
    <3>1. PICK i \in 1..L : Avail(c) = Left(c, i)
      BY <2>2
    <3>2. Avail(c)' = Left(c, i)' /\ i \in 1..Len(admitted'[c])
      BY <3>1, <1>2, <1>3, <1>6
    <3> QED BY <3>2 DEF Lower
  <2> QED BY <2>1, <2>2, <1>2 DEF Account, Lower
<1>9. Kept(c)'
  <2> SUFFICES ASSUME NEW i \in 1..(L + 1), NEW j \in 1..(L + 1), i <= j
               PROVE  Cost * (j - i + 1) <= Cap + (admitted'[c][j] - admitted'[c][i])
    BY <1>3 DEF Kept
  <2>1. CASE j = L + 1 /\ i = L + 1
    <3>1. j - i + 1 = 1 /\ Cost * 1 = Cost
      BY <2>1, <1>2, Burst
    <3> QED BY <2>1, <3>1, <1>2, <1>3, Burst
  <2>2. CASE j = L + 1 /\ i \in 1..L
    BY <2>2, <1>3, <1>6
  <2>3. CASE j \in 1..L /\ i \in 1..L
    BY <2>3, <1>2, <1>3 DEF Account, Kept
  <2> QED BY <2>1, <2>2, <2>3, <1>2
<1> QED BY <1>7, <1>8, <1>9 DEF Account

-----------------------------------------------------------------------------
(* The accounts hold before the first request.                             *)
LEMMA Initially == Init => IInv
<1> SUFFICES ASSUME Init PROVE IInv
  OBVIOUS
<1>1. TypeOK
  BY Burst DEF Init, TypeOK
<1>2. ASSUME NEW c \in Clients PROVE Account(c)
  <2>1. Len(admitted[c]) = 0 /\ Avail(c) = Cap
    BY DEF Init, Avail
  <2> QED BY <2>1 DEF Account, Upper, Lower, Kept
<1> QED BY <1>1, <1>2 DEF IInv

(* Each step of the limiter keeps the account of each client.              *)
LEMMA Accounts == ASSUME IInv, [Next]_vars, NEW c \in Clients PROVE Account(c)'
<1>1. TypeOK /\ Account(c)
  BY DEF IInv
<1>2. CASE Tick
  <2>1. now' = now + 1 /\ admitted' = admitted /\ buckets' = buckets
        /\ tokens' = tokens /\ last' = last
    BY <1>2 DEF Tick, limiterVars
  <2>2. Avail(c)' = IF Avail(c) = Cap THEN Cap ELSE Avail(c) + 1
    <3>1. now \in Nat /\ tokens[c] \in 0..Cap /\ last[c] \in Nat /\ last[c] <= now
      BY <1>1 DEF TypeOK
    <3> QED BY <2>1, <3>1, Burst DEF Avail, Refilled
  <2> QED BY <1>1, <2>1, <2>2, TickKeeps
<1>3. CASE Sweep
  <2>1. now' = now /\ admitted' = admitted /\ tokens' = tokens /\ last' = last
        /\ buckets' = {d \in buckets : last[d] + Ttl >= now}
    BY <1>3 DEF Sweep
  <2>2. now \in Nat /\ tokens[c] \in 0..Cap /\ last[c] \in Nat /\ last[c] <= now
    BY <1>1 DEF TypeOK
  <2>3. Refilled(c)' = Refilled(c)
    BY <2>1 DEF Refilled
  <2>4. last[c] + Ttl < now => Refilled(c) = Cap
    BY <2>2, Burst DEF Refilled
  <2>5. c \in buckets' <=> c \in buckets /\ ~(last[c] + Ttl < now)
    BY <2>1, <2>2, Burst
  <2>6. Avail(c)' = Avail(c)
    BY <2>3, <2>4, <2>5 DEF Avail
  <2> QED BY <1>1, <2>1, <2>6, SameKeeps
<1>4. ASSUME NEW d \in Clients, AllowFirst(d) PROVE Account(c)'
  <2>1. Told(d, "admitted")
    BY <1>4 DEF AllowFirst
  <2>2. CASE c = d
    <3>1. now' = now /\ admitted'[c] = Append(admitted[c], now)
      BY <1>1, <2>1, <2>2, ToldType
    <3>2. Avail(c) = Cap /\ Avail(c)' = Cap - Cost
      <4>1. c \notin buckets /\ c \in buckets' /\ tokens'[c] = Cap - Cost /\ last'[c] = now
        BY <1>1, <1>4, <2>2 DEF AllowFirst, TypeOK
      <4>2. now \in Nat
        BY <1>1 DEF TypeOK
      <4> QED BY <3>1, <4>1, <4>2, Burst DEF Avail, Refilled
    <3> QED BY <1>1, <3>1, <3>2, Burst, AdmitKeeps
  <2>3. CASE c # d
    <3>1. now' = now /\ admitted'[c] = admitted[c]
      BY <1>1, <2>1, <2>3, ToldType
    <3>2. (c \in buckets' <=> c \in buckets) /\ tokens'[c] = tokens[c] /\ last'[c] = last[c]
      BY <1>1, <1>4, <2>3 DEF AllowFirst, TypeOK
    <3>3. Avail(c)' = Avail(c)
      BY <3>1, <3>2 DEF Avail, Refilled
    <3> QED BY <1>1, <3>1, <3>3, SameKeeps
  <2> QED BY <2>2, <2>3
<1>5. ASSUME NEW d \in Clients, Spend(d) PROVE Account(c)'
  <2>1. Told(d, "admitted") \/ Told(d, "refused")
    BY <1>5 DEF Spend
  <2>2. now' = now /\ buckets' = buckets
    BY <1>1, <1>5, <2>1, ToldType DEF Spend
  <2>3. CASE c = d
    <3>1. last'[c] = now /\ c \in buckets /\ now \in Nat
      BY <1>1, <1>5, <2>3 DEF Spend, TypeOK
    <3>2. Avail(c) = Refilled(c) /\ Avail(c) \in 0..Cap
      BY <1>1, <3>1, AvailType DEF Avail
    <3>3. ASSUME tokens'[c] \in 0..Cap PROVE Avail(c)' = tokens'[c]
      BY <2>2, <3>1, <3>3, Burst DEF Avail, Refilled
    <3>4. CASE Refilled(c) < Cost /\ tokens' = [tokens EXCEPT ![c] = Refilled(c)] /\ Told(c, "refused")
      <4>1. tokens'[c] = Avail(c)
        BY <1>1, <3>2, <3>4 DEF TypeOK
      <4>2. admitted'[c] = admitted[c]
        BY <1>1, <3>4, ToldType
      <4>3. Avail(c)' = Avail(c)
        BY <3>2, <3>3, <4>1
      <4> QED BY <1>1, <2>2, <4>2, <4>3, SameKeeps
    <3>5. CASE Refilled(c) >= Cost /\ tokens' = [tokens EXCEPT ![c] = Refilled(c) - Cost] /\ Told(c, "admitted")
      <4>1. tokens'[c] = Avail(c) - Cost
        BY <1>1, <3>2, <3>5 DEF TypeOK
      <4>2. admitted'[c] = Append(admitted[c], now)
        BY <1>1, <3>5, ToldType
      <4>3. Avail(c) >= Cost /\ Avail(c)' = Avail(c) - Cost
        BY <3>2, <3>3, <3>5, <4>1, Burst
      <4> QED BY <1>1, <2>2, <4>2, <4>3, AdmitKeeps
    <3> QED BY <1>5, <2>3, <3>4, <3>5 DEF Spend
  <2>4. CASE c # d
    <3>1. admitted'[c] = admitted[c]
      BY <1>1, <2>1, <2>4, ToldType
    <3>2. tokens'[c] = tokens[c] /\ last'[c] = last[c]
      BY <1>1, <1>5, <2>4 DEF Spend, TypeOK
    <3>3. Avail(c)' = Avail(c)
      BY <2>2, <3>2 DEF Avail, Refilled
    <3> QED BY <1>1, <2>2, <3>1, <3>3, SameKeeps
  <2> QED BY <2>3, <2>4
<1>6. CASE UNCHANGED vars
  <2>1. Avail(c)' = Avail(c)
    BY <1>6 DEF Avail, Refilled, vars, limiterVars
  <2> QED BY <1>1, <1>6, <2>1, SameKeeps DEF vars
<1> QED BY <1>2, <1>3, <1>4, <1>5, <1>6 DEF Next

(* The invariant: the variables' types and the clients' accounts.          *)
THEOREM Accounting == Spec => []IInv
<1>1. IInv /\ TypeOK' /\ [Next]_vars => IInv'
  BY Accounts DEF IInv
<1> QED BY <1>1, Initially, Typing, PTL DEF Spec

(* No interval holds more admissions of a client than the burst and the    *)
(* rate allow, however requests, refusals and sweeps are interleaved.      *)
THEOREM Bounded == Spec => []BoundedRate
<1>1. IInv => BoundedRate
  BY DEF IInv, Account, Kept, BoundedRate
<1> QED BY <1>1, Accounting, PTL
-----------------------------------------------------------------------------
(* The sliding window admits a request exactly when the bucket pays for it. *)
LEMMA FitsIff == ASSUME IInv, NEW c \in Clients PROVE Window!Fits(c) <=> Avail(c) >= Cost
<1>1. Avail(c) \in 0..Cap /\ Upper(c) /\ Lower(c)
  BY AvailType DEF IInv, Account
<1>2. PICK L \in Nat : L = Len(admitted[c])
  BY DEF IInv, TypeOK
<1>3. ASSUME NEW i \in 1..L
      PROVE  /\ Left(c, i) \in Int
             /\ Cost * (L - i + 2) <= Cap + (now - admitted[c][i]) <=> Left(c, i) >= Cost
  <2>1. now \in Nat /\ admitted[c][i] \in Nat
    BY <1>2 DEF IInv, TypeOK
  <2>2. Left(c, i) = Cap - Cost * (L - i + 1) + (now - admitted[c][i])
    BY <1>2 DEF Left
  <2>3. Cost * (L - i + 1) \in Int /\ Cost * (L - i + 2) = Cost * (L - i + 1) + Cost
    <3>1. \A k \in Int : Cost * k \in Int /\ Cost * (k + 1) = Cost * k + Cost
      BY Burst
    <3>2. L - i + 1 \in Int /\ L - i + 2 = (L - i + 1) + 1
      BY <1>2
    <3> QED BY <3>1, <3>2
  <2> HIDE DEF Cap
  <2> QED BY <2>1, <2>2, <2>3, Burst
<1>4. Window!Fits(c) <=> \A i \in 1..L : Left(c, i) >= Cost
  BY <1>2, <1>3 DEF Window!Fits
<1>5. ASSUME Avail(c) >= Cost PROVE \A i \in 1..L : Left(c, i) >= Cost
  BY <1>1, <1>2, <1>3, <1>5, Burst DEF Upper
<1>6. ASSUME \A i \in 1..L : Left(c, i) >= Cost PROVE Avail(c) >= Cost
  <2>1. CASE Avail(c) = Cap
    BY <2>1, Burst
  <2>2. CASE \E i \in 1..L : Avail(c) = Left(c, i)
    BY <2>2, <1>6
  <2> QED BY <2>1, <2>2, <1>1, <1>2 DEF Lower
<1> QED BY <1>4, <1>5, <1>6

(* Each step of the limiter is a step of the window, or does not show.     *)
LEMMA Steps ==
  ASSUME IInv, [Next]_vars PROVE [Window!Next]_(Window!vars)
<1>1. CASE Tick
  BY <1>1 DEF Tick, Window!Tick, Window!Next
<1>2. CASE Sweep
  BY <1>2 DEF Sweep, Window!vars
<1>3. ASSUME NEW c \in Clients, AllowFirst(c) PROVE Window!Admit(c)
  <2>1. Avail(c) >= Cost
    BY <1>3, Burst DEF AllowFirst, Avail
  <2>2. Window!Fits(c)
    BY <2>1, FitsIff
  <2> QED BY <1>3, <2>2 DEF AllowFirst, Told, Window!Admit
<1>4. ASSUME NEW c \in Clients, Spend(c) PROVE Window!Admit(c) \/ Window!Refuse(c)
  <2>1. Avail(c) = Refilled(c) /\ Avail(c) \in 0..Cap
    BY <1>4, AvailType DEF Spend, Avail, IInv
  <2>2. CASE Refilled(c) < Cost /\ Told(c, "refused")
    <3>1. ~Window!Fits(c)
      BY <2>1, <2>2, FitsIff, Burst
    <3>2. admitted' = admitted
      BY <2>2 DEF Told, IInv, TypeOK
    <3> QED BY <2>2, <3>1, <3>2 DEF Told, Window!Refuse
  <2>3. CASE Refilled(c) >= Cost /\ Told(c, "admitted")
    <3>1. Window!Fits(c)
      BY <2>1, <2>3, FitsIff
    <3> QED BY <2>3, <3>1 DEF Told, Window!Admit
  <2> QED BY <1>4, <2>2, <2>3 DEF Spend
<1>5. CASE UNCHANGED vars
  BY <1>5 DEF vars, Window!vars
<1> QED BY <1>1, <1>2, <1>3, <1>4, <1>5 DEF Next, Window!Next

(* The buckets implement the sliding window: they refuse what the window   *)
(* refuses and nothing else, and nobody can tell that Sweep forgets some.  *)
THEOREM Implements == Spec => WindowSpec
<1>1. Init => Window!Init
  BY DEF Init, Window!Init
<1> QED BY <1>1, Accounting, Steps, PTL DEF Spec, WindowSpec, Window!Spec
================================================================================
