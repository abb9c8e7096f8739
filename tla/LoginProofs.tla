----------------------------- MODULE LoginProofs -----------------------------
(***************************************************************************)
(* Proofs about Login for every set of requests, addresses and users and   *)
(* every ttl, provided the tracker's sweeper is no faster than a lockout.  *)
(***************************************************************************)
EXTENDS Login, TLAPS

(* The lock was set with the last failure at the latest: it is over when   *)
(* the entry becomes stale.                                                *)
LockAge == \A ip \in IPs : lock[ip] > 0 => lock[ip] + idle[ip] <= Lockout

LockInv == TypeOK /\ LockCounted /\ LockAge

(* A session that a later login replaces has been created: it will not be  *)
(* inserted again.                                                         *)
EarlierReturned == \A c \in Calls : \A d \in earlier[c] : step[d] = "returned"

ReplaceInv == TypeOK /\ OldReplaced /\ EarlierReturned
-----------------------------------------------------------------------------
(* What the proofs use of the assumptions about the constants.             *)
LEMMA Wiring == /\ UserOf \in [Calls -> Users]
                /\ TTL \in Nat
                /\ Requests \subseteq Calls
                /\ MaxAttempts \in Nat \ {0} /\ Lockout \in Nat \ {0} /\ Stale \in Nat
                /\ Lockout <= Stale
  BY SessionsAssumption, LoginAssumption

(* The tracker is keyed by addresses requests come from.                   *)
LEMMA Addressed == \A r \in Requests : IP(r) \in IPs
  BY SessionsAssumption, LoginAssumption DEF IP, IPs

(* The steps of the store keep the types of its variables.                 *)
LEMMA StoreType ==
  ASSUME SessionsTypeOK,
         NEW c \in Calls,
         DeleteOld(c) \/ CountFirst(c) \/ Mint(c) \/ MintFails(c) \/ Insert(c)
           \/ Admit(c) \/ Delete(c) \/ GetWithRenew(c)
  PROVE  SessionsTypeOK'
<1> USE Wiring DEF SessionsTypeOK
<1>1. CASE DeleteOld(c)
  BY <1>1 DEF DeleteOld, Returned, OfUser
<1>2. CASE CountFirst(c)
  <2>1. step' = [step EXCEPT ![c] = "refused"] \/ step' = [step EXCEPT ![c] = "cleared"]
    BY <1>2 DEF CountFirst
  <2> QED
    BY <1>2, <2>1 DEF CountFirst
<1>3. CASE Mint(c)
  BY <1>3 DEF Mint
<1>4. CASE MintFails(c)
  BY <1>4 DEF MintFails
<1>5. CASE Insert(c)
  BY <1>5 DEF Insert
<1>6. CASE Admit(c)
  BY <1>6 DEF Admit
<1>7. CASE Delete(c)
  BY <1>7 DEF Delete
<1>8. CASE GetWithRenew(c)
  BY <1>8 DEF GetWithRenew
<1> QED
  BY <1>1, <1>2, <1>3, <1>4, <1>5, <1>6, <1>7, <1>8

(* Typing holds initially.                                                 *)
LEMMA InitType == Init => TypeOK
<1> SUFFICES ASSUME Init PROVE TypeOK
  OBVIOUS
<1>1. TTL \in (-1)..TTL /\ -1 \in (-1)..Lockout /\ 0 \in 0..(Stale + 1) /\ 0 \in Nat
  BY Wiring
<1>2. SessionsTypeOK
  BY <1>1 DEF Init, SessionsInit, SessionsTypeOK
<1>3. lock \in [IPs -> (-1)..Lockout] /\ idle \in [IPs -> 0..(Stale + 1)] /\ count \in [IPs -> Nat]
  BY <1>1 DEF Init
<1> QED
  BY <1>2, <1>3 DEF Init, TypeOK

(* Every variable keeps the values the code can give it.                   *)
THEOREM Typing == Spec => []TypeOK
<1>1. Init => TypeOK
  BY InitType
<1>2. TypeOK /\ [Next]_vars => TypeOK'
  <2> SUFFICES ASSUME TypeOK, [Next]_vars
               PROVE  TypeOK'
    OBVIOUS
  <2> USE Wiring, Addressed
  <2>1. ASSUME NEW r \in Requests, Limited(r) \/ BadRequest(r) PROVE TypeOK'
    BY <2>1 DEF Limited, BadRequest, TypeOK, SessionsTypeOK, sessionVars, trackerVars
  <2>2. ASSUME NEW r \in Requests, IsLocked(r) PROVE TypeOK'
    <3>1. pc' \in [Requests -> {"new", "checked", "granted", "done"}]
      BY <2>2 DEF IsLocked, TypeOK
    <3>2. count' \in [IPs -> Nat]
      BY <2>2 DEF IsLocked, TypeOK
    <3> QED
      BY <2>2, <3>1, <3>2 DEF IsLocked, TypeOK, SessionsTypeOK, sessionVars
  <2>3. ASSUME NEW r \in Requests, RecordFailure(r) PROVE TypeOK'
    BY <2>3 DEF RecordFailure, TypeOK, SessionsTypeOK, sessionVars
  <2>4. ASSUME NEW r \in Requests, RecordSuccess(r) PROVE TypeOK'
    BY <2>4 DEF RecordSuccess, Forget, TypeOK, SessionsTypeOK, sessionVars
  <2>5. ASSUME NEW r \in Requests, Create(r) PROVE TypeOK'
    <3>1. SessionsTypeOK'
      BY <2>5, StoreType DEF Create, TypeOK
    <3> QED
      BY <2>5, <3>1 DEF Create, TypeOK, trackerVars
  <2>6. ASSUME NEW c \in Calls, Use(c) PROVE TypeOK'
    <3>1. SessionsTypeOK'
      BY <2>6, StoreType DEF Use, Direct, TypeOK
    <3> QED
      BY <2>6, <3>1 DEF Use, TypeOK, trackerVars
  <2>7. CASE RevokeAll
    BY <2>7 DEF RevokeAll, RevokeAllForUser, TypeOK, SessionsTypeOK, trackerVars
  <2>8. CASE SweepTracker
    BY <2>8 DEF SweepTracker, Forget, TypeOK, SessionsTypeOK, sessionVars
  <2>9. CASE SweepSessions
    BY <2>9 DEF SweepSessions, Sweep, TypeOK, SessionsTypeOK, trackerVars
  <2>10. CASE Tick
    <3>1. left' \in [Calls -> (-1)..TTL]
      BY <2>10 DEF Tick, Age, TypeOK, SessionsTypeOK
    <3>2. lock' \in [IPs -> (-1)..Lockout] /\ idle' \in [IPs -> 0..(Stale + 1)]
      BY <2>10 DEF Tick, TypeOK
    <3> QED
      BY <2>10, <3>1, <3>2 DEF Tick, Age, TypeOK, SessionsTypeOK
  <2>11. CASE UNCHANGED vars
    BY <2>11 DEF vars, sessionVars, trackerVars, TypeOK, SessionsTypeOK
  <2> QED
    BY <2>1, <2>2, <2>3, <2>4, <2>5, <2>6, <2>7, <2>8, <2>9, <2>10, <2>11 DEF Next, Arrive, Serve
<1> QED
  BY <1>1, <1>2, PTL DEF Spec

-----------------------------------------------------------------------------
(* Lock and counter: LockInv holds initially, and every step keeps it.     *)
LEMMA LockInvInit == Init => LockInv
  BY InitType, Wiring DEF Init, LockInv, LockCounted, LockAge

(* The lock is set together with the counter and the time of the failure,  *)
(* the counter is reset when the lock is over.                             *)
LEMMA LockInvStep == LockInv /\ [Next]_vars /\ TypeOK' => LockInv'
<1> SUFFICES ASSUME LockInv, [Next]_vars, TypeOK'
             PROVE  LockCounted' /\ LockAge'
  BY DEF LockInv
<1>t. /\ count \in [IPs -> Nat] /\ lock \in [IPs -> (-1)..Lockout]
      /\ idle \in [IPs -> 0..(Stale + 1)] /\ LockCounted /\ LockAge
  BY DEF LockInv, TypeOK
<1> USE Wiring, Addressed DEF LockCounted, LockAge
<1>1. ASSUME UNCHANGED <<count, lock, idle>> PROVE LockCounted' /\ LockAge'
  BY <1>t, <1>1
<1>2. ASSUME NEW r \in Requests, IsLocked(r) PROVE LockCounted' /\ LockAge'
  BY <1>t, <1>2 DEF IsLocked
<1>3. ASSUME NEW r \in Requests, RecordFailure(r) PROVE LockCounted' /\ LockAge'
  BY <1>t, <1>3 DEF RecordFailure
<1>4. ASSUME NEW S, Forget(S) PROVE LockCounted' /\ LockAge'
  BY <1>t, <1>4 DEF Forget
<1>5. CASE Tick
  BY <1>t, <1>5 DEF Tick
<1> QED
  BY <1>1, <1>2, <1>3, <1>4, <1>5
  DEF Next, Arrive, Serve, Limited, BadRequest, RecordSuccess, Create, Use, RevokeAll,
      SweepTracker, SweepSessions, trackerVars, vars

(* Every reachable state satisfies it.                                     *)
THEOREM LockInductive == Spec => []LockInv
  BY LockInvInit, LockInvStep, Typing, PTL DEF Spec

(* RecordFailure, IsLocked and Sweep keep lock and counter together.       *)
THEOREM LockConsistent == Spec => []LockCounted
<1>1. LockInv => LockCounted
  BY DEF LockInv
<1> QED
  BY <1>1, LockInductive, PTL

(* Only time and a success shorten a lockout: the sweeper finds no locked  *)
(* address stale.                                                          *)
THEOREM LockKept == Spec => LockoutLasts
<1>1. LockInv /\ [Next]_vars
        => [\A ip \in IPs : lock[ip] > 0 /\ ~Succeeds(ip) => lock'[ip] >= lock[ip] \/ Tick]_vars
  <2> SUFFICES ASSUME LockInv, Next, ~Tick, NEW ip \in IPs, lock[ip] > 0, ~Succeeds(ip)
               PROVE  lock'[ip] >= lock[ip]
    OBVIOUS
  <2>t. /\ count \in [IPs -> Nat] /\ lock \in [IPs -> (-1)..Lockout]
        /\ idle \in [IPs -> 0..(Stale + 1)] /\ LockAge
        /\ pc \in [Requests -> {"new", "checked", "granted", "done"}]
    BY DEF LockInv, TypeOK
  <2> USE Wiring, Addressed
  <2>1. ASSUME lock' = lock PROVE lock'[ip] >= lock[ip]
    BY <2>t, <2>1
  <2>2. ASSUME NEW r \in Requests, RecordFailure(r) PROVE lock'[ip] >= lock[ip]
    BY <2>t, <2>2 DEF RecordFailure
  <2>3. ASSUME NEW r \in Requests, RecordSuccess(r) PROVE lock'[ip] >= lock[ip]
    <3>1. IP(r) # ip
      BY <2>t, <2>3 DEF RecordSuccess, Succeeds
    <3> QED
      BY <2>t, <2>3, <3>1 DEF RecordSuccess, Forget
  <2>4. CASE SweepTracker
    <3>1. ~(idle[ip] > Stale)
      BY <2>t DEF LockAge
    <3> QED
      BY <2>t, <2>4, <3>1 DEF SweepTracker, Forget
  <2> QED
    BY <2>1, <2>2, <2>3, <2>4
    DEF Next, Arrive, Serve, Limited, BadRequest, IsLocked, Create, Use, RevokeAll,
        SweepSessions, trackerVars
<1> QED
  BY <1>1, LockInductive, PTL DEF Spec, LockoutLasts

-----------------------------------------------------------------------------
(* Every step, as far as the store is concerned.                           *)
LEMMA StoreStep ==
  ASSUME [Next]_vars
  PROVE  \/ \E c \in Calls : \/ DeleteOld(c) \/ CountFirst(c) \/ Mint(c) \/ MintFails(c)
                             \/ Insert(c) \/ Admit(c) \/ Delete(c) \/ GetWithRenew(c)
         \/ \E u \in Users : RevokeAllForUser(u)
         \/ Sweep \/ Age \/ UNCHANGED sessionVars
<1>1. ASSUME NEW r \in Requests, Create(r)
      PROVE  r \in Calls /\ (DeleteOld(r) \/ Mint(r) \/ MintFails(r) \/ Insert(r))
  BY <1>1, Wiring DEF Create
<1>2. ASSUME NEW c \in Calls, Use(c)
      PROVE  \/ CountFirst(c) \/ Mint(c) \/ MintFails(c) \/ Insert(c)
             \/ Admit(c) \/ Delete(c) \/ GetWithRenew(c)
  BY <1>2 DEF Use, Direct
<1>3. ASSUME NEW r \in Requests, Arrive(r) \/ BadRequest(r) \/ RecordFailure(r) \/ RecordSuccess(r)
      PROVE  UNCHANGED sessionVars
  BY <1>3 DEF Arrive, Limited, IsLocked, BadRequest, RecordFailure, RecordSuccess
<1>4. RevokeAll => \E u \in Users : RevokeAllForUser(u)
  BY DEF RevokeAll
<1>5. (SweepTracker => UNCHANGED sessionVars) /\ (SweepSessions => Sweep) /\ (Tick => Age)
  BY DEF SweepTracker, SweepSessions, Tick
<1>6. UNCHANGED vars => UNCHANGED sessionVars
  BY DEF vars
<1> QED
  BY <1>1, <1>2, <1>3, <1>4, <1>5, <1>6 DEF Next, Serve

(* Nothing but Insert adds a key, and never that of a returned creation.   *)
LEMMA ReplaceStep == ReplaceInv /\ [Next]_vars /\ TypeOK' => ReplaceInv'
<1> SUFFICES ASSUME ReplaceInv, [Next]_vars, TypeOK'
             PROVE  OldReplaced' /\ EarlierReturned'
  BY DEF ReplaceInv
<1>t. /\ step \in [Calls -> {"idle", "cleared", "minted", "returned", "refused"}]
      /\ earlier \in [Calls -> SUBSET Calls]
      /\ OldReplaced /\ EarlierReturned
  BY DEF ReplaceInv, TypeOK, SessionsTypeOK
<1> USE DEF OldReplaced, EarlierReturned
<1>1. ASSUME NEW c \in Calls, DeleteOld(c) PROVE OldReplaced' /\ EarlierReturned'
  <2>1. earlier' = [earlier EXCEPT ![c] = Returned(UserOf[c])] /\ step[c] = "idle"
        /\ stored' = stored \ OfUser(UserOf[c]) /\ step' = [step EXCEPT ![c] = "cleared"]
    BY <1>1 DEF DeleteOld
  <2>2. \A d \in Returned(UserOf[c]) : d \in OfUser(UserOf[c]) /\ d \in Calls /\ step[d] = "returned"
    BY DEF Returned, OfUser
  <2> HIDE DEF OldReplaced, EarlierReturned
  <2>3. OldReplaced'
    BY <1>t, <2>1, <2>2 DEF OldReplaced
  <2>4. EarlierReturned'
    BY <1>t, <2>1, <2>2 DEF EarlierReturned
  <2> QED
    BY <2>3, <2>4
<1>2. ASSUME NEW c \in Calls, CountFirst(c) \/ Mint(c) \/ MintFails(c) PROVE OldReplaced' /\ EarlierReturned'
  <2>1. /\ step[c] # "returned" /\ \A d \in Calls \ {c} : step'[d] = step[d]
        /\ UNCHANGED <<stored, earlier>>
    BY <1>t, <1>2 DEF CountFirst, Mint, MintFails
  <2> QED
    BY <1>t, <2>1
<1>3. ASSUME NEW c \in Calls, Insert(c) PROVE OldReplaced' /\ EarlierReturned'
  BY <1>t, <1>3 DEF Insert
<1>4. ASSUME NEW c \in Calls, Admit(c) \/ Delete(c) \/ GetWithRenew(c) PROVE OldReplaced' /\ EarlierReturned'
  <2>1. stored' \subseteq stored /\ UNCHANGED <<step, earlier>>
    BY <1>4 DEF Admit, Delete, GetWithRenew
  <2> QED
    BY <1>t, <2>1
<1>5. ASSUME NEW u \in Users, RevokeAllForUser(u) PROVE OldReplaced' /\ EarlierReturned'
  BY <1>t, <1>5 DEF RevokeAllForUser
<1>6. CASE Sweep \/ Age \/ UNCHANGED sessionVars
  BY <1>t, <1>6 DEF Sweep, Age, sessionVars
<1> QED
  BY StoreStep, <1>1, <1>2, <1>3, <1>4, <1>5, <1>6

(* CreateWithMetadata ends every session of the user whose creation had    *)
(* returned, for good.                                                     *)
THEOREM Replaced == Spec => []OldReplaced
<1>1. Init => ReplaceInv
  BY InitType DEF Init, SessionsInit, ReplaceInv, OldReplaced, EarlierReturned
<1>2. ReplaceInv => OldReplaced
  BY DEF ReplaceInv
<1> QED
  BY <1>1, <1>2, ReplaceStep, Typing, PTL DEF Spec

(* A session that has expired or left the store does not come back: only   *)
(* its creation inserts it, and GetWithRenew extends valid ones only.      *)
THEOREM Ended == Spec => NoRevival
<1>1. TypeOK /\ [Next]_vars
        => [\A c \in Calls : step[c] = "returned" /\ ~Valid(c) => ~Valid(c)']_sessionVars
  <2> SUFFICES ASSUME TypeOK, [Next]_vars, NEW c \in Calls, step[c] = "returned", ~Valid(c)
               PROVE  ~Valid(c)'
    OBVIOUS
  <2>t. /\ step \in [Calls -> {"idle", "cleared", "minted", "returned", "refused"}]
        /\ left \in [Calls -> (-1)..TTL]
    BY DEF TypeOK, SessionsTypeOK
  <2> USE Wiring DEF Valid
  <2>1. ASSUME NEW d \in Calls, Mint(d) \/ Insert(d) PROVE ~Valid(c)'
    BY <2>t, <2>1 DEF Mint, Insert
  <2>2. ASSUME NEW d \in Calls, DeleteOld(d) \/ CountFirst(d) \/ MintFails(d) \/ Admit(d) \/ Delete(d)
        PROVE  ~Valid(c)'
    BY <2>2 DEF DeleteOld, CountFirst, MintFails, Admit, Delete
  <2>3. ASSUME NEW d \in Calls, GetWithRenew(d) PROVE ~Valid(c)'
    BY <2>t, <2>3 DEF GetWithRenew
  <2>4. ASSUME NEW u \in Users, RevokeAllForUser(u) PROVE ~Valid(c)'
    BY <2>4 DEF RevokeAllForUser
  <2>5. CASE Age
    BY <2>t, <2>5 DEF Age
  <2>6. CASE Sweep \/ UNCHANGED sessionVars
    BY <2>6 DEF Sweep, sessionVars
  <2> QED
    BY StoreStep, <2>1, <2>2, <2>3, <2>4, <2>5, <2>6
<1> QED
  BY <1>1, Typing, PTL DEF Spec, NoRevival
=============================================================================
