-------------------------------- MODULE Login --------------------------------
(***************************************************************************)
(* Logging in: the handler of POST /api/login (src/cmd/webadmin/main.go)   *)
(* with the FailedLoginTracker of src/pkg/auth/auth.go and the session     *)
(* store.  Every request has its goroutine, and its calls of tracker and   *)
(* store are steps of their own.  The verification in between, an ipc call *)
(* of up to 5 s and possibly a bcrypt comparison, changes no state here    *)
(* and may come out either way; it is part of the step that records it.    *)
(* So may the rate limiter's answer.                                       *)
(*                                                                         *)
(* Time is kept as in Sessions: lock[ip] is lockedUntil - now, -1 once now *)
(* is after it, and idle[ip] is now - lastFail.                            *)
(***************************************************************************)
EXTENDS Sessions

CONSTANTS
  MaxAttempts,  \* FailedLoginTracker.maxAttempts
  Lockout,      \* FailedLoginTracker.lockoutDuration
  Stale         \* the ttl of the tracker's Sweep

ASSUME LoginAssumption == /\ MaxAttempts \in Nat \ {0}
                          /\ Lockout \in Nat \ {0}
                          /\ Stale \in Nat /\ Lockout <= Stale

VARIABLES
  pc,        \* where the handler of each request is
  tracked,   \* the keys of attempts
  count,     \* failedEntry.count
  lock,      \* what is left of failedEntry.lockedUntil
  idle       \* the age of failedEntry.lastFail

trackerVars == <<tracked, count, lock, idle>>
vars        == <<sessionVars, pc, trackerVars>>

IPs   == {ClientIP(a) : a \in Addresses}
IP(r) == ClientIP(AddrOf[r])

Init == /\ SessionsInit
        /\ pc = [r \in Requests |-> "new"]
        /\ tracked = {}
        /\ count = [ip \in IPs |-> 0]
        /\ lock = [ip \in IPs |-> -1]
        /\ idle = [ip \in IPs |-> 0]

-----------------------------------------------------------------------------
(* The rate limiter refuses, or the body turns out not to be JSON.         *)
Limited(r)    == /\ pc[r] = "new"
                 /\ pc' = [pc EXCEPT ![r] = "done"]
                 /\ UNCHANGED <<sessionVars, trackerVars>>
BadRequest(r) == /\ pc[r] = "checked"
                 /\ pc' = [pc EXCEPT ![r] = "done"]
                 /\ UNCHANGED <<sessionVars, trackerVars>>

(* Mutant of IsLocked: resets the counter before it looks at lockedUntil.  *)
IsLockedResets(r) ==
  /\ pc[r] = "new"
  /\ pc' = [pc EXCEPT ![r] = IF lock[IP(r)] > 0 THEN "done" ELSE "checked"]
  /\ count' = [count EXCEPT ![IP(r)] = IF @ >= MaxAttempts THEN 0 ELSE @]
  /\ UNCHANGED <<sessionVars, tracked, lock, idle>>

(* IsLocked: refused while the lock lasts; a lock that is over resets the  *)
(* counter, except at the very instant of its end.                         *)
IsLocked(r) ==
  /\ pc[r] = "new"
  /\ \/ /\ lock[IP(r)] > 0
        /\ pc' = [pc EXCEPT ![r] = "done"]
        /\ UNCHANGED count
     \/ /\ lock[IP(r)] <= 0
        /\ pc' = [pc EXCEPT ![r] = "checked"]
        /\ count' = [count EXCEPT ![IP(r)] =
                       IF @ >= MaxAttempts /\ lock[IP(r)] < 0 THEN 0 ELSE @]
  /\ UNCHANGED <<sessionVars, tracked, lock, idle>>

(* roothelper says no admin, or says no (or nothing) and there is no       *)
(* configured hash for the user or it does not match.                      *)
RecordFailure(r) ==
  LET ip == IP(r)
  IN  /\ pc[r] = "checked"
      /\ pc' = [pc EXCEPT ![r] = "done"]
      /\ tracked' = tracked \cup {ip}
      /\ count' = [count EXCEPT ![ip] = @ + 1]
      /\ idle' = [idle EXCEPT ![ip] = 0]
      /\ lock' = [lock EXCEPT ![ip] = IF count[ip] + 1 >= MaxAttempts THEN Lockout ELSE @]
      /\ UNCHANGED sessionVars

(* Entries of attempts that are deleted count as fresh ones afterwards.    *)
Forget(S) == /\ tracked' = tracked \ S
             /\ count' = [ip \in IPs |-> IF ip \in S THEN 0 ELSE count[ip]]
             /\ lock' = [ip \in IPs |-> IF ip \in S THEN -1 ELSE lock[ip]]
             /\ idle' = [ip \in IPs |-> IF ip \in S THEN 0 ELSE idle[ip]]

(* roothelper says admin, or the configured hash matches.                  *)
RecordSuccess(r) == /\ pc[r] = "checked"
                    /\ pc' = [pc EXCEPT ![r] = "granted"]
                    /\ Forget({IP(r)})
                    /\ UNCHANGED sessionVars

(* CreateWithMetadata; the reply, 204 or 500, ends the handler.            *)
Create(r) == \/ /\ pc[r] = "granted"
                /\ DeleteOld(r) \/ Mint(r)
                /\ UNCHANGED <<pc, trackerVars>>
             \/ /\ pc[r] = "granted"
                /\ MintFails(r) \/ Insert(r)
                /\ pc' = [pc EXCEPT ![r] = "done"]
                /\ UNCHANGED trackerVars

-----------------------------------------------------------------------------
(* Mutant of SweepTracker: sweeps with the limiter's shorter ttl.          *)
SweepTrackerEarly == /\ Forget({ip \in tracked : idle[ip] > 0})
                     /\ UNCHANGED <<sessionVars, pc>>

(* Each sweeper has a goroutine with a ticker.                             *)
SweepTracker  == /\ Forget({ip \in tracked : idle[ip] > Stale})
                 /\ UNCHANGED <<sessionVars, pc>>
SweepSessions == Sweep /\ UNCHANGED <<pc, trackerVars>>

Tick == /\ Age
        /\ lock' = [ip \in IPs |-> IF lock[ip] < 0 THEN lock[ip] ELSE lock[ip] - 1]
        /\ idle' = [ip \in IPs |-> IF ip \in tracked /\ idle[ip] <= Stale THEN idle[ip] + 1
                                   ELSE idle[ip]]
        /\ UNCHANGED <<pc, tracked, count>>

(* Requests of admitted clients, and the store's other users.              *)
Direct(c) == c \notin Requests /\ (CountFirst(c) \/ Mint(c) \/ MintFails(c) \/ Insert(c))
Use(c)    == /\ Direct(c) \/ Admit(c) \/ Delete(c) \/ GetWithRenew(c)
             /\ UNCHANGED <<pc, trackerVars>>
RevokeAll == (\E u \in Users : RevokeAllForUser(u)) /\ UNCHANGED <<pc, trackerVars>>

Arrive(r) == Limited(r) \/ IsLocked(r)
Serve(r)  == BadRequest(r) \/ RecordFailure(r) \/ RecordSuccess(r) \/ Create(r)

Next == \/ \E r \in Requests : Arrive(r) \/ Serve(r)
        \/ \E c \in Calls : Use(c)
        \/ RevokeAll \/ SweepTracker \/ SweepSessions \/ Tick

Spec == Init /\ [][Next]_vars

(* Time goes on, and the tickers of the sweepers with it.                  *)
FairSpec == Spec /\ WF_vars(Tick) /\ WF_vars(SweepTracker) /\ WF_vars(SweepSessions)

-----------------------------------------------------------------------------
TypeOK == /\ SessionsTypeOK
          /\ pc \in [Requests -> {"new", "checked", "granted", "done"}]
          /\ tracked \subseteq IPs
          /\ count \in [IPs -> Nat]
          /\ lock \in [IPs -> (-1)..Lockout]
          /\ idle \in [IPs -> 0..(Stale + 1)]

(* A lock never outlives the counter that set it: parallel requests, lazy  *)
(* resets and sweeps do not leave an address locked with a counter that    *)
(* would let further failures pass without locking it again.               *)
LockCounted == \A ip \in IPs : lock[ip] > 0 => count[ip] >= MaxAttempts

Succeeds(ip) == \E r \in Requests : IP(r) = ip /\ pc[r] = "checked" /\ pc'[r] = "granted"

(* A lockout lasts as long as it was set for: only time, and a login that  *)
(* was under way and succeeds, shorten it.                                 *)
LockoutLasts == [][\A ip \in IPs : lock[ip] > 0 /\ ~Succeeds(ip)
                                     => lock'[ip] >= lock[ip] \/ Tick]_vars

(* Memory is given back: the sweepers catch up with expired sessions and   *)
(* with addresses that failed some time ago.                               *)
Expired == {c \in stored : left[c] < 0}
Swept   == (Expired # {} ~> Expired = {}) /\ (tracked # {} ~> tracked = {})
=============================================================================
