------------------------------ MODULE Sessions ------------------------------
(***************************************************************************)
(* The session store of src/pkg/auth/auth.go.  A call c creates at most    *)
(* one session, which its SID (32 random bytes) names: c stands for both.  *)
(* The operations are critical sections of Store.mu; a creation is several *)
(* of them.  Time is kept as what is left of it: left[c] is Expires - now  *)
(* in ticks, -1 once now.After(Expires).                                   *)
(*                                                                         *)
(* The module has no next-state relation: Login composes its actions with  *)
(* the requests that take them.                                            *)
(***************************************************************************)
EXTENDS Integers, FiniteSets

CONSTANTS
  Calls,        \* creations of sessions
  Requests,     \* those by login requests; the others use CreateWithLimit
  Users,
  UserOf,       \* the username of each creation
  Addresses,    \* <<host, port>> pairs a request may come from
  AddrOf,       \* the address of each creating request
  NoPort,       \* in an address whose RemoteAddr has no port
  TTL,          \* Store.ttl
  MaxSessions   \* CreateWithLimit's maxSessions, 0 for no limit

ASSUME SessionsAssumption == /\ Requests \subseteq Calls
                             /\ UserOf \in [Calls -> Users]
                             /\ AddrOf \in [Calls -> Addresses]
                             /\ TTL \in Nat
                             /\ MaxSessions \in Nat

VARIABLES
  step,      \* where the creation of each session is
  stored,    \* the keys of Store.sessions
  left,      \* what is left of each session's life
  admitted,  \* an authenticated request has been let through
  earlier    \* history: the user's sessions whose creation had returned
             \* when this creation began

sessionVars == <<step, stored, left, admitted, earlier>>

SessionsInit == /\ step = [c \in Calls |-> "idle"]
                /\ stored = {}
                /\ left = [c \in Calls |-> TTL]
                /\ admitted = FALSE
                /\ earlier = [c \in Calls |-> {}]

OfUser(u)   == {c \in Calls : UserOf[c] = u}
Valid(c)    == c \in stored /\ left[c] >= 0
Returned(u) == {c \in OfUser(u) : step[c] = "returned"}

-----------------------------------------------------------------------------
(* Mutant of DeleteOld: only what Sweep would remove is deleted.           *)
DeleteOldExpired(c) ==
  /\ step[c] = "idle"
  /\ step' = [step EXCEPT ![c] = "cleared"]
  /\ stored' = stored \ {d \in OfUser(UserOf[c]) : left[d] < 0}
  /\ earlier' = [earlier EXCEPT ![c] = Returned(UserOf[c])]
  /\ UNCHANGED <<left, admitted>>

(* CreateWithMetadata, first critical section: delete the user's sessions. *)
DeleteOld(c) ==
  /\ step[c] = "idle"
  /\ step' = [step EXCEPT ![c] = "cleared"]
  /\ stored' = stored \ OfUser(UserOf[c])
  /\ earlier' = [earlier EXCEPT ![c] = Returned(UserOf[c])]
  /\ UNCHANGED <<left, admitted>>

(* CreateWithLimit: CountByUser, which skips expired sessions, then Create. *)
CountFirst(c) ==
  /\ step[c] = "idle"
  /\ LET n == Cardinality({d \in OfUser(UserOf[c]) \cap stored : left[d] > 0})
     IN  step' = [step EXCEPT ![c] = IF MaxSessions > 0 /\ n >= MaxSessions
                                     THEN "refused" ELSE "cleared"]
  /\ UNCHANGED <<stored, left, admitted, earlier>>

(* rand.Read and time.Now, before the lock is taken again.                 *)
Mint(c) == /\ step[c] = "cleared"
           /\ step' = [step EXCEPT ![c] = "minted"]
           /\ left' = [left EXCEPT ![c] = TTL]
           /\ UNCHANGED <<stored, admitted, earlier>>

MintFails(c) == /\ step[c] = "cleared"
                /\ step' = [step EXCEPT ![c] = "refused"]
                /\ UNCHANGED <<stored, left, admitted, earlier>>

(* The second critical section; the call returns the SID.                  *)
Insert(c) == /\ step[c] = "minted"
             /\ step' = [step EXCEPT ![c] = "returned"]
             /\ stored' = stored \cup {c}
             /\ UNCHANGED <<left, admitted, earlier>>

-----------------------------------------------------------------------------
(* security.ClientIP of a peer that is not a proxy on the same host, and   *)
(* the string http.Request.RemoteAddr, which contains the port.            *)
ClientIP(a)   == a[1]
RemoteAddr(a) == IF a[2] = NoPort THEN a[1] ELSE a

(* RequireAuth for a request with c's cookie and user agent from a.  Only  *)
(* CreateWithMetadata binds a session to an address.                       *)
Admits(c, a) == Valid(c) /\ (c \in Requests => ClientIP(AddrOf[c]) = RemoteAddr(a))

(* A request is let through.  Any number of them may be under way then,    *)
(* each with its call of Delete ahead of it.                               *)
Admit(c) == /\ \E a \in Addresses : Admits(c, a)
            /\ admitted' = TRUE
            /\ UNCHANGED <<step, stored, left, earlier>>

(* DELETE /api/logout deletes the request's own session, DELETE            *)
(* /api/sessions/<id> any one, with no second look at the store.           *)
Delete(c) == /\ admitted
             /\ step[c] = "returned"
             /\ stored' = stored \ {c}
             /\ UNCHANGED <<step, left, admitted, earlier>>

RevokeAllForUser(u) == /\ stored' = stored \ OfUser(u)
                       /\ UNCHANGED <<step, left, admitted, earlier>>

(* Mutant of GetWithRenew: writes back without looking the session up.     *)
RenewBlind(c) == /\ step[c] = "returned"
                 /\ stored' = stored \cup {c}
                 /\ left' = [left EXCEPT ![c] = TTL]
                 /\ UNCHANGED <<step, admitted, earlier>>

(* GetWithRenew by a client that has the SID.                              *)
GetWithRenew(c) == /\ step[c] = "returned"
                   /\ \/ /\ Valid(c)
                         /\ left' = [left EXCEPT ![c] = TTL]
                         /\ UNCHANGED stored
                      \/ /\ ~Valid(c)
                         /\ stored' = stored \ {c}
                         /\ UNCHANGED left
                   /\ UNCHANGED <<step, admitted, earlier>>

(* Mutant of Sweep: compares Expires and now the wrong way round.          *)
SweepYoung == /\ stored' = {c \in stored : left[c] < 0}
              /\ UNCHANGED <<step, left, admitted, earlier>>

Sweep == /\ stored' = {c \in stored : left[c] >= 0}
         /\ UNCHANGED <<step, left, admitted, earlier>>

(* Time passes.                                                            *)
Age == /\ left' = [c \in Calls |-> IF left[c] < 0 THEN left[c] ELSE left[c] - 1]
       /\ UNCHANGED <<step, stored, admitted, earlier>>

-----------------------------------------------------------------------------
SessionsTypeOK == /\ step \in [Calls -> {"idle", "cleared", "minted", "returned", "refused"}]
                  /\ stored \subseteq Calls
                  /\ left \in [Calls -> (-1)..TTL]
                  /\ admitted \in BOOLEAN
                  /\ earlier \in [Calls -> SUBSET Calls]

(* Two logins of a user may overlap and leave two sessions.  But one that  *)
(* began after another had returned ends it for good.                      *)
OldReplaced == \A c \in Calls : \A d \in earlier[c] : d \notin stored

(* A session that expired, was deleted, revoked or replaced never admits   *)
(* anybody again, whatever renewals and deletions are under way.           *)
NoRevival == [][\A c \in Calls : step[c] = "returned" /\ ~Valid(c) => ~Valid(c)']_sessionVars

(* auth.go:208, "requests must match": whoever comes from the host that    *)
(* the session was created for is admitted while the session is valid.     *)
OwnerAdmitted == \A c \in Calls, a \in Addresses :
                   Valid(c) /\ ClientIP(a) = ClientIP(AddrOf[c]) => Admits(c, a)
=============================================================================
