---------------------------- MODULE ForwardingProofs ----------------------------
(***************************************************************************)
(* Proofs about Forwarding, for any number of requests, any routes they    *)
(* take together, any grants of allowed_helpers, texts and crashes.  Of    *)
(* the tables they use RecipesAssumption, which TLC evaluates as a whole.  *)
(*                                                                         *)
(* The argument: a part that a call has changed holds what this call left  *)
(* there until a rival changes it, and a rival of a call that has ended    *)
(* stays one.                                                              *)
(***************************************************************************)
EXTENDS Forwarding, TLAPS

(* The handler has carried out the whole recipe, or is about to.           *)
Done(c)    == help[c] = "replied" /\ reply[c] \in {"ok", "large"}
Sound(c)   == help[c] = "running" \/ Done(c)
Filling(c) == InStep(c) /\ Now(c).do = "fill"

(* How the two handlers of a call stand to each other.                     *)
Stage(c) ==
  /\ route[c] = None => web[c] = "idle"
  /\ web[c] \in {"idle", "rejected"} => help[c] = "none"
  /\ web[c] \in {"ok", "error", "refused"} => help[c] = "replied" /\ reply[c] = web[c]
  /\ web[c] = "waiting" => help[c] # "none"
  /\ help[c] \in {"none", "queued"} => at[c] = 0
  /\ help[c] \in {"running", "orphan"} => at[c] > 0
  /\ help[c] = "replied" <=> reply[c] # "none"
  /\ help[c] = "replied" => (at[c] = 0 <=> reply[c] = "refused")
  /\ help[c] = "orphan" => at[c] \in DOMAIN Steps(c) /\ Now(c).do = "run"
  /\ Done(c) => at[c] \notin DOMAIN Steps(c)
  /\ at[c] = 0 => touched[c] = {} /\ saw[c] = {}
Stages == \A c \in Calls : Stage(c)

(* What had ended when a call began has ended.                             *)
Ended == \A c \in Calls : \A d \in before[c] : help[d] \in {"replied", "gone"}

(* Every promised change that the call has come past has been made.        *)
Progress == \A c \in Calls : Sound(c) =>
  /\ \A i \in DOMAIN Steps(c) :
       (i < at[c] /\ Promising(Steps(c)[i])) => Steps(c)[i].on \in touched[c]
  /\ Filling(c) => Now(c).on \in touched[c]

(* What a call has changed stays, but for a rival's change.                *)
Kept == \A c \in Calls : Sound(c) => \A p \in touched[c] :
  \/ host[p] = c \/ Rival(c, p)
  \/ Filling(c) /\ Now(c).on = p /\ host[p] = "empty"

(* So it is read.                                                          *)
ReadKept == \A c, d \in Calls : (d \in before[c] /\ Done(d)) =>
  \A r \in saw[c] : r[1] \in touched[d] => r[2] = d \/ Rival(d, r[1])

IInv == TypeOK /\ Stages /\ Ended /\ Progress /\ Kept /\ ReadKept
-----------------------------------------------------------------------------
(* What the proofs know of the requests and of the tables.                 *)
LEMMA Names == /\ \A m \in Menus, c \in Calls : m[c] # None => m[c] \in DOMAIN Routes
               /\ Calls \subseteq Contents /\ "torn" \in Contents /\ "empty" \in Contents
               /\ "empty" \notin Calls /\ MaxCrashes \in Nat
BY ForwardingAssumption DEF Contents

(* The recipe of a call is a sequence in the form RecipesAssumption        *)
(* states.                                                                 *)
LEMMA Table ==
  ASSUME TypeOK, NEW c \in Calls, route[c] # None
  PROVE  /\ DOMAIN Steps(c) = 1..Len(Steps(c)) /\ Len(Steps(c)) \in Nat
         /\ WellFormed(Steps(c))
<1>1. route[c] \in DOMAIN Routes
  BY Names DEF TypeOK
<1> QED BY <1>1, RecipesAssumption DEF Steps

(* The parts that a call changes.                                          *)
Own(c) == {s.on : s \in Changes(route[c])}
(* What a step changes is one of them.                                     *)
LEMMA Owned ==
  ASSUME TypeOK, NEW c \in Calls, route[c] # None, NEW i \in DOMAIN Steps(c), Changing(Steps(c)[i])
  PROVE  Steps(c)[i].on \in Own(c) /\ Steps(c)[i].on \in Parts
<1>1. Steps(c)[i] \in Changes(route[c])
  BY DEF Steps, Changes
<1>2. route[c] \in Used
  BY Names DEF TypeOK, Used
<1> QED BY <1>1, <1>2 DEF Own, Parts

(* Who is served has a route.                                              *)
LEMMA Routed ==
  ASSUME TypeOK, Stages, NEW c \in Calls, web[c] # "idle" \/ help[c] # "none"
  PROVE  route[c] # None
BY DEF TypeOK, Stages, Stage

-----------------------------------------------------------------------------
(* The variables keep their types.                                         *)
LEMMA TypeStep == ASSUME TypeOK, Stages, [Next]_vars PROVE TypeOK'
<1>1. CASE Tick
  <2>1. \A t \in Nat : \A n : Older(t, n) \in Nat
    BY DEF Older
  <2>2. age' \in [Calls -> Nat] /\ spent' \in [Calls -> Nat]
    BY <1>1, <2>1 DEF Tick, TypeOK
  <2> QED BY <1>1, <2>2 DEF Tick, TypeOK
<1>2. CASE Crash
  <2>1. help' \in [Calls -> {"none", "queued", "running", "replied", "orphan", "gone"}]
    BY <1>2 DEF Crash, TypeOK
  <2>2. crashes' \in 0..MaxCrashes
    BY <1>2, Names DEF Crash, TypeOK
  <2> QED BY <1>2, <2>1, <2>2 DEF Crash, TypeOK
<1>3. CASE UNCHANGED vars
  BY <1>3 DEF vars, helpVars, TypeOK
<1>4. ASSUME NEW c \in Calls, Arrive(c) PROVE TypeOK'
  <2>1. web' \in [Calls -> {"idle", "waiting"} \cup Answers]
    BY <1>4 DEF Arrive, TypeOK, Answer, Answers
  <2>2. \/ UNCHANGED helpVars
        \/ help' = [help EXCEPT ![c] = "queued"] /\ UNCHANGED <<reply, at, spent, host, touched, saw, before>>
        \/ Start(c)
    BY <1>4 DEF Arrive
  <2>3. UNCHANGED <<route, age, crashes>>
    BY <1>4 DEF Arrive
  <2> QED BY <2>1, <2>2, <2>3 DEF TypeOK, Start, helpVars
<1>5. ASSUME NEW c \in Calls, Receive(c) \/ Expire(c) PROVE TypeOK'
  <2>1. web' \in [Calls -> {"idle", "waiting"} \cup Answers]
    BY <1>5 DEF Receive, Expire, TypeOK, Answer, Answers, Stages, Stage
  <2> QED BY <1>5, <2>1 DEF Receive, Expire, TypeOK, helpVars
<1>6. ASSUME NEW c \in Calls, Begin(c) PROVE TypeOK'
  <2>1. /\ UNCHANGED <<route, web, age, crashes>>
        /\ \/ Replied(c, "refused") /\ UNCHANGED <<at, spent, host, touched, saw, before>>
           \/ Start(c)
    BY <1>6 DEF Begin
  <2> QED BY <2>1 DEF TypeOK, Start, Replied
<1>7. ASSUME NEW c \in Calls, Finish(c) PROVE TypeOK'
  BY <1>7 DEF Finish, TypeOK, Replied
<1>8. ASSUME NEW c \in Calls, Succeed(c) \/ Fail(c) \/ OrphanEnds(c) PROVE TypeOK'
  <2>1. route[c] # None /\ at[c] \in DOMAIN Steps(c) /\ at[c] \in Nat
    BY <1>8, Routed DEF Succeed, Fail, OrphanEnds, InStep, Stages, Stage, TypeOK
  <2>2. Now(c).ok \in Nat /\ Now(c).err \subseteq Nat
    BY <2>1, Table DEF WellFormed, Now
  <2>3. Changing(Now(c)) => Now(c).on \in Parts
    BY <2>1, Owned DEF Now
  <2>4. Left(c) \in Contents
    BY Names DEF Left
  <2>5. ASSUME NEW n \in Nat, Move(c, n) PROVE at' \in [Calls -> Nat] /\ spent' \in [Calls -> Nat]
    BY <2>1, <2>5 DEF Move, TypeOK
  <2>6. ASSUME Effect(c), Changing(Now(c))
        PROVE  host' \in [Parts -> Contents] /\ touched' \in [Calls -> SUBSET Parts]
    BY <2>3, <2>4, <2>6 DEF Effect, TypeOK
  <2>7. CASE Succeed(c)
    <3>1. /\ UNCHANGED <<route, web, age, crashes, help, reply, before>>
          /\ at' \in [Calls -> Nat] /\ spent' \in [Calls -> Nat]
      BY <2>2, <2>5, <2>7 DEF Succeed
    <3>2. host' \in [Parts -> Contents] /\ touched' \in [Calls -> SUBSET Parts]
      BY <2>6, <2>7 DEF Succeed, TypeOK
    <3>3. saw' \in [Calls -> SUBSET (Parts \X Contents)]
      <4>1. Now(c).on \in Parts => <<Now(c).on, host[Now(c).on]>> \in Parts \X Contents
        BY DEF TypeOK
      <4> QED BY <2>7, <4>1 DEF Succeed, TypeOK
    <3> QED BY <3>1, <3>2, <3>3 DEF TypeOK
  <2>8. CASE Fail(c)
    <3>1. UNCHANGED <<route, web, age, crashes, saw, before>>
      BY <2>8 DEF Fail
    <3>2. /\ at' \in [Calls -> Nat] /\ spent' \in [Calls -> Nat]
          /\ help' \in [Calls -> {"none", "queued", "running", "replied", "orphan", "gone"}]
          /\ reply' \in [Calls -> {"none", "ok", "error", "refused", "large"}]
      <4>1. CASE Replied(c, "error") /\ UNCHANGED <<at, spent>>
        BY <4>1 DEF Replied, TypeOK
      <4>2. CASE \E n \in Now(c).err \ {0} : Move(c, n) /\ UNCHANGED <<help, reply>>
        BY <2>2, <2>5, <4>2 DEF TypeOK
      <4> QED BY <2>8, <4>1, <4>2 DEF Fail
    <3>3. host' \in [Parts -> Contents] /\ touched' \in [Calls -> SUBSET Parts]
      <4>1. CASE UNCHANGED <<host, touched>>
        BY <4>1 DEF TypeOK
      <4>2. CASE Now(c).do = "run" /\ Effect(c)
        BY <2>6, <4>2 DEF Changing
      <4>3. CASE Now(c).do = "fill" /\ host' = [host EXCEPT ![Now(c).on] = "torn"] /\ UNCHANGED touched
        BY <2>3, <4>3, Names DEF Changing, TypeOK
      <4> QED BY <2>8, <4>1, <4>2, <4>3 DEF Fail
    <3> QED BY <3>1, <3>2, <3>3 DEF TypeOK
  <2>9. CASE OrphanEnds(c)
    <3>1. Now(c).do = "run"
      BY <2>9 DEF OrphanEnds, Stages, Stage
    <3>2. host' \in [Parts -> Contents] /\ touched' \in [Calls -> SUBSET Parts]
      BY <2>6, <2>9, <3>1 DEF OrphanEnds, Changing, TypeOK
    <3> QED BY <2>9, <3>2 DEF OrphanEnds, TypeOK
  <2> QED BY <1>8, <2>7, <2>8, <2>9
<1> QED BY <1>1, <1>2, <1>3, <1>4, <1>5, <1>6, <1>7, <1>8 DEF Next, Quiet, Work

-----------------------------------------------------------------------------
(* The two handlers of every call keep step.                               *)
LEMMA StageStep == ASSUME TypeOK, Stages, [Next]_vars PROVE Stages'
<1> USE DEF Stages, Stage, Done
<1>1. CASE Tick
  BY <1>1 DEF Tick, Steps, Now
<1>2. CASE Crash
  <2>1. TypeOK
    OBVIOUS
  <2>2. ASSUME NEW c \in Calls PROVE Stage(c)'
    <3>1. help'[c] = IF help[c] \notin {"queued", "running"} \/ IsLocal(c) THEN help[c]
                     ELSE IF InStep(c) /\ Now(c).do = "run" THEN "orphan" ELSE "gone"
      BY <1>2 DEF Crash
    <3>2. /\ UNCHANGED <<route, web, reply, at, touched, saw>>
          /\ Steps(c)' = Steps(c) /\ Now(c)' = Now(c)
      BY <1>2 DEF Crash, Steps, Now
    <3>3. help'[c] # help[c] =>
            /\ help[c] \in {"queued", "running"} /\ help'[c] \in {"orphan", "gone"}
            /\ help'[c] = "orphan" => InStep(c) /\ Now(c).do = "run"
      BY <3>1
    <3>4. CASE help'[c] = help[c]
      BY <3>2, <3>4
    <3>5. CASE help'[c] # help[c]
      BY <3>2, <3>3, <3>5 DEF InStep
    <3> QED BY <3>4, <3>5
  <2> QED BY <2>2
<1>3. CASE UNCHANGED vars
  BY <1>3 DEF vars, helpVars, Steps, Now
<1>4. ASSUME NEW c \in Calls, NEW d \in Calls,
             Arrive(c) \/ Receive(c) \/ Expire(c) \/ Work(c), d # c
      PROVE  Stage(d)'
  <2>1. /\ route' = route /\ web'[d] = web[d] /\ help'[d] = help[d] /\ reply'[d] = reply[d]
        /\ at'[d] = at[d] /\ touched'[d] = touched[d] /\ saw'[d] = saw[d]
    BY <1>4 DEF TypeOK, Arrive, Receive, Expire, Work, Begin, Succeed, Fail, Finish, OrphanEnds,
       Answer, Start, Replied, Effect, Move, helpVars
  <2>2. Steps(d)' = Steps(d) /\ Now(d)' = Now(d)
    BY <2>1 DEF Steps, Now
  <2> QED BY <2>1, <2>2
<1>5. ASSUME NEW c \in Calls, Arrive(c) PROVE Stage(c)'
  BY <1>5 DEF Arrive, Answer, Start, helpVars, TypeOK, Steps, Now
<1>6. ASSUME NEW c \in Calls, Receive(c) PROVE Stage(c)'
  BY <1>6 DEF Receive, Answer, helpVars, TypeOK, Steps, Now
<1>7. ASSUME NEW c \in Calls, Expire(c) PROVE Stage(c)'
  BY <1>7 DEF Expire, Answer, helpVars, TypeOK, Steps, Now
<1>8. ASSUME NEW c \in Calls, Begin(c) PROVE Stage(c)'
  BY <1>8 DEF Begin, Start, Replied, TypeOK, Steps, Now
<1>9. ASSUME NEW c \in Calls, Succeed(c) PROVE Stage(c)'
  <2>1. help[c] = "running" /\ at[c] \in DOMAIN Steps(c) /\ route[c] # None
    BY <1>9 DEF Succeed, InStep, TypeOK
  <2>2. Now(c).ok \in Nat \ {0} /\ at[c] \in Nat
    BY <2>1, Table DEF WellFormed, Now, TypeOK
  <2>3. at'[c] = at[c] + Now(c).ok
    BY <1>9 DEF Succeed, Move, TypeOK
  <2>4. at'[c] > 0
    BY <2>2, <2>3
  <2> QED BY <1>9, <2>1, <2>4 DEF Succeed, TypeOK
<1>10. ASSUME NEW c \in Calls, Fail(c) PROVE Stage(c)'
  <2>1. help[c] = "running" /\ at[c] \in DOMAIN Steps(c) /\ route[c] # None /\ at[c] > 0
    BY <1>10 DEF Fail, InStep, TypeOK
  <2>2. Now(c).err \subseteq Nat /\ at[c] \in Nat
    BY <2>1, Table DEF WellFormed, Now, TypeOK
  <2>3. UNCHANGED <<route, web, saw>>
    BY <1>10 DEF Fail
  <2>4. CASE Replied(c, "error") /\ UNCHANGED <<at, spent>>
    BY <2>1, <2>3, <2>4 DEF Replied, TypeOK
  <2>5. ASSUME NEW n \in Now(c).err \ {0}, Move(c, n), UNCHANGED <<help, reply>> PROVE Stage(c)'
    <3>1. at'[c] > 0
      BY <2>1, <2>2, <2>5 DEF Move, TypeOK
    <3> QED BY <2>1, <2>3, <2>5, <3>1 DEF TypeOK
  <2> QED BY <1>10, <2>4, <2>5 DEF Fail
<1>11. ASSUME NEW c \in Calls, Finish(c) PROVE Stage(c)'
  BY <1>11 DEF Finish, Replied, TypeOK, Steps, Now
<1>12. ASSUME NEW c \in Calls, OrphanEnds(c) PROVE Stage(c)'
  BY <1>12 DEF OrphanEnds, Effect, TypeOK, Steps, Now
<1>13. ASSUME NEW c \in Calls, Arrive(c) \/ Receive(c) \/ Expire(c) \/ Work(c) PROVE Stages'
  BY <1>4, <1>5, <1>6, <1>7, <1>8, <1>9, <1>10, <1>11, <1>12, <1>13 DEF Work
<1> QED BY <1>1, <1>2, <1>3, <1>13 DEF Next, Quiet

(* Who takes a step of its recipe has begun it.                            *)
LEMMA AtWork ==
  ASSUME TypeOK, Stages, NEW d \in Calls, Succeed(d) \/ Fail(d) \/ OrphanEnds(d)
  PROVE  /\ help[d] \in {"running", "orphan"} /\ route[d] # None /\ at[d] > 0 /\ at[d] \in Nat
         /\ at[d] \in DOMAIN Steps(d) /\ Now(d).ok \in Nat \ {0} /\ Now(d).err \subseteq Nat
<1>1. help[d] \in {"running", "orphan"} /\ at[d] > 0 /\ at[d] \in DOMAIN Steps(d)
  BY DEF Succeed, Fail, OrphanEnds, InStep, Stages, Stage
<1>2. route[d] # None
  BY <1>1, Routed
<1>3. Now(d).ok \in Nat \ {0} /\ Now(d).err \subseteq Nat
  BY <1>1, <1>2, Table DEF Now, WellFormed
<1> QED BY <1>1, <1>2, <1>3 DEF TypeOK

(* What a step leaves of a call: its route, that it has begun, what had    *)
(* ended before, how it ended and what it did until then.                  *)
LEMMA Lasting ==
  ASSUME TypeOK, Stages, [Next]_vars, NEW c \in Calls
  PROVE  /\ route' = route
         /\ at[c] > 0 => at'[c] > 0 /\ before'[c] = before[c]
         /\ at[c] = 0 => touched'[c] = {} /\ saw'[c] = {}
         /\ help[c] \in {"replied", "gone"} =>
              /\ help'[c] = help[c] /\ reply'[c] = reply[c] /\ at'[c] = at[c] /\ touched'[c] = touched[c]
         /\ \A d \in before'[c] : d \in before[c] \/ help[d] \in {"replied", "gone"}
<1> USE DEF Stages, Stage
<1>1. CASE Tick \/ Crash \/ UNCHANGED vars
  BY <1>1 DEF Tick, Crash, vars, helpVars, TypeOK
<1>2. ASSUME NEW e \in Calls, Arrive(e) \/ Receive(e) \/ Expire(e)
      PROVE  /\ at[c] > 0 => at'[c] > 0 /\ before'[c] = before[c]
             /\ route' = route
             /\ at[c] = 0 => touched'[c] = {} /\ saw'[c] = {}
             /\ help[c] \in {"replied", "gone"} =>
                  /\ help'[c] = help[c] /\ reply'[c] = reply[c] /\ at'[c] = at[c] /\ touched'[c] = touched[c]
             /\ \A d \in before'[c] : d \in before[c] \/ help[d] \in {"replied", "gone"}
  BY <1>2 DEF Arrive, Receive, Expire, Start, Answer, helpVars, TypeOK
<1>3. ASSUME NEW e \in Calls, Work(e)
      PROVE  /\ at[c] > 0 => at'[c] > 0 /\ before'[c] = before[c]
             /\ route' = route
             /\ at[c] = 0 => touched'[c] = {} /\ saw'[c] = {}
             /\ help[c] \in {"replied", "gone"} =>
                  /\ help'[c] = help[c] /\ reply'[c] = reply[c] /\ at'[c] = at[c] /\ touched'[c] = touched[c]
             /\ \A d \in before'[c] : d \in before[c] \/ help[d] \in {"replied", "gone"}
  <2>1. CASE Begin(e)
    BY <2>1 DEF Begin, Start, Replied, TypeOK
  <2>2. CASE Finish(e)
    BY <2>2 DEF Finish, Replied, TypeOK
  <2>3. CASE Succeed(e) \/ Fail(e) \/ OrphanEnds(e)
    <3>1. /\ route' = route /\ before' = before
          /\ help[e] \in {"running", "orphan"} /\ at[e] > 0
      BY <2>3 DEF Succeed, Fail, OrphanEnds, InStep
    <3>2. Stages'
      BY StageStep
    <3>3. CASE c = e
      <4>1. at'[c] > 0
        <5>1. at[c] \in Nat /\ Now(c).ok \in Nat /\ Now(c).err \subseteq Nat
          BY <2>3, <3>3, AtWork
        <5>2. at' = at \/ \E n \in Nat : at'[c] = at[c] + n
          BY <2>3, <3>3, <5>1 DEF Succeed, Fail, OrphanEnds, Move, TypeOK
        <5> QED BY <3>1, <3>3, <5>1, <5>2
      <4> QED BY <3>1, <3>3, <4>1
    <3>4. CASE c # e
      <4>1. /\ help'[c] = help[c] /\ reply'[c] = reply[c] /\ at'[c] = at[c]
            /\ touched'[c] = touched[c] /\ saw'[c] = saw[c]
        BY <2>3, <3>4 DEF Succeed, Fail, OrphanEnds, Move, Effect, Replied, TypeOK
      <4> QED BY <3>1, <4>1
    <3> QED BY <3>3, <3>4
  <2> QED BY <1>3, <2>1, <2>2, <2>3 DEF Work
<1> QED BY <1>1, <1>2, <1>3 DEF Next, Quiet

(* A handler that has ended does not begin again.                          *)
LEMMA EndedStep == ASSUME TypeOK, Stages, Ended, [Next]_vars PROVE Ended'
<1> SUFFICES ASSUME NEW c \in Calls, NEW d \in before'[c] PROVE help'[d] \in {"replied", "gone"}
  BY DEF Ended
<1>1. d \in Calls
  <2>1. TypeOK'
    BY TypeStep
  <2> QED BY <2>1 DEF TypeOK
<1>2. help[d] \in {"replied", "gone"}
  BY Lasting DEF Ended
<1> QED BY <1>1, <1>2, Lasting

(* A rival stays a rival.                                                  *)
LEMMA RivalStays ==
  ASSUME TypeOK, Stages, [Next]_vars, NEW c \in Calls, at[c] > 0, NEW p, Rival(c, p)
  PROVE  Rival(c, p)'
<1>1. PICK d \in Calls \ {c} : d \notin before[c] /\ route[d] # None /\ at[d] > 0 /\ p \in Own(d)
  BY DEF Rival, Own
<1>2. route' = route /\ at'[d] > 0 /\ before'[c] = before[c]
  BY <1>1, Lasting
<1> QED BY <1>1, <1>2 DEF Rival, Own

(* Who changes a part.                                                     *)
LEMMA Changer ==
  ASSUME TypeOK, Stages, NEW d \in Calls, Succeed(d) \/ Fail(d) \/ OrphanEnds(d)
  PROVE  /\ help[d] \in {"running", "orphan"} /\ route[d] # None /\ at[d] > 0
         /\ at[d] \in DOMAIN Steps(d)
         /\ \A p \in Parts : host'[p] # host[p] => p = Now(d).on /\ p \in Own(d) /\ Changing(Now(d))
         /\ \A c \in Calls \ {d} : UNCHANGED <<help[c], reply[c], at[c], touched[c], saw[c]>>
<1>1. help[d] \in {"running", "orphan"} /\ route[d] # None /\ at[d] > 0 /\ at[d] \in DOMAIN Steps(d)
  BY AtWork
<1>2. host' = host \/ (Changing(Now(d)) /\ \E v : host' = [host EXCEPT ![Now(d).on] = v])
  BY DEF Succeed, Fail, OrphanEnds, Effect, Changing, Stages, Stage
<1>3. \A p \in Parts : host'[p] # host[p] => p = Now(d).on /\ Changing(Now(d))
  <2> SUFFICES ASSUME NEW p \in Parts, host'[p] # host[p] PROVE p = Now(d).on /\ Changing(Now(d))
    OBVIOUS
  <2>1. PICK v : Changing(Now(d)) /\ host' = [host EXCEPT ![Now(d).on] = v]
    BY <1>2
  <2> QED BY <2>1 DEF TypeOK
<1>4. Changing(Now(d)) => Now(d).on \in Own(d)
  BY <1>1, Owned DEF Now
<1>5. \A c \in Calls \ {d} : UNCHANGED <<help[c], reply[c], at[c], touched[c], saw[c]>>
  BY DEF Succeed, Fail, OrphanEnds, Move, Effect, Replied, TypeOK
<1> QED BY <1>1, <1>3, <1>4, <1>5

(* The other steps change nothing on the machine.                          *)
LEMMA NoChange ==
  ASSUME [Next]_vars, \A d \in Calls : ~(Succeed(d) \/ Fail(d) \/ OrphanEnds(d))
  PROVE  UNCHANGED <<host, touched, saw>>
BY DEF Next, vars, helpVars, Tick, Crash, Quiet, Arrive, Receive, Expire, Work, Begin, Finish, Start

-----------------------------------------------------------------------------
(* A step makes the change that it promises, on the way to any later one.  *)
LEMMA ProgressStep == ASSUME TypeOK, Stages, Progress, [Next]_vars PROVE Progress'
<1> SUFFICES ASSUME NEW c \in Calls, Sound(c)'
             PROVE  /\ \A i \in DOMAIN Steps(c)' :
                         (i < at'[c] /\ Promising(Steps(c)'[i])) => Steps(c)'[i].on \in touched'[c]
                    /\ Filling(c)' => Now(c)'.on \in touched'[c]
  BY DEF Progress
<1>1. route' = route /\ Steps(c)' = Steps(c)
  BY Lasting DEF Steps
<1>2. CASE Succeed(c)
  <2>1. /\ help[c] = "running" /\ route[c] # None /\ at[c] \in DOMAIN Steps(c) /\ at[c] \in Nat
        /\ Now(c).ok \in Nat \ {0}
    BY <1>2, AtWork DEF Succeed, InStep
  <2>2. at'[c] = at[c] + Now(c).ok
    BY <1>2 DEF Succeed, Move, TypeOK
  <2>3. touched[c] \subseteq touched'[c] /\ (Changing(Now(c)) => Now(c).on \in touched'[c])
    BY <1>2 DEF Succeed, Effect, TypeOK
  <2>4. WellFormed(Steps(c)) /\ DOMAIN Steps(c) = 1..Len(Steps(c)) /\ Len(Steps(c)) \in Nat
    BY <2>1, Table
  <2>5. ASSUME NEW i \in DOMAIN Steps(c), i < at[c] + Now(c).ok, Promising(Steps(c)[i])
        PROVE  Steps(c)[i].on \in touched'[c]
    <3>1. i \in Nat
      BY <2>4
    <3>2. CASE i < at[c]
      BY <2>1, <2>3, <2>5, <3>2 DEF Progress, Sound
    <3>3. CASE i = at[c]
      BY <2>3, <2>5, <3>3 DEF Now, Promising, Changing
    <3>4. CASE at[c] < i
      <4>1. Now(c).do = "run" /\ Now(c).on = Steps(c)[i].on
        BY <2>1, <2>4, <2>5, <3>4 DEF WellFormed, Now
      <4> QED BY <2>3, <4>1 DEF Changing
    <3> QED BY <2>1, <3>1, <3>2, <3>3, <3>4
  <2>6. ASSUME at[c] + Now(c).ok \in DOMAIN Steps(c), Steps(c)[at[c] + Now(c).ok].do = "fill"
        PROVE  Steps(c)[at[c] + Now(c).ok].on \in touched'[c]
    <3>1. Now(c).do = "trunc"
      BY <2>1, <2>4, <2>6 DEF WellFormed, Now
    <3>2. Now(c).ok = 1 /\ Steps(c)[at[c] + 1].on = Now(c).on
      BY <2>1, <2>4, <3>1 DEF WellFormed, Now
    <3> QED BY <2>3, <3>1, <3>2 DEF Changing
  <2> QED BY <1>1, <2>2, <2>5, <2>6 DEF Filling, InStep, Now
<1>3. CASE Fail(c)
  <2>1. /\ help[c] = "running" /\ route[c] # None /\ at[c] \in DOMAIN Steps(c) /\ at[c] \in Nat
        /\ Now(c).err \subseteq Nat
    BY <1>3, AtWork DEF Fail, InStep
  <2>2. PICK n \in Now(c).err \ {0} : Move(c, n)
    BY <1>3 DEF Fail, Replied, Sound, Done, TypeOK
  <2>3. at'[c] = at[c] + n
    BY <2>2 DEF Move, TypeOK
  <2>4. touched[c] \subseteq touched'[c]
    BY <1>3 DEF Fail, Effect, TypeOK
  <2>5. WellFormed(Steps(c)) /\ DOMAIN Steps(c) = 1..Len(Steps(c)) /\ Len(Steps(c)) \in Nat
    BY <2>1, Table
  <2>6. ASSUME NEW i \in DOMAIN Steps(c), i < at[c] + n, Promising(Steps(c)[i])
        PROVE  Steps(c)[i].on \in touched'[c]
    <3>1. i \in Nat /\ i < at[c]
      BY <2>1, <2>2, <2>5, <2>6 DEF WellFormed, Now
    <3> QED BY <2>1, <2>4, <2>6, <3>1 DEF Progress, Sound
  <2>7. ~(at[c] + n \in DOMAIN Steps(c) /\ Steps(c)[at[c] + n].do = "fill")
    BY <2>1, <2>2, <2>5 DEF WellFormed, Now
  <2> QED BY <1>1, <2>3, <2>6, <2>7 DEF Filling, InStep, Now
<1>4. CASE Arrive(c) \/ Begin(c)
  <2>1. at'[c] = 1
    BY <1>4 DEF Arrive, Begin, Start, Replied, Sound, Done, TypeOK, Stages, Stage, helpVars
  <2>2. route[c] # None
    BY <1>4, Routed DEF Arrive, Begin
  <2>3. WellFormed(Steps(c)) /\ DOMAIN Steps(c) = 1..Len(Steps(c)) /\ Len(Steps(c)) \in Nat
    BY <2>2, Table
  <2> QED BY <1>1, <2>1, <2>3 DEF WellFormed, Filling, InStep, Now
<1>5. CASE Finish(c)
  <2>1. help[c] = "running" /\ at' = at /\ touched' = touched /\ help'[c] = "replied"
    BY <1>5 DEF Finish, Replied, TypeOK
  <2> QED BY <1>1, <2>1 DEF Progress, Sound, Filling, InStep
<1>6. CASE ~(Succeed(c) \/ Fail(c) \/ Arrive(c) \/ Begin(c) \/ Finish(c))
  <2>1. at'[c] = at[c] /\ touched'[c] = touched[c] /\ (Sound(c)' => Sound(c) /\ help'[c] = help[c])
    <3>1. CASE Tick \/ Crash \/ UNCHANGED vars
      BY <3>1 DEF Tick, Crash, vars, helpVars, Sound, Done
    <3>2. CASE \E e \in Calls : Receive(e) \/ Expire(e)
      BY <3>2 DEF Receive, Expire, helpVars, Sound, Done
    <3>3. CASE \E e \in Calls \ {c} : Arrive(e) \/ Begin(e) \/ Finish(e)
      BY <3>3 DEF Arrive, Begin, Finish, Start, Replied, helpVars, Sound, Done, TypeOK
    <3>4. CASE \E e \in Calls \ {c} : Succeed(e) \/ Fail(e) \/ OrphanEnds(e)
      BY <3>4, Changer DEF Sound, Done
    <3>5. CASE OrphanEnds(c)
      BY <3>5 DEF OrphanEnds, Sound, Done, TypeOK
    <3> QED BY <1>6, <3>1, <3>2, <3>3, <3>4, <3>5 DEF Next, Work, Quiet
  <2>2. Filling(c)' => Filling(c)
    BY <1>1, <2>1 DEF Filling, InStep, Now
  <2>3. Now(c)' = Now(c)
    BY <1>1, <2>1 DEF Now
  <2> QED BY <1>1, <2>1, <2>2, <2>3 DEF Progress
<1> QED BY <1>2, <1>3, <1>4, <1>5, <1>6

-----------------------------------------------------------------------------
(* A part that another call changes has a rival of the calls that changed  *)
(* it before, for who is at work had not ended when they began.            *)
LEMMA Rivalry ==
  ASSUME TypeOK, Stages, Ended, [Next]_vars, NEW c \in Calls, at[c] > 0,
         NEW d \in Calls \ {c}, Succeed(d) \/ Fail(d) \/ OrphanEnds(d),
         NEW p \in Parts, host'[p] # host[p]
  PROVE  Rival(c, p)'
<1>1. help[d] \in {"running", "orphan"} /\ route[d] # None /\ at[d] > 0 /\ p \in Own(d)
  BY Changer
<1>2. d \notin before[c]
  BY <1>1 DEF Ended
<1>3. Rival(c, p)
  BY <1>1, <1>2 DEF Rival, Own
<1> QED BY <1>3, RivalStays

(* Whoever changes what another call has left had not ended when that one  *)
(* began, for what has ended changes nothing: it is a rival.               *)
LEMMA KeptStep == ASSUME TypeOK, Stages, Ended, Progress, Kept, [Next]_vars PROVE Kept'
<1> SUFFICES ASSUME NEW c \in Calls, Sound(c)', NEW p \in touched'[c]
             PROVE  \/ host'[p] = c \/ Rival(c, p)'
                    \/ Filling(c)' /\ Now(c)'.on = p /\ host'[p] = "empty"
  BY DEF Kept
<1>1. route' = route /\ Steps(c)' = Steps(c)
  BY Lasting DEF Steps
<1>2. at[c] > 0
  <2>1. at[c] = 0 => touched'[c] = {}
    BY Lasting
  <2> QED BY <2>1 DEF TypeOK
<1>3. p \in Parts
  <2>1. TypeOK'
    BY TypeStep
  <2> QED BY <2>1 DEF TypeOK
<1>4. ASSUME Rival(c, p) PROVE Rival(c, p)'
  BY <1>2, <1>4, RivalStays
<1>5. CASE Succeed(c)
  <2>1. /\ help[c] = "running" /\ InStep(c) /\ Sound(c) /\ route[c] # None /\ at[c] \in DOMAIN Steps(c)
        /\ at[c] \in Nat
    BY <1>5, AtWork DEF Succeed, InStep, Sound
  <2>2. WellFormed(Steps(c))
    BY <2>1, Table
  <2>3. CASE ~(Changing(Now(c)) /\ Now(c).on = p)
    <3>1. p \in touched[c] /\ host'[p] = host[p]
      BY <1>3, <1>5, <2>3 DEF Succeed, Effect, TypeOK
    <3>2. host[p] = c \/ Rival(c, p)
      BY <2>1, <2>3, <3>1 DEF Kept, Filling, Changing
    <3> QED BY <1>4, <3>1, <3>2
  <2>4. CASE Changing(Now(c)) /\ Now(c).on = p
    <3>1. host'[p] = Left(c)
      BY <1>3, <1>5, <2>4 DEF Succeed, Effect, TypeOK
    <3>2. CASE Now(c).do = "run"
      BY <3>1, <3>2 DEF Left
    <3>3. CASE Now(c).do = "trunc"
      <4>1. /\ Now(c).ok = 1 /\ at[c] + 1 \in DOMAIN Steps(c)
            /\ Steps(c)[at[c] + 1].do = "fill" /\ Steps(c)[at[c] + 1].on = p
        BY <2>1, <2>2, <2>4, <3>3 DEF WellFormed, Now
      <4>2. at'[c] = at[c] + 1 /\ help'[c] = "running"
        BY <1>5, <2>1, <4>1 DEF Succeed, Move, TypeOK
      <4>3. Filling(c)' /\ Now(c)'.on = p
        BY <1>1, <4>1, <4>2 DEF Filling, InStep, Now
      <4> QED BY <3>1, <3>3, <4>3 DEF Left
    <3>4. CASE Now(c).do = "fill"
      <4>1. Left(c) = c \/ \E d \in Calls : Size[d] > Size[c] /\ host[p] \in {d, "torn"}
        BY <2>4, <3>4 DEF Left
      <4>2. host[p] = c \/ Rival(c, p) \/ host[p] = "empty"
        BY <2>1, <2>4, <3>4 DEF Progress, Kept, Filling
      <4>3. "empty" \notin Calls /\ "torn" \notin Calls /\ Size \in [Calls -> Nat]
        BY ForwardingAssumption
      <4>4. Size[c] \in Nat
        BY <4>3
      <4>5. Left(c) = c \/ Rival(c, p)
        BY <4>1, <4>2, <4>3, <4>4
      <4> QED BY <1>4, <3>1, <4>5
    <3> QED BY <2>4, <3>2, <3>3, <3>4 DEF Changing
  <2> QED BY <2>3, <2>4
<1>6. CASE Fail(c)
  <2>1. /\ help[c] = "running" /\ InStep(c) /\ Sound(c) /\ route[c] # None /\ at[c] \in DOMAIN Steps(c)
    BY <1>6, AtWork DEF Fail, InStep, Sound
  <2>2. Now(c).err # {0}
    BY <1>6 DEF Fail, Replied, Sound, Done, TypeOK
  <2>3. Now(c).do \notin {"trunc", "fill"}
    BY <2>1, <2>2, Table DEF WellFormed, Now
  <2>4. CASE UNCHANGED <<host, touched>>
    BY <1>4, <2>1, <2>3, <2>4 DEF Kept, Filling
  <2>5. CASE Effect(c) /\ Now(c).do = "run"
    <3>1. CASE Now(c).on = p
      BY <1>3, <2>5, <3>1 DEF Effect, Left, TypeOK
    <3>2. CASE Now(c).on # p
      <4>1. p \in touched[c] /\ host'[p] = host[p]
        BY <1>3, <2>5, <3>2 DEF Effect, TypeOK
      <4> QED BY <1>4, <2>1, <2>3, <4>1 DEF Kept, Filling
    <3> QED BY <3>1, <3>2
  <2> QED BY <1>6, <2>3, <2>4, <2>5 DEF Fail
<1>7. CASE ~(Succeed(c) \/ Fail(c))
  <2>1. p \in touched[c] /\ Sound(c) /\ (Filling(c) => Filling(c)' /\ Now(c)' = Now(c))
    <3>1. CASE Tick \/ Crash \/ UNCHANGED vars
      BY <1>1, <3>1 DEF Tick, Crash, vars, helpVars, Sound, Done, Filling, InStep, Now
    <3>2. CASE \E e \in Calls : Receive(e) \/ Expire(e)
      BY <1>1, <3>2 DEF Receive, Expire, helpVars, Sound, Done, Filling, InStep, Now
    <3>3. CASE Arrive(c) \/ Begin(c)
      BY <1>2, <3>3 DEF Arrive, Begin, Stages, Stage
    <3>4. CASE \E e \in Calls \ {c} : Arrive(e) \/ Begin(e) \/ Finish(e)
      BY <1>1, <3>4 DEF Arrive, Begin, Finish, Start, Replied, helpVars, Sound, Done, TypeOK,
         Filling, InStep, Now
    <3>5. CASE \E e \in Calls \ {c} : Succeed(e) \/ Fail(e) \/ OrphanEnds(e)
      BY <1>1, <3>5, Changer DEF Sound, Done, Filling, InStep, Now
    <3>6. CASE Finish(c)
      BY <3>6 DEF Finish, Sound, Filling, InStep
    <3>7. CASE OrphanEnds(c)
      BY <3>7 DEF OrphanEnds, Sound, Done, TypeOK
    <3> QED BY <1>7, <3>1, <3>2, <3>3, <3>4, <3>5, <3>6, <3>7 DEF Next, Work, Quiet
  <2>2. CASE host'[p] = host[p]
    BY <1>4, <2>1, <2>2 DEF Kept
  <2>3. CASE host'[p] # host[p]
    <3>1. PICK d \in Calls : Succeed(d) \/ Fail(d) \/ OrphanEnds(d)
      BY <2>3, NoChange
    <3>2. d # c
      BY <1>7, <3>1, <2>1 DEF OrphanEnds, Sound, Done
    <3> QED BY <1>2, <1>3, <2>3, <3>1, <3>2, Rivalry
  <2> QED BY <2>2, <2>3
<1> QED BY <1>5, <1>6, <1>7

(* A read sees the host as Kept describes it, and the rivals of a call     *)
(* that has ended stay rivals.                                             *)
LEMMA ReadKeptStep ==
  ASSUME TypeOK, Stages, Ended, Kept, ReadKept, [Next]_vars
  PROVE  ReadKept'
<1> SUFFICES ASSUME NEW c \in Calls, NEW d \in Calls, d \in before'[c], Done(d)',
                    NEW r \in saw'[c], r[1] \in touched'[d]
             PROVE  r[2] = d \/ Rival(d, r[1])'
  BY DEF ReadKept
<1>1. at[c] > 0 /\ before'[c] = before[c]
  <2>1. at[c] # 0
    BY Lasting
  <2> QED BY <2>1, Lasting DEF TypeOK
<1>2. Done(d) /\ touched'[d] = touched[d] /\ at[d] > 0
  <2>1. help[d] \in {"replied", "gone"}
    BY <1>1 DEF Ended
  <2>2. Done(d) /\ touched'[d] = touched[d]
    BY <2>1, Lasting DEF Done
  <2> QED BY <2>2 DEF Done, Stages, Stage, TypeOK
<1>3. CASE r \in saw[c]
  BY <1>1, <1>2, <1>3, RivalStays DEF ReadKept
<1>4. CASE r \notin saw[c]
  <2>1. r[2] = host[r[1]]
    <3>1. PICK e \in Calls : Succeed(e) \/ Fail(e) \/ OrphanEnds(e)
      BY <1>4, NoChange
    <3>2. Succeed(c)
      BY <1>4, <3>1, Changer DEF Fail, OrphanEnds
    <3> QED BY <1>4, <3>2 DEF Succeed, TypeOK
  <2>2. r[2] = d \/ Rival(d, r[1])
    BY <1>2, <2>1 DEF Kept, Sound, Done, Filling, InStep
  <2> QED BY <1>2, <2>2, RivalStays
<1> QED BY <1>3, <1>4

-----------------------------------------------------------------------------
(* The invariant holds before the first request.                           *)
LEMMA Initially == Init => IInv
<1> SUFFICES ASSUME Init PROVE IInv
  OBVIOUS
<1> USE DEF Init
<1>1. TypeOK
  BY Names DEF TypeOK, Contents
<1>2. Stages /\ Ended
  BY DEF Stages, Stage, Ended, Done
<1>3. Progress /\ Kept /\ ReadKept
  BY DEF Progress, Kept, ReadKept, Sound, Done
<1> QED BY <1>1, <1>2, <1>3 DEF IInv

(* Each step keeps the invariant.                                          *)
LEMMA Inductive == ASSUME IInv, [Next]_vars PROVE IInv'
BY TypeStep, StageStep, EndedStep, ProgressStep, KeptStep, ReadKeptStep DEF IInv

(* The handler of an answer OK has made every change it stands for.        *)
LEMMA Fulfilled ==
  ASSUME IInv, NEW c \in Calls, Done(c), route[c] # None
  PROVE  Promised(c) \subseteq touched[c]
<1> SUFFICES ASSUME NEW i \in DOMAIN Steps(c), Promising(Steps(c)[i])
             PROVE  Steps(c)[i].on \in touched[c]
  BY DEF Promised
<1>1. DOMAIN Steps(c) = 1..Len(Steps(c)) /\ Len(Steps(c)) \in Nat
  BY Table DEF IInv
<1>2. at[c] \in Nat /\ at[c] > 0 /\ at[c] \notin DOMAIN Steps(c)
  BY DEF IInv, TypeOK, Stages, Stage, Done
<1>3. i < at[c]
  BY <1>1, <1>2
<1> QED BY <1>3 DEF IInv, Progress, Sound

(* A browser that was told OK has a handler that carried out its recipe.   *)
LEMMA Answered ==
  ASSUME IInv, NEW c \in Calls, Met(c)
  PROVE  Done(c) /\ Promised(c) \subseteq touched[c]
<1>1. Done(c) /\ route[c] # None
  BY DEF IInv, Stages, Stage, Met, Done
<1> QED BY <1>1, Fulfilled

(* The variables keep their types.                                         *)
THEOREM Typing == Spec => []TypeOK
<1>1. IInv => TypeOK
  BY DEF IInv
<1> QED BY <1>1, Initially, Inductive, PTL DEF Spec

(* A browser that was told OK got all of the change, one that was refused  *)
(* changed nothing.                                                        *)
THEOREM Truthful == Spec => []AnswerIsTrue
<1>1. ASSUME IInv PROVE AnswerIsTrue
  <2> SUFFICES ASSUME NEW c \in Calls
               PROVE  /\ Met(c) => Promised(c) \subseteq touched[c]
                      /\ web[c] \in {"refused", "rejected"} => touched[c] = {}
    BY DEF AnswerIsTrue
  <2>1. web[c] \in {"refused", "rejected"} => touched[c] = {}
    BY <1>1 DEF IInv, Stages, Stage
  <2> QED BY <1>1, <2>1, Answered
<1> QED BY <1>1, Initially, Inductive, PTL DEF Spec

(* A saved change stays as a whole, but for a rival's.                     *)
THEOREM Lasts == Spec => []SavedStays
<1>1. ASSUME IInv PROVE SavedStays
  <2> SUFFICES ASSUME NEW c \in Calls, Met(c), NEW p \in Promised(c)
               PROVE  host[p] = c \/ Rival(c, p)
    BY DEF SavedStays
  <2>1. Done(c) /\ p \in touched[c]
    BY <1>1, Answered
  <2> QED BY <1>1, <2>1 DEF IInv, Kept, Sound, Done, Filling, InStep
<1> QED BY <1>1, Initially, Inductive, PTL DEF Spec

(* Who reads after a save has ended reads what was saved.                  *)
THEOREM ReadBack == Spec => []ReadsSaved
<1>1. ASSUME IInv PROVE ReadsSaved
  <2> SUFFICES ASSUME NEW c \in Calls, NEW d \in Calls, Met(d), d \in before[c],
                      NEW r \in saw[c], r[1] \in Promised(d)
               PROVE  r[2] = d \/ Rival(d, r[1])
    BY DEF ReadsSaved
  <2>1. Done(d) /\ r[1] \in touched[d]
    BY <1>1, Answered
  <2> QED BY <1>1, <2>1 DEF IInv, ReadKept
<1> QED BY <1>1, Initially, Inductive, PTL DEF Spec

-----------------------------------------------------------------------------
(* The refinement of AtMostOnce: what the handler in the root helper has   *)
(* done of a call, and what its browser was told.                          *)
W(c) == IF at[c] = 0 THEN "none" ELSE IF help[c] \in {"replied", "gone"} THEN "ended" ELSE "begun"
T(c) == CASE web[c] \in {"idle", "waiting"} -> "nothing"
          [] web[c] = "ok" -> "done"
          [] web[c] = "error" -> "error"
          [] web[c] \in {"refused", "rejected"} -> "refused"
          [] OTHER -> "unknown"
WorkOf == [c \in Calls |-> W(c)]
ToldOf == [c \in Calls |-> T(c)]

(* The steps of the abstract call, pointwise.                              *)
LEMMA Same ==
  ASSUME \A c \in Calls : W(c)' = W(c), \A c \in Calls : T(c)' = T(c)
  PROVE  [Rpc!Next]_(Rpc!vars)
<1>1. WorkOf' = WorkOf /\ ToldOf' = ToldOf
  BY DEF WorkOf, ToldOf
<1> QED BY <1>1 DEF Rpc!vars, WorkOf, ToldOf, W, T

(* The handler of one call begins.                                         *)
LEMMA Begins ==
  ASSUME NEW c \in Calls, W(c) = "none", W(c)' = "begun", T(c) \in {"nothing", "unknown"},
         \A d \in Calls \ {c} : W(d)' = W(d), \A d \in Calls : T(d)' = T(d)
  PROVE  Rpc!Next
<1>1. WorkOf' = [WorkOf EXCEPT ![c] = "begun"] /\ ToldOf' = ToldOf
  BY DEF WorkOf, ToldOf
<1>2. WorkOf[c] = "none" /\ ToldOf[c] \in {"nothing", "unknown"}
  BY DEF WorkOf, ToldOf
<1>3. Rpc!Begin(c)
  BY <1>1, <1>2 DEF Rpc!Begin, WorkOf, ToldOf, W, T
<1> QED BY <1>3 DEF Rpc!Next

(* The handlers of some calls end: of one that replies, of all that a      *)
(* crash kills.                                                            *)
LEMMA Ends ==
  ASSUME NEW S \in SUBSET Calls, S # {}, \A c \in S : W(c) = "begun" /\ W(c)' = "ended",
         \A d \in Calls \ S : W(d)' = W(d), \A d \in Calls : T(d)' = T(d)
  PROVE  Rpc!Next
<1>1. WorkOf' = [c \in Calls |-> IF c \in S THEN "ended" ELSE WorkOf[c]] /\ ToldOf' = ToldOf
  BY DEF WorkOf, ToldOf
<1>2. \A c \in S : WorkOf[c] = "begun"
  BY DEF WorkOf
<1>3. Rpc!End(S)
  BY <1>1, <1>2 DEF Rpc!End, WorkOf, ToldOf, W, T
<1> QED BY <1>3 DEF Rpc!Next

(* One browser is told something.                                          *)
LEMMA Tells ==
  ASSUME NEW c \in Calls, T(c) = "nothing", T(c)' \in {"done", "error", "refused", "unknown"},
         T(c)' \in {"done", "error"} => W(c) = "ended", T(c)' = "refused" => W(c) = "none",
         \A d \in Calls : W(d)' = W(d), \A d \in Calls \ {c} : T(d)' = T(d)
  PROVE  Rpc!Next
<1>1. PICK v \in {"done", "error", "refused", "unknown"} : v = T(c)'
  OBVIOUS
<1>2. WorkOf' = WorkOf /\ ToldOf' = [ToldOf EXCEPT ![c] = v]
  BY <1>1 DEF WorkOf, ToldOf
<1>3. ToldOf[c] = "nothing" /\ WorkOf[c] = W(c)
  BY DEF WorkOf, ToldOf
<1>4. Rpc!Tell(c, v)
  BY <1>1, <1>2, <1>3 DEF Rpc!Tell, WorkOf, ToldOf, W, T
<1> QED BY <1>4 DEF Rpc!Next

(* Every step of the forwarder and the broker is one of the abstract call, *)
(* or leaves it alone.                                                     *)
LEMMA RpcStep == ASSUME TypeOK, Stages, [Next]_vars PROVE [Rpc!Next]_(Rpc!vars)
<1> USE DEF W, T
<1>1. CASE Tick \/ UNCHANGED vars
  BY <1>1, Same DEF Tick, vars, helpVars
<1>2. CASE Crash
  <2>1. \A c \in Calls : T(c)' = T(c)
    BY <1>2 DEF Crash
  <2>2. \A c \in Calls : W(c)' = W(c) \/ (W(c) = "begun" /\ W(c)' = "ended")
    BY <1>2 DEF Crash
  <2> DEFINE S == {c \in Calls : W(c)' # W(c)}
  <2>3. CASE S = {}
    BY <2>1, <2>3, Same
  <2>4. CASE S # {}
    <3>1. \A c \in S : W(c) = "begun" /\ W(c)' = "ended"
      BY <2>2
    <3>2. \A c \in Calls \ S : W(c)' = W(c)
      OBVIOUS
    <3> HIDE DEF W, T
    <3> QED BY <2>1, <2>4, <3>1, <3>2, Ends
  <2> QED BY <2>3, <2>4
<1>3. ASSUME NEW c \in Calls, Arrive(c) \/ Receive(c) \/ Expire(c) \/ Work(c), NEW d \in Calls, d # c
      PROVE  W(d)' = W(d) /\ T(d)' = T(d)
  BY <1>3 DEF TypeOK, Arrive, Receive, Expire, Work, Begin, Succeed, Fail, Finish, OrphanEnds,
     Answer, Start, Replied, Effect, Move, helpVars
<1>4. ASSUME NEW c \in Calls, Arrive(c) PROVE [Rpc!Next]_(Rpc!vars)
  <2>1. web[c] = "idle" /\ help[c] = "none" /\ at[c] = 0
    BY <1>4 DEF Arrive, Stages, Stage
  <2>2. CASE Start(c)
    <3>1. W(c)' = "begun" /\ T(c)' = T(c)
      BY <1>4, <2>1, <2>2 DEF Arrive, Start, Answer, TypeOK, helpVars
    <3> HIDE DEF W, T
    <3>2. W(c) = "none" /\ T(c) = "nothing"
      BY <2>1 DEF W, T
    <3> QED BY <1>3, <1>4, <3>1, <3>2, Begins
  <2>3. CASE ~Start(c) /\ web'[c] = "waiting"
    <3>1. W(c)' = W(c) /\ T(c)' = T(c)
      BY <1>4, <2>1, <2>3 DEF Arrive, Answer, TypeOK, helpVars
    <3> QED BY <1>3, <1>4, <3>1, Same
  <2>4. CASE ~Start(c) /\ web'[c] # "waiting"
    <3>1. W(c)' = W(c) /\ T(c)' \in {"refused", "unknown"}
      BY <1>4, <2>1, <2>4 DEF Arrive, Answer, TypeOK, helpVars
    <3> HIDE DEF W, T
    <3>2. W(c) = "none" /\ T(c) = "nothing"
      BY <2>1 DEF W, T
    <3> QED BY <1>3, <1>4, <3>1, <3>2, Tells
  <2> QED BY <2>2, <2>3, <2>4
<1>5. ASSUME NEW c \in Calls, Receive(c) \/ Expire(c) PROVE [Rpc!Next]_(Rpc!vars)
  <2>1. T(c) = "nothing" /\ W(c)' = W(c)
    BY <1>5 DEF Receive, Expire, helpVars
  <2>2. /\ T(c)' \in {"done", "error", "refused", "unknown"}
        /\ T(c)' \in {"done", "error"} => W(c) = "ended"
        /\ T(c)' = "refused" => W(c) = "none"
    BY <1>5 DEF Receive, Expire, Answer, TypeOK, Stages, Stage
  <2> HIDE DEF W, T
  <2> QED BY <1>3, <1>5, <2>1, <2>2, Tells
<1>6. ASSUME NEW c \in Calls, Work(c) PROVE [Rpc!Next]_(Rpc!vars)
  <2>1. T(c)' = T(c)
    BY <1>6 DEF Work, Begin, Succeed, Fail, Finish, OrphanEnds
  <2>2. CASE W(c)' = W(c)
    BY <1>3, <1>6, <2>1, <2>2, Same
  <2>3. CASE W(c) = "none" /\ W(c)' = "begun" /\ T(c) \in {"nothing", "unknown"}
    <3> HIDE DEF W, T
    <3> QED BY <1>3, <1>6, <2>1, <2>3, Begins
  <2>4. CASE W(c) = "begun" /\ W(c)' = "ended"
    <3> HIDE DEF W, T
    <3>1. \A d \in Calls \ {c} : W(d)' = W(d)
      BY <1>3, <1>6
    <3>2. \A d \in Calls : T(d)' = T(d)
      BY <1>3, <1>6, <2>1
    <3> QED BY <2>4, <3>1, <3>2, Ends
  <2>5. \/ W(c)' = W(c)
        \/ W(c) = "none" /\ W(c)' = "begun" /\ T(c) \in {"nothing", "unknown"}
        \/ W(c) = "begun" /\ W(c)' = "ended"
    <3>1. CASE Begin(c)
      <4>1. help[c] = "queued" /\ at[c] = 0 /\ web[c] \in {"waiting", "unavailable"}
        BY <3>1 DEF Begin, Stages, Stage, TypeOK, Answers
      <4> QED BY <3>1, <4>1 DEF Begin, Start, Replied, TypeOK
    <3>2. CASE Succeed(c) \/ Fail(c) \/ OrphanEnds(c)
      <4>1. help[c] \in {"running", "orphan"} /\ at[c] > 0 /\ at'[c] > 0
        BY <3>2, AtWork, Lasting
      <4> QED BY <4>1
    <3>3. CASE Finish(c)
      BY <3>3 DEF Finish, Replied, TypeOK, Stages, Stage
    <3> QED BY <1>6, <3>1, <3>2, <3>3 DEF Work
  <2> QED BY <2>2, <2>3, <2>4, <2>5
<1> QED BY <1>1, <1>2, <1>4, <1>5, <1>6 DEF Next, Quiet

(* webadmin's call implements a remote procedure call without retries.     *)
THEOREM Implements == Spec => ImplementsRpc
<1>1. Init => Rpc!Init
  BY DEF Init, Rpc!Init
<1>2. ASSUME IInv, [Next]_vars PROVE [Rpc!Next]_(Rpc!vars)
  BY <1>2, RpcStep DEF IInv
<1> QED BY <1>1, <1>2, Initially, Inductive, PTL DEF Spec, ImplementsRpc, Rpc!Spec
================================================================================
