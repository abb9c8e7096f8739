------------------------------- MODULE Forwarding -------------------------------
(***************************************************************************)
(* Requests of browsers that webadmin forwards to the root helper, and the *)
(* few it serves itself: forwardIPCWithTimeout of src/cmd/webadmin/main.go,*)
(* the ipc client, codec and server of src/pkg/ipc, broker.handle and the  *)
(* handlers of src/cmd/roothelper/main.go (Recipes), and the machine they  *)
(* change.  Every call has a connection and, on both sides, a goroutine of *)
(* its own; nothing serialises the handlers.  The client never retries.    *)
(*                                                                         *)
(* A part of the machine holds the call that changed it last; a file may   *)
(* also be "empty", between the truncation and the write of os.WriteFile,  *)
(* or "torn": a shorter text written over a longer one.                    *)
(*                                                                         *)
(* A tick is 5 s.  Timers fire some time after they expire, clocks stop    *)
(* where nothing depends on them any more.                                 *)
(***************************************************************************)
EXTENDS Routes, FiniteSets

CONSTANTS
  Calls,       \* the requests
  Menus,       \* which routes they may take: a set of functions
  Allowed,     \* allowed_helpers, a set of binaries
  Size,        \* how long a text each call writes
  MaxCrashes   \* bound: how often the root helper dies and is restarted

None == "none"

ASSUME ForwardingAssumption ==
  /\ Menus \subseteq [Calls -> DOMAIN Routes \cup {None}]
  /\ Size \in [Calls -> Nat]
  /\ MaxCrashes \in Nat
  /\ Calls \cap {"orig", "empty", "torn"} = {}

VARIABLES
  route,    \* chosen at first
  web,      \* the handler in webadmin: idle, waiting, or what it answered
  age,      \* how long ago the request arrived
  help,     \* the handler in the root helper (or in webadmin, if local)
  reply,    \* what it replied
  at,       \* the step it is at, 0 before the first
  spent,    \* how long its context has run
  host,     \* the parts of the machine
  crashes,
  touched,  \* history: the parts a call has changed
  saw,      \* history: the parts that a call has read, with what it read
  before    \* history: the calls that had ended when it began

helpVars == <<help, reply, at, spent, host, touched, saw, before>>
vars == <<route, web, age, crashes, helpVars>>

Used      == {r \in DOMAIN Routes : \E m \in Menus, c \in Calls : m[c] = r}
StepsOf(r) == IF Routes[r].type = "local" THEN Routes[r].steps ELSE Handlers[Routes[r].type].steps
Promising(s) == s.do \in {"run", "fill"} /\ s.err = {0}
Changing(s) == s.do \in {"run", "trunc", "fill"}
Changes(r) == {StepsOf(r)[i] : i \in {j \in DOMAIN StepsOf(r) : Changing(StepsOf(r)[j])}}
Parts      == {s.on : s \in UNION {Changes(r) : r \in Used}}

(* What the recipes have in common: a file is filled after it was truncated*)
(* and no failure is ignored between, and no step leads past one whose     *)
(* change is promised, but an alternative that makes the same change.      *)
WellFormed(s) == \A j \in DOMAIN s :
  /\ s[j].ok \in Nat \ {0} /\ s[j].err \subseteq Nat
  /\ s[j].do = "trunc" => /\ s[j].ok = 1 /\ s[j].err = {0}
                          /\ j + 1 \in DOMAIN s /\ s[j + 1].do = "fill" /\ s[j + 1].on = s[j].on
  /\ s[j].do = "fill" => j # 1 /\ s[j].err = {0}
  /\ \A n \in ({s[j].ok} \cup s[j].err) \ {0} :
       (j + n \in DOMAIN s /\ s[j + n].do = "fill") => s[j].do = "trunc"
  /\ \A i \in DOMAIN s : Promising(s[i]) =>
       /\ (j < i /\ i < j + s[j].ok) => s[j].do = "run" /\ s[j].on = s[i].on
       /\ \A n \in s[j].err \ {0} : ~(j <= i /\ i < j + n)
ASSUME RecipesAssumption == \A r \in DOMAIN Routes :
  /\ DOMAIN StepsOf(r) = 1..Len(StepsOf(r)) /\ Len(StepsOf(r)) \in Nat
  /\ WellFormed(StepsOf(r))

IsLocal(c) == Routes[route[c]].type = "local"
Handler(c) == Handlers[Routes[route[c]].type]
Steps(c)   == StepsOf(route[c])
Limit(c)   == IF IsLocal(c) THEN 0 ELSE Handler(c).limit
Wait(c)    == Routes[route[c]].wait
Now(c)     == Steps(c)[at[c]]
InStep(c)  == help[c] = "running" /\ at[c] \in DOMAIN Steps(c)
Answers    == {"rejected", "ok", "error", "refused", "unavailable"}

Contents   == {"orig", "empty", "torn"} \cup Calls

TypeOK ==
  /\ route \in Menus
  /\ web \in [Calls -> {"idle", "waiting"} \cup Answers]
  /\ help \in [Calls -> {"none", "queued", "running", "replied", "orphan", "gone"}]
  /\ reply \in [Calls -> {"none", "ok", "error", "refused", "large"}]
  /\ age \in [Calls -> Nat] /\ spent \in [Calls -> Nat] /\ at \in [Calls -> Nat]
  /\ host \in [Parts -> Contents] /\ saw \in [Calls -> SUBSET (Parts \X Contents)]
  /\ crashes \in 0..MaxCrashes
  /\ touched \in [Calls -> SUBSET Parts] /\ before \in [Calls -> SUBSET Calls]

Init ==
  /\ route \in Menus
  /\ web = [c \in Calls |-> "idle"] /\ age = [c \in Calls |-> 0]
  /\ help = [c \in Calls |-> "none"] /\ reply = [c \in Calls |-> "none"]
  /\ at = [c \in Calls |-> 0] /\ spent = [c \in Calls |-> 0]
  /\ host = [p \in Parts |-> "orig"] /\ crashes = 0
  /\ touched = [c \in Calls |-> {}] /\ saw = [c \in Calls |-> {}]
  /\ before = [c \in Calls |-> {}]

-----------------------------------------------------------------------------
(* webadmin.                                                               *)
Answer(c, v) == web' = [web EXCEPT ![c] = v]

(* The handler of a recipe takes its first step.                           *)
Start(c) == /\ help' = [help EXCEPT ![c] = "running"]
            /\ at' = [at EXCEPT ![c] = 1]
            /\ before' = [before EXCEPT ![c] = {d \in Calls : help[d] \in {"replied", "gone"}}]
            /\ UNCHANGED <<reply, spent, host, touched, saw>>

(* The mux calls the handler, which may refuse the request; serves it; or  *)
(* dials and sends: to a root helper that is down, or a message over the   *)
(* limit, is an error.                                                     *)
Arrive(c) ==
  /\ web[c] = "idle" /\ route[c] # None
  /\ \/ /\ Routes[route[c]].parsed
        /\ Answer(c, "rejected")
        /\ UNCHANGED helpVars
     \/ /\ IsLocal(c)
        /\ web' = [web EXCEPT ![c] = "waiting"]
        /\ Start(c)
     \/ /\ ~IsLocal(c)
        /\ Answer(c, "unavailable")
        /\ UNCHANGED helpVars
     \/ /\ ~IsLocal(c)
        /\ web' = [web EXCEPT ![c] = "waiting"]
        /\ help' = [help EXCEPT ![c] = "queued"]
        /\ UNCHANGED <<reply, at, spent, host, touched, saw, before>>
  /\ UNCHANGED <<route, age, crashes>>

(* Client.Call returns: a reply, or the end of the connection, because the *)
(* reply is larger than the limit or the root helper died.                 *)
Receive(c) ==
  /\ web[c] = "waiting"
  /\ \/ help[c] = "replied" /\ Answer(c, IF reply[c] = "large" THEN "unavailable" ELSE reply[c])
     \/ help[c] \in {"orphan", "gone"} /\ Answer(c, "unavailable")
  /\ UNCHANGED <<route, age, crashes, helpVars>>

(* Mutant of Expire: takes a call that has not answered for one refused.   *)
ExpireRefused(c) ==
  /\ web[c] = "waiting" /\ ~IsLocal(c) /\ age[c] >= Wait(c)
  /\ Answer(c, "refused")
  /\ UNCHANGED <<route, age, crashes, helpVars>>

(* The deadline of the connection passes.  The root helper is not told.    *)
Expire(c) ==
  /\ web[c] = "waiting" /\ ~IsLocal(c) /\ age[c] >= Wait(c)
  /\ Answer(c, "unavailable")
  /\ UNCHANGED <<route, age, crashes, helpVars>>

-----------------------------------------------------------------------------
(* The root helper.                                                        *)
Replied(c, v) == /\ help' = [help EXCEPT ![c] = "replied"]
                 /\ reply' = [reply EXCEPT ![c] = v]

(* handleConnection reads the request, even of a client that has gone, and *)
(* handle dispatches it: refused for want of the binary or for its body.   *)
Begin(c) ==
  /\ help[c] = "queued"
  /\ LET granted == Handler(c).helpers = {} \/ Handler(c).helpers \cap Allowed # {}
     IN  \/ /\ ~granted \/ Handler(c).checked
            /\ Replied(c, "refused")
            /\ UNCHANGED <<at, spent, host, touched, saw, before>>
         \/ granted /\ Start(c)
  /\ UNCHANGED <<route, web, age, crashes>>

(* Mutant of Left: files are not truncated.                                *)
LeftOver(c) ==
  LET old == host[Now(c).on]
  IN  CASE Now(c).do = "trunc" -> old
        [] /\ Now(c).do = "fill"
           /\ \E d \in Calls : Size[d] > Size[c] /\ old \in {d, "torn"} -> "torn"
        [] OTHER -> c

(* What a step leaves in its part: os.WriteFile writes from the beginning  *)
(* of the file, over what another call has written since it truncated it.  *)
Left(c) ==
  LET old == host[Now(c).on]
  IN  CASE Now(c).do = "trunc" -> "empty"
        [] /\ Now(c).do = "fill"
           /\ \E d \in Calls : Size[d] > Size[c] /\ old \in {d, "torn"} -> "torn"
        [] OTHER -> c
Effect(c) == /\ host' = [host EXCEPT ![Now(c).on] = Left(c)]
             /\ touched' = [touched EXCEPT ![c] = @ \cup {Now(c).on}]

(* On to a later step, with a new context if it has one of its own.        *)
Move(c, n) == /\ at' = [at EXCEPT ![c] = @ + n]
              /\ spent' = [spent EXCEPT ![c] =
                   IF at[c] + n \in DOMAIN Steps(c) /\ Steps(c)[at[c] + n].fresh THEN 0 ELSE @]

(* A step succeeds.                                                        *)
Succeed(c) ==
  /\ InStep(c)
  /\ Move(c, Now(c).ok)
  /\ IF Changing(Now(c)) THEN Effect(c) ELSE UNCHANGED <<host, touched>>
  /\ saw' = IF Now(c).do \in {"read", "ask"} /\ Now(c).on \in Parts
              THEN [saw EXCEPT ![c] = @ \cup {<<Now(c).on, host[Now(c).on]>>}] ELSE saw
  /\ UNCHANGED <<route, web, age, crashes, help, reply, before>>

(* Mutant of Fail: an error is ignored.                                    *)
FailIgnored(c) ==
  /\ InStep(c)
  /\ \/ UNCHANGED <<host, touched>>
     \/ Now(c).do = "run" /\ Effect(c)
  /\ Move(c, 1) /\ UNCHANGED <<help, reply>>
  /\ UNCHANGED <<route, web, age, crashes, saw, before>>

(* A step fails, a command perhaps after it has done its work, a write     *)
(* perhaps half done: the end of the handler, or on to an alternative.     *)
Fail(c) ==
  /\ InStep(c)
  /\ \/ UNCHANGED <<host, touched>>
     \/ Now(c).do = "run" /\ Effect(c)
     \/ Now(c).do = "fill" /\ host' = [host EXCEPT ![Now(c).on] = "torn"] /\ UNCHANGED touched
  /\ \/ 0 \in Now(c).err /\ Replied(c, "error") /\ UNCHANGED <<at, spent>>
     \/ \E n \in Now(c).err \ {0} : Move(c, n) /\ UNCHANGED <<help, reply>>
  /\ UNCHANGED <<route, web, age, crashes, saw, before>>

(* No step is left.  WriteMessage refuses a reply that is too large, which *)
(* one with the contents of a file or the output of a command may be.      *)
Finish(c) ==
  /\ help[c] = "running" /\ at[c] \notin DOMAIN Steps(c)
  /\ \/ Replied(c, "ok")
     \/ ~IsLocal(c) /\ Routes[route[c]].method = "GET" /\ Replied(c, "large")
  /\ UNCHANGED <<route, web, age, crashes, at, spent, host, touched, saw, before>>

(* The root helper dies and is started again.  Its connections break; a    *)
(* command it has started runs on.                                         *)
Crash ==
  /\ crashes < MaxCrashes /\ crashes' = crashes + 1
  /\ \E c \in Calls : help[c] \in {"queued", "running"} /\ ~IsLocal(c)
  /\ help' = [c \in Calls |->
       IF help[c] \notin {"queued", "running"} \/ IsLocal(c) THEN help[c]
       ELSE IF InStep(c) /\ Now(c).do = "run" THEN "orphan" ELSE "gone"]
  /\ UNCHANGED <<route, web, age, reply, at, spent, host, touched, saw, before>>
OrphanEnds(c) ==
  /\ help[c] = "orphan"
  /\ help' = [help EXCEPT ![c] = "gone"]
  /\ Effect(c) \/ UNCHANGED <<host, touched>>
  /\ UNCHANGED <<route, web, age, crashes, reply, at, spent, saw, before>>

(* Mutant of Expired: the time is compared with webadmin's deadline.       *)
ExpiredNever(c) == InStep(c) /\ Limit(c) > 0 /\ spent[c] > Limit(c)

(* The context of the step that is running has expired.                    *)
Expired(c) == InStep(c) /\ Limit(c) > 0 /\ spent[c] >= Limit(c)

(* Time passes for the calls under way.                                    *)
Older(t, n) == IF t < n THEN t + 1 ELSE t
Tick ==
  /\ age' = [c \in Calls |-> IF web[c] = "waiting" THEN Older(age[c], Wait(c)) ELSE age[c]]
  /\ spent' = [c \in Calls |-> IF help[c] = "running" THEN Older(spent[c], Limit(c)) ELSE spent[c]]
  /\ <<age, spent>>' # <<age, spent>>
  /\ UNCHANGED <<route, web, crashes, help, reply, at, host, touched, saw, before>>

(* Everything is answered and has ended.                                   *)
Quiet == /\ \A c \in Calls : /\ web[c] \in Answers \/ route[c] = None
                             /\ help[c] \in {"none", "replied", "gone"}
         /\ UNCHANGED vars

Work(c) == Begin(c) \/ Succeed(c) \/ Fail(c) \/ Finish(c) \/ OrphanEnds(c)
Next == Tick \/ Crash \/ Quiet \/ \E c \in Calls : Arrive(c) \/ Receive(c) \/ Expire(c) \/ Work(c)

(* Goroutines run, timers fire and system calls return; a command need not *)
(* end by itself, but one that is killed does, with all that hold its      *)
(* output.                                                                 *)
IsCommand(c) == InStep(c) /\ Now(c).do \in {"run", "ask"}
Fairness == /\ WF_vars(Tick)
            /\ \A c \in Calls :
                 /\ WF_vars(Receive(c)) /\ WF_vars(Expire(c))
                 /\ WF_vars(Begin(c) \/ Finish(c))
                 /\ WF_vars(~IsCommand(c) /\ (Succeed(c) \/ Fail(c)))
                 /\ WF_vars(Expired(c) /\ Fail(c))
Spec     == Init /\ [][Next]_vars
FairSpec == Spec /\ Fairness

-----------------------------------------------------------------------------
(* The parts whose change a handler's OK stands for: those that steps whose*)
(* error it returns have changed.                                          *)
Promised(c) == {Steps(c)[i].on : i \in {j \in DOMAIN Steps(c) : Promising(Steps(c)[j])}}
Met(c)      == route[c] # None /\ web[c] = "ok"

(* A browser that was told OK got all of the change (or the answer of a    *)
(* handler that promises none), and one that was told its request is not   *)
(* allowed or not valid changed nothing, whatever timed out, crashed or    *)
(* was killed on the way (the handlers' returns, forwardIPC's mapping).    *)
AnswerIsTrue == \A c \in Calls :
  /\ Met(c) => Promised(c) \subseteq touched[c]
  /\ web[c] \in {"refused", "rejected"} => touched[c] = {}

(* A saved change stays as a whole, a hostname in both its places, a file  *)
(* with all of its text, unless a call changed the same part that had not  *)
(* ended when this one began: one after it, one at the same time, or an    *)
(* earlier one that webadmin had given up on (hostname, timezone, and the  *)
(* files written with os.WriteFile).                                       *)
Rival(c, p) == \E d \in Calls \ {c} :
  d \notin before[c] /\ route[d] # None /\ at[d] > 0 /\ p \in {s.on : s \in Changes(route[d])}
SavedStays == \A c \in Calls : Met(c) =>
  \A p \in Promised(c) : host[p] = c \/ Rival(c, p)

(* Who reads after a save that was answered OK has ended reads what was    *)
(* saved, and never half of it, unless there is such a rival.              *)
ReadsSaved == \A c, d \in Calls : (Met(d) /\ d \in before[c]) =>
  \A r \in saw[c] : r[1] \in Promised(d) => r[2] = d \/ Rival(d, r[1])

(* The call as its client may think of it: webadmin neither retries nor    *)
(* gives an answer that turns out wrong, but one that times out may have   *)
(* been carried out, or be carried out yet.                                *)
Rpc == INSTANCE AtMostOnce WITH
  work <- [c \in Calls |-> IF at[c] = 0 THEN "none"
                            ELSE IF help[c] \in {"replied", "gone"} THEN "ended" ELSE "begun"],
  told <- [c \in Calls |-> CASE web[c] \in {"idle", "waiting"} -> "nothing"
                              [] web[c] = "ok" -> "done"
                              [] web[c] = "error" -> "error"
                              [] web[c] \in {"refused", "rejected"} -> "refused"
                              [] OTHER -> "unknown"]
ImplementsRpc == Rpc!Spec

(* Nobody waits for ever: webadmin answers every request that it forwards, *)
(* even when a command hangs or the root helper dies (the deadline of      *)
(* Client.Call), and a handler whose commands have a context ends although *)
(* a command hangs and although its client has gone.                       *)
Forwarded(c) == route[c] # None /\ ~IsLocal(c)
NothingHangs == \A c \in Calls :
  /\ (web[c] = "waiting" /\ Forwarded(c)) ~> (web[c] \in Answers)
  /\ (help[c] = "running" /\ Limit(c) > 0) ~> (help[c] # "running")
================================================================================
