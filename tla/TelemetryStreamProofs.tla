------------------------ MODULE TelemetryStreamProofs ------------------------
(***************************************************************************)
(* Proofs about TelemetryStream for any finite set of connections, any     *)
(* capacity of the stream and of the send channels.                        *)
(***************************************************************************)
EXTENDS TelemetryStream, FiniteSetTheorems, TLAPS

Pairs == Clients \X Loops

(* The goroutines that have not come to their wg.Done.                     *)
Running == {p \in Pairs : loop[p] \notin {"off", "done"}}

Counted == wg = Cardinality(Running)

Inside == {"deleted", "unregistered"}
Beyond == {"leaving", "done"}

(* A connection has goroutines from the end of its Accept on.              *)
Started(c) == \A l \in Loops : accept[c] = "serving" <=> loop[<<c, l>>] # "off"

(* removeOnce: one goroutine is inside while it is busy, none gets beyond  *)
(* remove before it is done.                                               *)
OnceOf(c) == /\ \A l \in Loops : loop[<<c, l>>] \in Inside => once[c] = "busy"
             /\ \A l \in Loops : loop[<<c, l>>] \in Beyond => once[c] = "done"
             /\ once[c] # "free" => accept[c] = "serving"
             /\ once[c] = "busy" => \E l \in Loops : loop[<<c, l>>] \in Inside
             /\ \A k, l \in Loops :
                  loop[<<c, k>>] \in Inside /\ loop[<<c, l>>] \in Inside => k = l

(* A connection is in conns from Admit until its removal begins, in the    *)
(* hub from Subscribe until Unsubscribe, and closed after its removal.     *)
BooksOf(c) == /\ c \in conns <=> /\ accept[c] \in {"admitted", "registered", "serving"}
                                 /\ once[c] = "free"
              /\ accept[c] \notin {"registered", "serving"} => c \notin registered
              /\ accept[c] \in {"registered", "serving"} /\ once[c] = "free" => c \in registered
              /\ \A l \in Loops : loop[<<c, l>>] = "unregistered" => c \notin registered
              /\ once[c] = "done" => c \notin registered /\ socket[c] = "closed"

(* The life of one connection.                                             *)
Life(c) == Started(c) /\ OnceOf(c) /\ BooksOf(c)

Lives == \A c \in Clients : Life(c)

(* What Shutdown finds stays known, and has ended when it returns nil.     *)
KnownInv == \A c \in known :
              /\ accept[c] = "serving"
              /\ shut = "drained" => \A l \in Loops : loop[<<c, l>>] = "done"

IInv == TypeOK /\ Counted /\ Lives /\ KnownInv

-----------------------------------------------------------------------------
(* What the proofs use of the assumptions about the constants.             *)
LEMMA Wiring == /\ Clients \subseteq Nat /\ IsFiniteSet(Clients)
                /\ Loops = {"read", "write"} /\ "read" \in Loops /\ "write" \in Loops
                /\ SendBuffer \in Nat \ {0}
                /\ IsFiniteSet(Pairs)
<1>1. Loops = {"read", "write"} /\ IsFiniteSet(Clients)
  BY StreamAssumption
<1>2. IsFiniteSet({"read"} \cup {"write"})
  BY FS_Singleton, FS_AddElement
<1>3. IsFiniteSet(Loops)
  <2>1. Loops = {"read"} \cup {"write"}
    BY <1>1
  <2> QED
    BY <1>2, <2>1
<1>4. IsFiniteSet(Pairs)
  BY <1>1, <1>3, FS_Product DEF Pairs
<1> QED
  BY <1>1, <1>4, StreamAssumption

(* The goroutines under way are finitely many.                             *)
LEMMA RunningFinite == IsFiniteSet(Running) /\ Cardinality(Running) \in Nat
  BY Wiring, FS_Subset, FS_CardinalityType DEF Running

(* A move of one goroutine leaves the others where they are.               *)
LEMMA OneMoves ==
  ASSUME TypeOK, NEW c \in Clients, NEW l \in Loops, NEW from, NEW to, Goes(c, l, from, to)
  PROVE  /\ loop[<<c, l>>] = from /\ loop'[<<c, l>>] = to
         /\ \A d \in Clients : \A m \in Loops :
              d # c \/ m # l => loop'[<<d, m>>] = loop[<<d, m>>]
  BY DEF Goes, TypeOK

(* Moves within the bodies of the loops, up to the call of remove.         *)
Body == {"loop", "frame", "removing"}
InBody(c, l) == /\ \E from, to \in Body : Goes(c, l, from, to)
                /\ UNCHANGED <<socket, registered, books, ends>>

(* Steps of clients and writers that neither the books nor the goroutines' *)
(* places record.                                                          *)
Aside == /\ UNCHANGED <<registered, books, loop, ends>>
         /\ \A c \in Clients : socket[c] = "closed" => socket'[c] = "closed"

(* What the steps of the stream do to the books and the goroutines.        *)
LEMMA Steps ==
  ASSUME TypeOK, [Next]_vars
  PROVE  \/ Aside
         \/ \E c \in Clients : Refuse(c) \/ Admit(c) \/ Subscribe(c) \/ Start(c)
         \/ \E c \in Clients : \E l \in Loops :
              \/ InBody(c, l) \/ Delete(c, l) \/ RemovedBefore(c, l)
              \/ Unsubscribe(c, l) \/ SayGoodbye(c, l) \/ Done(c, l)
         \/ Flag \/ CloseStopCh \/ ForceClose \/ Waited
<1> USE Wiring DEF wsVars, hubVars
<1>1. ASSUME NEW c \in Clients, PeerLeaves(c) PROVE Aside
  BY <1>1 DEF PeerLeaves, Aside, TypeOK, WsTypeOK
<1>2. ASSUME NEW c \in Clients, ReadEnds(c) PROVE InBody(c, "read")
  BY <1>2 DEF ReadEnds, InBody, Body
<1>3. ASSUME NEW c \in Clients, Pinged(c) PROVE InBody(c, "read")
  BY <1>3 DEF Pinged, InBody, Body
<1>4. ASSUME NEW c \in Clients, Take(c) PROVE InBody(c, "write")
  BY <1>4 DEF Take, Receive, InBody, Body
<1>5. ASSUME NEW c \in Clients, Tick(c) PROVE InBody(c, "write")
  BY <1>5 DEF Tick, InBody, Body
<1>6. ASSUME NEW c \in Clients, ClientTimeout(c) \/ Stop(c) PROVE InBody(c, "write")
  BY <1>6 DEF ClientTimeout, Stop, InBody, Body
<1>7. ASSUME NEW c \in Clients, NEW l \in Loops, Lock(c, l) PROVE Aside \/ InBody(c, l)
  <2>1. CASE BeginWrite(c, l) /\ UNCHANGED loop
    BY <1>7, <2>1 DEF Lock, BeginWrite, Aside
  <2>2. CASE CannotWrite(c) /\ (Goes(c, l, "frame", "removing") \/ Goes(c, l, "frame", "loop"))
    BY <1>7, <2>2 DEF Lock, CannotWrite, InBody, Body
  <2> QED
    BY <1>7, <2>1, <2>2 DEF Lock
<1>8. ASSUME NEW c \in Clients, NEW l \in Loops, Written(c, l) PROVE InBody(c, l)
  <2>1. PICK ok \in BOOLEAN : /\ EndWrite(c, l, ok)
                              /\ Goes(c, l, "frame", IF ok THEN "loop" ELSE "removing")
    BY <1>8 DEF Written
  <2>2. (IF ok THEN "loop" ELSE "removing") \in Body
    BY DEF Body
  <2> QED
    BY <1>8, <2>1, <2>2 DEF Written, EndWrite, InBody, Body
<1>9. ASSUME Publish \/ Quiet \/ UNCHANGED vars PROVE Aside
  BY <1>9 DEF Publish, Broadcast, Quiet, vars, Aside
<1> QED
  BY <1>1, <1>2, <1>3, <1>4, <1>5, <1>6, <1>7, <1>8, <1>9 DEF Next, Accepting, Working, Shutdown

-----------------------------------------------------------------------------
(* The wait group counts the goroutines under way: Start adds both, Done   *)
(* takes one off, and no other step starts or ends one.                    *)
LEMMA CountedStep ==
  ASSUME TypeOK, Counted, Lives, [Next]_vars
  PROVE  Counted'
<1> USE Wiring
<1>1. ASSUME UNCHANGED <<loop, wg>> PROVE Counted'
  BY <1>1 DEF Counted, Running
<1>2. ASSUME NEW c \in Clients, NEW l \in Loops, NEW from, NEW to,
             Goes(c, l, from, to), UNCHANGED wg,
             from \notin {"off", "done"}, to \notin {"off", "done"}
      PROVE  Counted'
  <2>1. Running' = Running
    BY <1>2 DEF Running, Pairs, Goes, TypeOK
  <2> QED
    BY <1>2, <2>1 DEF Counted
<1>3. ASSUME NEW c \in Clients, Start(c) PROVE Counted'
  <2>1. /\ Running' = (Running \cup {<<c, "read">>}) \cup {<<c, "write">>}
        /\ <<c, "read">> \notin Running /\ <<c, "write">> \notin Running \cup {<<c, "read">>}
    BY <1>3 DEF Start, Lives, Life, Started, Running, Pairs, TypeOK
  <2>2. /\ IsFiniteSet(Running \cup {<<c, "read">>})
        /\ Cardinality(Running \cup {<<c, "read">>}) = Cardinality(Running) + 1
    BY <2>1, RunningFinite, FS_AddElement
  <2>3. Cardinality(Running') = Cardinality(Running \cup {<<c, "read">>}) + 1
    BY <2>1, <2>2, FS_AddElement
  <2> QED
    BY <1>3, <2>2, <2>3, RunningFinite DEF Start, Counted
<1>4. ASSUME NEW c \in Clients, NEW l \in Loops, Done(c, l) PROVE Counted'
  <2>1. Running' = Running \ {<<c, l>>} /\ <<c, l>> \in Running
    BY <1>4 DEF Done, Goes, Running, Pairs, TypeOK
  <2>2. Cardinality(Running') = Cardinality(Running) - 1
    BY <2>1, RunningFinite, FS_RemoveElement
  <2> QED
    BY <1>4, <2>2 DEF Done, Counted
<1>5. ASSUME NEW c \in Clients, Refuse(c) \/ Admit(c) \/ Subscribe(c)
      PROVE  Counted'
  BY <1>1, <1>5 DEF Refuse, Admit, Subscribe, ends
<1>6. ASSUME NEW c \in Clients, NEW l \in Loops,
             InBody(c, l) \/ Delete(c, l) \/ RemovedBefore(c, l)
               \/ Unsubscribe(c, l) \/ SayGoodbye(c, l)
      PROVE  Counted'
  BY <1>2, <1>6 DEF InBody, Body, Delete, RemovedBefore, Unsubscribe, SayGoodbye, ends
<1>7. ASSUME Aside \/ Flag \/ CloseStopCh \/ ForceClose \/ Waited PROVE Counted'
  BY <1>1, <1>7 DEF Aside, Flag, CloseStopCh, ForceClose, Waited, ends
<1> QED
  BY Steps, <1>3, <1>4, <1>5, <1>6, <1>7

(* A connection that a step leaves alone keeps its life.                   *)
LEMMA LeftAlone ==
  ASSUME NEW d \in Clients, Life(d),
         accept'[d] = accept[d], once'[d] = once[d],
         d \in conns' <=> d \in conns, d \in registered' <=> d \in registered,
         socket[d] = "closed" => socket'[d] = "closed",
         \A m \in Loops : loop'[<<d, m>>] = loop[<<d, m>>]
  PROVE  Life(d)'
<1>1. Started(d)'
  BY DEF Life, Started
<1>2. OnceOf(d)'
  BY DEF Life, OnceOf
<1>3. BooksOf(d)'
  BY DEF Life, BooksOf
<1> QED
  BY <1>1, <1>2, <1>3 DEF Life

(* Accept takes a connection from the arrival to its two goroutines.       *)
LEMMA LivesAccept ==
  ASSUME TypeOK, Lives, NEW c \in Clients, Refuse(c) \/ Admit(c) \/ Subscribe(c) \/ Start(c)
  PROVE  Lives'
<1> USE Wiring DEF Lives
<1>1. ASSUME NEW d \in Clients \ {c} PROVE Life(d)'
  <2>1. Life(d) /\ d \in Clients
    BY <1>1
  <2>2. CASE Refuse(c)
    BY <2>1, <2>2, <1>1, LeftAlone DEF Refuse, TypeOK, WsTypeOK, hubVars
  <2>3. CASE Admit(c)
    BY <2>1, <2>3, <1>1, LeftAlone DEF Admit, TypeOK, wsVars, hubVars
  <2>4. CASE Subscribe(c)
    BY <2>1, <2>4, <1>1, LeftAlone DEF Subscribe, Register, TypeOK, wsVars
  <2>5. CASE Start(c)
    BY <2>1, <2>5, <1>1, LeftAlone DEF Start, TypeOK, wsVars, hubVars
  <2> QED
    BY <2>2, <2>3, <2>4, <2>5
<1>2. Life(c)'
  <2>1. Life(c) /\ accept[c] # "serving"
    BY DEF Refuse, Arrives, Admit, Subscribe, Start
  <2>2. once[c] = "free" /\ \A l \in Loops : loop[<<c, l>>] = "off"
    BY <2>1 DEF Life, Started, OnceOf, TypeOK
  <2>3. CASE Refuse(c)
    BY <2>1, <2>2, <2>3
       DEF Refuse, Arrives, TypeOK, hubVars, Life, Started, OnceOf, BooksOf, Inside, Beyond
  <2>4. CASE Admit(c)
    BY <2>1, <2>2, <2>4
       DEF Admit, Arrives, TypeOK, hubVars, Life, Started, OnceOf, BooksOf, Inside, Beyond
  <2>5. CASE Subscribe(c)
    BY <2>1, <2>2, <2>5
       DEF Subscribe, Register, TypeOK, Life, Started, OnceOf, BooksOf, Inside, Beyond
  <2>6. CASE Start(c)
    <3>1. /\ accept'[c] = "serving" /\ once'[c] = "free" /\ conns' = conns
          /\ registered' = registered
          /\ \A l \in Loops : loop'[<<c, l>>] = "loop"
      BY <2>2, <2>6 DEF Start, TypeOK, hubVars
    <3>2. c \in conns /\ c \in registered
      BY <2>1, <2>2, <2>6 DEF Start, Life, BooksOf
    <3> QED
      BY <3>1, <3>2 DEF Life, Started, OnceOf, BooksOf, Inside, Beyond
  <2> QED
    BY <2>3, <2>4, <2>5, <2>6
<1> QED
  BY <1>1, <1>2

(* The goroutines of a connection take it through the body of its loops,   *)
(* remove and wg.Done.                                                     *)
LEMMA LivesLoop ==
  ASSUME TypeOK, Lives, NEW c \in Clients, NEW l \in Loops,
         \/ InBody(c, l) \/ Delete(c, l) \/ RemovedBefore(c, l)
         \/ Unsubscribe(c, l) \/ SayGoodbye(c, l) \/ Done(c, l)
  PROVE  Lives'
<1> USE Wiring DEF Lives
<1>m. ASSUME NEW from, NEW to, Goes(c, l, from, to)
      PROVE  /\ loop[<<c, l>>] = from /\ loop'[<<c, l>>] = to
             /\ \A d \in Clients : \A m \in Loops :
                  d # c \/ m # l => loop'[<<d, m>>] = loop[<<d, m>>]
  BY <1>m, OneMoves
<1>1. ASSUME NEW d \in Clients \ {c} PROVE Life(d)'
  <2>1. Life(d) /\ d \in Clients /\ \A m \in Loops : loop'[<<d, m>>] = loop[<<d, m>>]
    BY <1>1, <1>m DEF InBody, Delete, RemovedBefore, Unsubscribe, SayGoodbye, Done
  <2>2. /\ accept'[d] = accept[d] /\ once'[d] = once[d]
        /\ d \in conns' <=> d \in conns
        /\ d \in registered' <=> d \in registered
        /\ socket[d] = "closed" => socket'[d] = "closed"
    <3>1. CASE InBody(c, l)
      BY <3>1 DEF InBody, books
    <3>2. CASE Delete(c, l)
      BY <3>2, <1>1 DEF Delete, TypeOK, wsVars, hubVars
    <3>3. CASE RemovedBefore(c, l) \/ Done(c, l)
      BY <3>3 DEF RemovedBefore, Done, wsVars, hubVars, books
    <3>4. CASE Unsubscribe(c, l)
      BY <3>4, <1>1 DEF Unsubscribe, Unregister, wsVars, books
    <3>5. CASE SayGoodbye(c, l)
      BY <3>5, <1>1 DEF SayGoodbye, WriteClose, TypeOK, WsTypeOK, hubVars
    <3> QED
      BY <3>1, <3>2, <3>3, <3>4, <3>5
  <2> QED
    BY <2>1, <2>2, LeftAlone
<1>2. Life(c)'
  <2> USE DEF Life, Started, OnceOf, BooksOf, Inside, Beyond
  <2>1. Life(c)
    OBVIOUS
  <2>2. CASE InBody(c, l)
    BY <2>1, <2>2, <1>m DEF InBody, Body, books
  <2>3. CASE Delete(c, l)
    BY <2>1, <2>3, <1>m DEF Delete, TypeOK, wsVars, hubVars
  <2>4. CASE RemovedBefore(c, l)
    BY <2>1, <2>4, <1>m DEF RemovedBefore, wsVars, hubVars, books
  <2>5. CASE Unsubscribe(c, l)
    BY <2>1, <2>5, <1>m DEF Unsubscribe, Unregister, wsVars, books
  <2>6. CASE SayGoodbye(c, l)
    BY <2>1, <2>6, <1>m DEF SayGoodbye, WriteClose, TypeOK, WsTypeOK, hubVars
  <2>7. CASE Done(c, l)
    BY <2>1, <2>7, <1>m DEF Done, wsVars, hubVars, books
  <2> QED
    BY <2>2, <2>3, <2>4, <2>5, <2>6, <2>7
<1> QED
  BY <1>1, <1>2

(* Every connection keeps its life in every step.                          *)
LEMMA LivesStep ==
  ASSUME TypeOK, Lives, [Next]_vars
  PROVE  Lives'
<1>1. ASSUME Aside \/ Flag \/ CloseStopCh \/ Waited PROVE Lives'
  <2> SUFFICES ASSUME NEW d \in Clients PROVE Life(d)'
    BY DEF Lives
  <2>1. Life(d)
    BY DEF Lives
  <2>2. UNCHANGED <<accept, once, conns, registered, loop>>
    BY <1>1 DEF Aside, Flag, CloseStopCh, Waited, books, hubVars
  <2>3. socket[d] = "closed" => socket'[d] = "closed"
    BY <1>1 DEF Aside, Flag, CloseStopCh, Waited, wsVars
  <2> QED
    BY <2>1, <2>2, <2>3, LeftAlone
<1>2. CASE ForceClose
  <2> SUFFICES ASSUME NEW d \in Clients PROVE Life(d)'
    BY DEF Lives
  <2>1. Life(d)
    BY DEF Lives
  <2>2. UNCHANGED <<accept, once, conns, registered, loop>>
    BY <1>2 DEF ForceClose, books, hubVars
  <2>3. socket[d] = "closed" => socket'[d] = "closed"
    BY <1>2 DEF ForceClose
  <2> QED
    BY <2>1, <2>2, <2>3, LeftAlone
<1> QED
  BY Steps, LivesAccept, LivesLoop, <1>1, <1>2

-----------------------------------------------------------------------------
(* When the counter of the wait group is zero, whoever has goroutines has  *)
(* seen them end.                                                          *)
LEMMA ZeroMeansEnded ==
  ASSUME TypeOK, Counted, Lives, wg = 0, NEW c \in Clients, accept[c] = "serving", NEW l \in Loops
  PROVE  loop[<<c, l>>] = "done"
<1>1. Running = {}
  BY RunningFinite, FS_EmptySet DEF Counted
<1>2. loop[<<c, l>>] \in {"off", "done"}
  BY <1>1 DEF Running, Pairs
<1>3. loop[<<c, l>>] # "off"
  BY DEF Lives, Life, Started
<1> QED
  BY <1>2, <1>3

(* Connections stay accepted, goroutines stay ended, and Shutdown waits    *)
(* for those it knows.                                                     *)
LEMMA KnownStep ==
  ASSUME TypeOK, Counted, Lives, KnownInv, [Next]_vars
  PROVE  KnownInv'
<1> USE DEF KnownInv
<1>m. ASSUME NEW c \in Clients, NEW l \in Loops, NEW from, NEW to, Goes(c, l, from, to)
      PROVE  /\ loop[<<c, l>>] = from /\ loop'[<<c, l>>] = to
             /\ \A d \in Clients : \A m \in Loops :
                  d # c \/ m # l => loop'[<<d, m>>] = loop[<<d, m>>]
  BY <1>m, OneMoves
<1>k. known \subseteq Clients
  BY DEF TypeOK
<1>1. ASSUME UNCHANGED <<accept, loop, known>>, shut' = "drained" => shut = "drained"
      PROVE  KnownInv'
  BY <1>1
<1>2. ASSUME NEW c \in Clients, Refuse(c) \/ Admit(c) \/ Subscribe(c) \/ Start(c)
      PROVE  KnownInv'
  <2>1. accept[c] # "serving"
    BY <1>2 DEF Refuse, Arrives, Admit, Subscribe, Start
  <2>2. /\ UNCHANGED <<known, shut>>
        /\ \A d \in Clients \ {c} : accept'[d] = accept[d]
        /\ \A d \in Clients \ {c} : \A l \in Loops : loop'[<<d, l>>] = loop[<<d, l>>]
    BY <1>2 DEF Refuse, Admit, Subscribe, Start, TypeOK, ends
  <2>3. c \notin known
    BY <2>1
  <2>4. \A d \in known' : /\ d \in known /\ accept'[d] = accept[d] /\ shut' = shut
                         /\ \A l \in Loops : loop'[<<d, l>>] = loop[<<d, l>>]
    BY <1>k, <2>2, <2>3
  <2>5. ASSUME NEW d \in known'
        PROVE  accept'[d] = "serving" /\ (shut' = "drained" => \A l \in Loops : loop'[<<d, l>>] = "done")
    BY <2>4, <2>5
  <2> QED
    BY <2>5
<1>3. ASSUME NEW c \in Clients, NEW l \in Loops,
             \/ InBody(c, l) \/ Delete(c, l) \/ RemovedBefore(c, l)
             \/ Unsubscribe(c, l) \/ SayGoodbye(c, l) \/ Done(c, l)
      PROVE  KnownInv'
  <2>1. UNCHANGED <<accept, known, shut>>
    BY <1>3 DEF InBody, Delete, RemovedBefore, Unsubscribe, SayGoodbye, Done, books, ends
  <2>2. ASSUME NEW from, NEW to, Goes(c, l, from, to), from # "done"
        PROVE  \A d \in Clients : \A m \in Loops :
                 loop[<<d, m>>] = "done" => loop'[<<d, m>>] = "done"
    <3>1. /\ loop[<<c, l>>] = from /\ loop'[<<c, l>>] = to
          /\ \A d \in Clients : \A m \in Loops :
               d # c \/ m # l => loop'[<<d, m>>] = loop[<<d, m>>]
      BY <2>2, <1>m
    <3> QED
      BY <2>2, <3>1
  <2>3. \A d \in Clients : \A m \in Loops : loop[<<d, m>>] = "done" => loop'[<<d, m>>] = "done"
    BY <1>3, <2>2 DEF InBody, Body, Delete, RemovedBefore, Unsubscribe, SayGoodbye, Done
  <2> QED
    BY <1>k, <2>1, <2>3
<1>4. CASE Flag
  BY <1>4 DEF Flag, books
<1>5. CASE Waited
  <2>1. UNCHANGED <<accept, loop, known>>
    BY <1>5 DEF Waited, books, ends
  <2>2. CASE wg = 0
    <3>1. \A c \in known : accept[c] = "serving" /\ \A l \in Loops : loop[<<c, l>>] = "done"
      BY <1>k, <2>2, ZeroMeansEnded
    <3> QED
      BY <2>1, <3>1
  <2>3. CASE wg # 0
    BY <1>5, <2>1, <2>3 DEF Waited
  <2> QED
    BY <2>2, <2>3
<1>6. ASSUME Aside \/ CloseStopCh \/ ForceClose PROVE KnownInv'
  BY <1>1, <1>6 DEF Aside, CloseStopCh, ForceClose, books, ends
<1> QED
  BY Steps, <1>2, <1>3, <1>4, <1>5, <1>6

-----------------------------------------------------------------------------
(* Every step keeps the variables' types; that the wait group's counter    *)
(* does not go below zero is Counted.                                      *)
LEMMA TypeStep ==
  ASSUME TypeOK, Counted, Lives, [Next]_vars
  PROVE  TypeOK'
<1> USE Wiring DEF TypeOK, WsTypeOK, HubTypeOK
<1>w. wg' \in Nat
  <2>1. IsFiniteSet(Running') /\ Cardinality(Running') \in Nat
    BY FS_Subset, FS_CardinalityType DEF Running
  <2> QED
    BY <2>1, CountedStep DEF Counted
<1>g. ASSUME NEW c \in Clients, NEW l \in Loops, NEW from,
             NEW to \in {"loop", "frame", "removing", "deleted", "unregistered", "leaving", "done"},
             Goes(c, l, from, to)
      PROVE  loop' \in [Clients \X Loops -> {"off", "loop", "frame", "removing", "deleted",
                                             "unregistered", "leaving", "done"}]
  BY <1>g DEF Goes
<1>1. ASSUME NEW c \in Clients, Refuse(c) \/ Admit(c) PROVE TypeOK'
  BY <1>1 DEF Refuse, Admit, wsVars, hubVars, ends
<1>2. ASSUME NEW c \in Clients, Subscribe(c) PROVE TypeOK'
  BY <1>2 DEF Subscribe, Register, wsVars, ends
<1>3. ASSUME NEW c \in Clients, Start(c) PROVE TypeOK'
  BY <1>3, <1>w DEF Start, wsVars, hubVars
<1>4. ASSUME NEW c \in Clients, PeerLeaves(c) PROVE TypeOK'
  BY <1>4 DEF PeerLeaves, hubVars, books, ends
<1>5. ASSUME NEW c \in Clients, NEW l \in Loops,
             ReadEnds(c) \/ Pinged(c) \/ Tick(c) \/ ClientTimeout(c) \/ Stop(c)
      PROVE  TypeOK'
  BY <1>5, <1>g DEF ReadEnds, Pinged, Tick, ClientTimeout, Stop, wsVars, hubVars, books, ends
<1>6. ASSUME NEW c \in Clients, Take(c) PROVE TypeOK'
  <2>1. sendCh' \in [Clients -> 0..SendBuffer]
    <3>1. sendCh' = [sendCh EXCEPT ![c] = sendCh[c] - 1] /\ sendCh[c] > 0
      BY <1>6 DEF Take, Receive
    <3>2. sendCh \in [Clients -> 0..SendBuffer] /\ sendCh[c] \in 0..SendBuffer
      OBVIOUS
    <3>3. sendCh[c] - 1 \in 0..SendBuffer
      BY <3>1, <3>2, Wiring
    <3> QED
      BY <3>1, <3>2, <3>3
  <2>2. loop' \in [Clients \X Loops -> {"off", "loop", "frame", "removing", "deleted",
                                       "unregistered", "leaving", "done"}]
    BY <1>6, <1>g DEF Take
  <2>3. UNCHANGED <<wsVars, registered, books, ends>>
    BY <1>6 DEF Take, Receive
  <2> QED
    BY <2>1, <2>2, <2>3 DEF wsVars, books, ends
<1>7. ASSUME NEW c \in Clients, NEW l \in Loops, Lock(c, l) PROVE TypeOK'
  <2>1. CASE BeginWrite(c, l) /\ UNCHANGED loop
    BY <1>7, <2>1 DEF Lock, BeginWrite, hubVars, books, ends
  <2>2. CASE CannotWrite(c) /\ (Goes(c, l, "frame", "removing") \/ Goes(c, l, "frame", "loop"))
    BY <1>7, <1>g, <2>2 DEF Lock, CannotWrite, wsVars, hubVars, books, ends
  <2> QED
    BY <1>7, <2>1, <2>2 DEF Lock
<1>8. ASSUME NEW c \in Clients, NEW l \in Loops, Written(c, l) PROVE TypeOK'
  <2>1. PICK ok \in BOOLEAN : /\ EndWrite(c, l, ok)
                              /\ Goes(c, l, "frame", IF ok THEN "loop" ELSE "removing")
    BY <1>8 DEF Written
  <2>2. Goes(c, l, "frame", "loop") \/ Goes(c, l, "frame", "removing")
    BY <2>1
  <2> QED
    BY <1>8, <1>g, <2>1, <2>2 DEF Written, EndWrite, hubVars, books, ends
<1>9. ASSUME NEW c \in Clients, NEW l \in Loops, Delete(c, l) \/ RemovedBefore(c, l) PROVE TypeOK'
  BY <1>9, <1>g DEF Delete, RemovedBefore, wsVars, hubVars, books, ends
<1>10. ASSUME NEW c \in Clients, NEW l \in Loops, Unsubscribe(c, l) PROVE TypeOK'
  BY <1>10, <1>g DEF Unsubscribe, Unregister, wsVars, books, ends
<1>11. ASSUME NEW c \in Clients, NEW l \in Loops, SayGoodbye(c, l) PROVE TypeOK'
  BY <1>11, <1>g DEF SayGoodbye, WriteClose, hubVars, ends
<1>12. ASSUME NEW c \in Clients, NEW l \in Loops, Done(c, l) PROVE TypeOK'
  BY <1>12, <1>g, <1>w DEF Done, wsVars, hubVars, books
<1>13. CASE Publish
  BY <1>13 DEF Publish, Broadcast, wsVars, books, ends
<1>14. CASE Flag \/ CloseStopCh \/ ForceClose \/ Waited
  BY <1>14 DEF Flag, CloseStopCh, ForceClose, Waited, wsVars, hubVars, books, ends
<1>15. CASE Quiet \/ UNCHANGED vars
  BY <1>15 DEF Quiet, vars, wsVars, hubVars, books, ends
<1> QED
  BY <1>1, <1>2, <1>3, <1>4, <1>5, <1>6, <1>7, <1>8, <1>9, <1>10, <1>11, <1>12, <1>13, <1>14, <1>15
     DEF Next, Accepting, Working, Shutdown

(* The stream starts without connections and goroutines.                   *)
LEMMA Initially == Init => IInv
<1> SUFFICES ASSUME Init PROVE IInv
  OBVIOUS
<1> USE Wiring DEF Init, WsInit, HubInit
<1>1. TypeOK
  BY DEF TypeOK, WsTypeOK, HubTypeOK
<1>2. Counted
  <2>1. Running = {}
    BY DEF Running, Pairs
  <2> QED
    BY <2>1, FS_EmptySet DEF Counted
<1>3. Lives
  BY DEF Lives, Life, Started, OnceOf, BooksOf, Inside, Beyond
<1>4. KnownInv
  BY DEF KnownInv
<1> QED
  BY <1>1, <1>2, <1>3, <1>4 DEF IInv

(* The inductive invariant.                                                *)
THEOREM Inductive == Spec => []IInv
<1>1. IInv /\ [Next]_vars => IInv'
  BY TypeStep, CountedStep, LivesStep, KnownStep DEF IInv
<1> QED
  BY Initially, <1>1, PTL DEF Spec

(* Every variable keeps the values the code can give it, and no step of    *)
(* the goroutines makes the wait group panic.                              *)
THEOREM Typing == Spec => []TypeOK
<1>1. IInv => TypeOK
  BY DEF IInv
<1> QED
  BY Inductive, <1>1, PTL

(* Stream and hub differ only by an Accept or a removal under way, and     *)
(* whatever is in either will be taken out.                                *)
THEOREM BooksAgree == Spec => []Accounted
<1>1. IInv => Accounted
  <2> SUFFICES ASSUME IInv, NEW c \in Clients
               PROVE  /\ c \in conns \ registered => accept[c] = "admitted"
                      /\ c \in registered \ conns => \E l \in Loops : loop[<<c, l>>] = "deleted"
                      /\ c \in conns => \/ accept[c] \in {"admitted", "registered"}
                                        \/ \A l \in Loops :
                                             loop[<<c, l>>] \notin {"off", "leaving", "done"}
    BY DEF Accounted
  <2>1. TypeOK /\ Life(c)
    BY DEF IInv, Lives
  <2>2. c \in conns \ registered => accept[c] = "admitted"
    BY <2>1 DEF Life, BooksOf
  <2>3. ASSUME c \in registered \ conns PROVE \E l \in Loops : loop[<<c, l>>] = "deleted"
    <3>1. once[c] = "busy"
      BY <2>1, <2>3 DEF Life, BooksOf, TypeOK
    <3>2. PICK l \in Loops : loop[<<c, l>>] \in {"deleted", "unregistered"}
      BY <2>1, <3>1 DEF Life, OnceOf, Inside
    <3>3. loop[<<c, l>>] # "unregistered"
      BY <2>1, <2>3 DEF Life, BooksOf
    <3> QED
      BY <3>2, <3>3
  <2>4. ASSUME c \in conns, accept[c] \notin {"admitted", "registered"}, NEW l \in Loops
        PROVE  loop[<<c, l>>] \notin {"off", "leaving", "done"}
    <3>1. accept[c] = "serving" /\ once[c] = "free"
      BY <2>1, <2>4 DEF Life, BooksOf
    <3>2. loop[<<c, l>>] # "off"
      BY <2>1, <3>1 DEF Life, Started
    <3>3. loop[<<c, l>>] \notin {"leaving", "done"}
      BY <2>1, <3>1 DEF Life, OnceOf, Beyond
    <3> QED
      BY <3>2, <3>3
  <2> QED
    BY <2>2, <2>3, <2>4
<1> QED
  BY Inductive, <1>1, PTL

(* A Shutdown that returns nil has ended every connection whose Accept had *)
(* returned when it was called.                                            *)
THEOREM Drains == Spec => []ShutdownDrains
<1>1. IInv => ShutdownDrains
  <2> SUFFICES ASSUME IInv, shut = "drained", NEW c \in known
               PROVE  /\ \A l \in Loops : loop[<<c, l>>] = "done"
                      /\ c \notin conns \cup registered
                      /\ socket[c] = "closed"
    BY DEF ShutdownDrains
  <2>1. c \in Clients /\ \A l \in Loops : loop[<<c, l>>] = "done"
    BY DEF IInv, KnownInv, TypeOK
  <2>2. Life(c)
    BY <2>1 DEF IInv, Lives
  <2>3. once[c] = "done"
    BY <2>1, <2>2, Wiring DEF Life, OnceOf, Beyond
  <2> QED
    BY <2>1, <2>2, <2>3 DEF Life, BooksOf
<1> QED
  BY Inductive, <1>1, PTL
=============================================================================
