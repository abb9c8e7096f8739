--------------------------- MODULE TelemetryStream ---------------------------
(***************************************************************************)
(* The connections of src/pkg/telemetry/stream.go: Accept, the read and    *)
(* the write loop of each connection, their common removal and Shutdown,   *)
(* over the hub of hub.go and the connections of pkg/ws.                   *)
(*                                                                         *)
(* loop is where the two goroutines of a connection are: "loop" waits in   *)
(* ReadMessage or in the select; "frame" has one to write; then remove,    *)
(* which both defer and one of them does: "removing" calls it, "deleted"   *)
(* and "unregistered" are inside, "leaving" is on its way to wg.Done.      *)
(* Read and client timeouts may pass at any moment.                        *)
(***************************************************************************)
EXTENDS Integers, FiniteSets, WsConn

CONSTANTS
  SendBuffer,  \* StreamConfig.SendBuffer
  MaxConns     \* StreamConfig.MaxConns

ASSUME StreamAssumption == /\ Clients \subseteq Nat /\ IsFiniteSet(Clients)
                           /\ Loops = {"read", "write"}
                           /\ Nobody \notin Loops
                           /\ SendBuffer \in Nat \ {0}
                           /\ MaxConns \in Nat

VARIABLES
  registered, sendCh,  \* the hub's, see Hub
  accept,   \* where the Accept of each connection is
  conns,    \* Stream.conns
  loop,     \* where the goroutines of each connection are
  once,     \* streamConn.removeOnce
  wg,       \* the counter of Stream.wg
  shut,     \* where Shutdown is; anything but "none" means Stream.closed
  toClose,  \* Shutdown's copy of conns, while it has one
  known     \* history: the connections accepted when Shutdown began

INSTANCE Hub WITH Subscribers <- Clients

hubVars == <<registered, sendCh>>
books == <<accept, conns, once>>
ends  == <<wg, shut, toClose, known>>
vars  == <<wsVars, hubVars, books, loop, ends>>

Stopped == shut \notin {"none", "flagged"}

Init == /\ WsInit
        /\ HubInit
        /\ accept = [c \in Clients |-> "new"]
        /\ conns = {}
        /\ loop = [p \in Clients \X Loops |-> "off"]
        /\ once = [c \in Clients |-> "free"]
        /\ wg = 0
        /\ shut = "none"
        /\ toClose = {}
        /\ known = {}

-----------------------------------------------------------------------------
(* Connections are numbered as they arrive.                                *)
Arrives(c) == /\ accept[c] = "new"
              /\ \A d \in Clients : d < c => accept[d] # "new"

(* Accept while closed or at capacity. *)
Refuse(c) == /\ Arrives(c)
             /\ shut # "none" \/ Cardinality(conns) >= MaxConns
             /\ accept' = [accept EXCEPT ![c] = "refused"]
             /\ socket' = [socket EXCEPT ![c] = "closed"]
             /\ UNCHANGED <<closed, writer, hubVars, conns, once, loop, ends>>

(* The critical section of Accept. *)
Admit(c) == /\ Arrives(c)
            /\ shut = "none"
            /\ Cardinality(conns) < MaxConns
            /\ accept' = [accept EXCEPT ![c] = "admitted"]
            /\ conns' = conns \cup {c}
            /\ UNCHANGED <<wsVars, hubVars, once, loop, ends>>

Subscribe(c) == /\ accept[c] = "admitted"
                /\ Register(c)
                /\ accept' = [accept EXCEPT ![c] = "registered"]
                /\ UNCHANGED <<wsVars, conns, once, loop, ends>>

(* Mutant of Start: one wg.Add for two goroutines.                         *)
StartCountsOne(c) ==
  /\ accept[c] = "registered"
  /\ accept' = [accept EXCEPT ![c] = "serving"]
  /\ wg' = wg + 1
  /\ loop' = [p \in Clients \X Loops |-> IF p[1] = c THEN "loop" ELSE loop[p]]
  /\ UNCHANGED <<wsVars, hubVars, conns, once, shut, toClose, known>>

(* wg.Add(2) and the two go statements; Accept returns true. *)
Start(c) == /\ accept[c] = "registered"
            /\ accept' = [accept EXCEPT ![c] = "serving"]
            /\ wg' = wg + 2
            /\ loop' = [p \in Clients \X Loops |-> IF p[1] = c THEN "loop" ELSE loop[p]]
            /\ UNCHANGED <<wsVars, hubVars, conns, once, shut, toClose, known>>

-----------------------------------------------------------------------------
Goes(c, l, from, to) == /\ loop[<<c, l>>] = from
                        /\ loop' = [loop EXCEPT ![<<c, l>>] = to]

PeerLeaves(c) == /\ accept[c] # "new" /\ socket[c] = "open"
                 /\ socket' = [socket EXCEPT ![c] = "gone"]
                 /\ UNCHANGED <<closed, writer, hubVars, books, loop, ends>>

(* ReadMessage fails: end of file, a close frame, a bad frame, the read    *)
(* deadline; or stopCh is closed.                                          *)
ReadEnds(c) == /\ Goes(c, "read", "loop", "removing")
               /\ UNCHANGED <<wsVars, hubVars, books, ends>>

(* A ping is answered inside ReadMessage.  Pings that a lost peer has left *)
(* in the buffer are not modelled.                                         *)
Pinged(c) == /\ socket[c] = "open"
             /\ Goes(c, "read", "loop", "frame")
             /\ UNCHANGED <<wsVars, hubVars, books, ends>>

(* The write loop's select: a message, the ticker, stopCh. *)
Take(c) == /\ Receive(c)
           /\ Goes(c, "write", "loop", "frame")
           /\ UNCHANGED <<wsVars, books, ends>>

Tick(c) == /\ Goes(c, "write", "loop", "frame")
           /\ UNCHANGED <<wsVars, hubVars, books, ends>>

(* Mutant of ClientTimeout: misses the return and goes on to the ping.     *)
ClientTimeoutPings(c) == /\ Goes(c, "write", "loop", "frame")
                         /\ UNCHANGED <<wsVars, hubVars, books, ends>>

(* lastPong is older than ClientTimeout.  It always gets there: the pongs  *)
(* end inside ReadMessage, and readLoop never sees one.                    *)
ClientTimeout(c) == /\ Goes(c, "write", "loop", "removing")
                    /\ UNCHANGED <<wsVars, hubVars, books, ends>>

Stop(c) == /\ Stopped
           /\ Goes(c, "write", "loop", "removing")
           /\ UNCHANGED <<wsVars, hubVars, books, ends>>

(* Conn.mu is free.  On a closed connection WriteMessage and WritePong     *)
(* fail, WritePing does not.                                               *)
Lock(c, l) == /\ loop[<<c, l>>] = "frame"
              /\ \/ BeginWrite(c, l) /\ UNCHANGED loop
                 \/ /\ CannotWrite(c)
                    /\ Goes(c, l, "frame", "removing") \/ (l = "write" /\ Goes(c, l, "frame", "loop"))
              /\ UNCHANGED <<hubVars, books, ends>>

Written(c, l) == /\ \E ok \in BOOLEAN :
                      /\ EndWrite(c, l, ok)
                      /\ Goes(c, l, "frame", IF ok THEN "loop" ELSE "removing")
                 /\ UNCHANGED <<hubVars, books, ends>>

-----------------------------------------------------------------------------
(* remove: the first caller does it, the other waits until it is done.     *)
Delete(c, l) == /\ once[c] = "free"
                /\ Goes(c, l, "removing", "deleted")
                /\ once' = [once EXCEPT ![c] = "busy"]
                /\ conns' = conns \ {c}
                /\ UNCHANGED <<wsVars, hubVars, accept, ends>>

RemovedBefore(c, l) == /\ once[c] = "done"
                       /\ Goes(c, l, "removing", "leaving")
                       /\ UNCHANGED <<wsVars, hubVars, books, ends>>

(* Mutant of Unsubscribe: the hub is not told.                             *)
UnsubscribeKept(c, l) == /\ Goes(c, l, "deleted", "unregistered")
                         /\ UNCHANGED <<wsVars, hubVars, books, ends>>

Unsubscribe(c, l) == /\ Goes(c, l, "deleted", "unregistered")
                     /\ Unregister(c)
                     /\ UNCHANGED <<wsVars, books, ends>>

SayGoodbye(c, l) == /\ Goes(c, l, "unregistered", "leaving")
                    /\ WriteClose(c)
                    /\ once' = [once EXCEPT ![c] = "done"]
                    /\ UNCHANGED <<hubVars, accept, conns, ends>>

Done(c, l) == /\ Goes(c, l, "leaving", "done")
              /\ wg' = wg - 1
              /\ UNCHANGED <<wsVars, hubVars, books, shut, toClose, known>>

-----------------------------------------------------------------------------
Publish == Broadcast /\ UNCHANGED <<wsVars, books, loop, ends>>

(* Shutdown, called once: the flag and the copy, under s.mu; stopCh; the   *)
(* network connections; the wait, or the end of its context.               *)
Flag == /\ shut = "none"
        /\ shut' = "flagged"
        /\ toClose' = conns
        /\ known' = {c \in Clients : accept[c] = "serving"}
        /\ UNCHANGED <<wsVars, hubVars, books, loop, wg>>

CloseStopCh == /\ shut = "flagged"
               /\ shut' = "stopped"
               /\ UNCHANGED <<wsVars, hubVars, books, loop, wg, toClose, known>>

ForceClose == /\ shut = "stopped"
              /\ shut' = "waiting"
              /\ socket' = [c \in Clients |-> IF c \in toClose THEN "closed" ELSE socket[c]]
              /\ toClose' = {}
              /\ UNCHANGED <<closed, writer, hubVars, books, loop, wg, known>>

Waited == /\ shut = "waiting"
          /\ \/ wg = 0 /\ shut' = "drained"
             \/ shut' = "expired"
          /\ UNCHANGED <<wsVars, hubVars, books, loop, wg, toClose, known>>

Quiet == /\ \A c \in Clients : accept[c] \in {"refused", "serving"}
         /\ \A p \in Clients \X Loops : loop[p] \in {"off", "done"}
         /\ shut \in {"drained", "expired"}
         /\ UNCHANGED vars

Accepting(c)   == Subscribe(c) \/ Start(c)
Working(c, l)  == \/ Lock(c, l) \/ Written(c, l)
                  \/ Delete(c, l) \/ RemovedBefore(c, l) \/ Unsubscribe(c, l)
                  \/ SayGoodbye(c, l) \/ Done(c, l)
Shutdown       == Flag \/ CloseStopCh \/ ForceClose \/ Waited

Next == \/ \E c \in Clients : \/ Refuse(c) \/ Admit(c) \/ Accepting(c) \/ PeerLeaves(c)
                              \/ ReadEnds(c) \/ Pinged(c)
                              \/ Take(c) \/ Tick(c) \/ ClientTimeout(c) \/ Stop(c)
                              \/ \E l \in Loops : Working(c, l)
        \/ Publish \/ Shutdown \/ Quiet

Spec == Init /\ [][Next]_vars

(* Goroutines run; Conn.mu and removeOnce hand themselves to a waiter they *)
(* have starved.  A read fails once there is nobody to read from.  A pong  *)
(* has no deadline of its own: it is sure to end only with the connection. *)
(* The write loop's select does not pass stopCh over for ever, nor its     *)
(* ticker a client that is no longer read from.                            *)
FairSpec ==
  /\ Spec
  /\ WF_vars(CloseStopCh \/ ForceClose \/ Waited)
  /\ \A c \in Clients :
       /\ SF_vars(Accepting(c) \/ (socket[c] # "open" /\ (ReadEnds(c) \/ Working(c, "read"))))
       /\ SF_vars(Working(c, "write"))
       /\ SF_vars(Stop(c) \/ (loop[<<c, "read">>] \notin {"loop", "frame"} /\ ClientTimeout(c)))

-----------------------------------------------------------------------------
(* Every variable holds the values its Go type and the code allow.  A      *)
(* negative WaitGroup counter panics.                                      *)
TypeOK == /\ WsTypeOK
          /\ HubTypeOK
          /\ accept \in [Clients -> {"new", "refused", "admitted", "registered", "serving"}]
          /\ conns \subseteq Clients
          /\ loop \in [Clients \X Loops -> {"off", "loop", "frame", "removing", "deleted",
                                            "unregistered", "leaving", "done"}]
          /\ once \in [Clients -> {"free", "busy", "done"}]
          /\ wg \in Nat
          /\ shut \in {"none", "flagged", "stopped", "waiting", "drained", "expired"}
          /\ toClose \subseteq Clients
          /\ known \subseteq Clients

(* Stream and hub keep books of the same connections, in two critical      *)
(* sections each time.  They differ only while an Accept or a removal is   *)
(* between the two, and what is in either has a goroutine that will take   *)
(* it out.                                                                 *)
Accounted ==
  \A c \in Clients :
    /\ c \in conns \ registered => accept[c] = "admitted"
    /\ c \in registered \ conns => \E l \in Loops : loop[<<c, l>>] = "deleted"
    /\ c \in conns => \/ accept[c] \in {"admitted", "registered"}
                      \/ \A l \in Loops : loop[<<c, l>>] \notin {"off", "leaving", "done"}

(* When Shutdown returns nil, no connection that had been accepted when it *)
(* was called has a goroutine, a subscription or an open socket left.      *)
ShutdownDrains ==
  shut = "drained" =>
    \A c \in known : /\ \A l \in Loops : loop[<<c, l>>] = "done"
                     /\ c \notin conns \cup registered
                     /\ socket[c] = "closed"

Ended(c) == /\ c \notin conns \cup registered
            /\ \A l \in Loops : loop[<<c, l>>] \in {"off", "done"}

(* A connection that was lost or shut down is given up by both its         *)
(* goroutines and by both books, whoever notices first.                    *)
Lost == {c \in Clients : socket[c] # "open" /\ ~Ended(c)}
LostIsGivenUp == Lost # {} ~> Lost = {}
=============================================================================
