------------------------------- MODULE Telemetry -------------------------------
(***************************************************************************)
(* Telemetry as webadmin runs it: the goroutine of Collector.Run, the hub, *)
(* and the handler of /ws in src/cmd/webadmin/main.go with its two         *)
(* goroutines for every client.  (telemetry.Stream, which pairs hub and    *)
(* WebSocket in another way, is in TelemetryStream.)                       *)
(***************************************************************************)
EXTENDS Collector, FiniteSets, WsConn

CONSTANTS
  SendBuffer,  \* of a telemetry.Conn, 256
  WSMaxConns,  \* ws_max_conns
  Scenes       \* bounds: who comes, how much happens on the machine and to what, how much its disks
               \* have done before, what reading its files may give

ASSUME TelemetryAssumption ==
  /\ Loops = {"read", "write"} /\ Nobody \notin Loops
  /\ SendBuffer \in Nat \ {0} /\ WSMaxConns \in Nat
  /\ Width \in Nat \ {0} /\ Interval \in Nat \ {0} /\ Devices \cap Kinds = {}
  /\ Scenes \subseteq [come : SUBSET Clients, churn : Nat, boot : Nat,
                       work : SUBSET {"disks", "cpu"}, readable : SUBSET BOOLEAN]
  /\ \A s \in Scenes :
       /\ s.churn < Width  \* no counter of times comes round between two samples
       /\ s.boot < Width

VARIABLES
  registered, sendCh,  \* the hub's, see Hub
  scene, churn,
  handler,   \* of each client
  read,      \* its read goroutine; when it ends, done is closed
  write,     \* its write goroutine
  silent,    \* clients lost without a word, such as by a cut cable
  stopped,   \* the collector's goroutine has ended
  peak       \* history: how many handlers have been between check and count

INSTANCE Hub WITH Subscribers <- Clients

clientVars == <<handler, read, write, silent, peak>>
hubVars    == <<registered, sendCh>>
vars       == <<wsVars, hubVars, collectorVars, clientVars, scene, churn, stopped>>

Init ==
  /\ WsInit /\ HubInit
  /\ scene \in Scenes /\ CollectorInit(scene.boot) /\ churn = 0 /\ stopped = FALSE /\ silent = {} /\ peak = 0
  /\ handler = [c \in Clients |-> "new"]
  /\ read = [c \in Clients |-> "none"] /\ write = [c \in Clients |-> "none"]

TypeOK ==
  /\ WsTypeOK /\ HubTypeOK /\ CollectorTypeOK
  /\ scene \in Scenes /\ churn \in 0..scene.churn /\ stopped \in BOOLEAN
  /\ silent \subseteq Clients /\ peak \in Nat
  /\ handler \in [Clients -> {"new", "checked", "upgraded", "refused", "serving",
                              "closing", "leaving", "over"}]
  /\ read \in [Clients -> {"none", "reading", "pong", "ended"}]
  /\ write \in [Clients -> {"none", "waiting", "frame", "writing", "closing", "ended"}]

-----------------------------------------------------------------------------
(* The handler counts the connections, takes over the client's connection, *)
(* and registers.                                                          *)
Between == {c \in Clients : handler[c] \in {"checked", "upgraded"}}
Full    == Cardinality(registered) >= WSMaxConns

(* Mutant of Check: off by one.                                            *)
CheckLate(c) ==
  /\ handler[c] = "new" /\ c \in scene.come
  /\ handler' = [handler EXCEPT ![c] =
       IF Cardinality(registered) > WSMaxConns THEN "refused" ELSE "checked"]
  /\ peak' = IF Cardinality(Between') > peak THEN Cardinality(Between') ELSE peak
  /\ UNCHANGED <<wsVars, hubVars, collectorVars, read, write, silent, scene, churn, stopped>>
Check(c) ==
  /\ handler[c] = "new" /\ c \in scene.come
  /\ handler' = [handler EXCEPT ![c] = IF Full THEN "refused" ELSE "checked"]
  /\ peak' = IF Cardinality(Between') > peak THEN Cardinality(Between') ELSE peak
  /\ UNCHANGED <<wsVars, hubVars, collectorVars, read, write, silent, scene, churn, stopped>>
Upgrade(c) ==
  /\ handler[c] = "checked"
  /\ \E h \in {"upgraded", "refused"} : handler' = [handler EXCEPT ![c] = h]
  /\ UNCHANGED <<wsVars, hubVars, collectorVars, read, write, silent, peak, scene, churn, stopped>>
Join(c) ==
  /\ handler[c] = "upgraded"
  /\ Register(c)
  /\ handler' = [handler EXCEPT ![c] = "serving"]
  /\ read' = [read EXCEPT ![c] = "reading"] /\ write' = [write EXCEPT ![c] = "waiting"]
  /\ UNCHANGED <<wsVars, collectorVars, silent, peak, scene, churn, stopped>>

(* done is closed: the handler closes the connection and unregisters.      *)
Ended(c) ==
  /\ handler[c] = "serving" /\ read[c] = "ended"
  /\ handler' = [handler EXCEPT ![c] = "closing"]
  /\ UNCHANGED <<wsVars, hubVars, collectorVars, read, write, silent, peak, scene, churn, stopped>>
HandlerCloses(c) ==
  /\ handler[c] = "closing" /\ Close(c)
  /\ handler' = [handler EXCEPT ![c] = "leaving"]
  /\ UNCHANGED <<hubVars, collectorVars, read, write, silent, peak, scene, churn, stopped>>
Leave(c) ==
  /\ handler[c] = "leaving" /\ Unregister(c)
  /\ handler' = [handler EXCEPT ![c] = "over"]
  /\ UNCHANGED <<wsVars, collectorVars, read, write, silent, peak, scene, churn, stopped>>

-----------------------------------------------------------------------------
(* The read goroutine: ends by an error, a bad or a close frame; answers a *)
(* ping, and takes no notice of the rest.                                  *)
Reads(c)  == socket[c] = "open" /\ c \notin silent
ReadEnds(c) ==
  /\ read[c] = "reading" /\ (Reads(c) \/ socket[c] # "open")
  /\ read' = [read EXCEPT ![c] = "ended"]
  /\ UNCHANGED <<wsVars, hubVars, collectorVars, handler, write, silent, peak, scene, churn, stopped>>
Pinged(c) ==
  /\ read[c] = "reading" /\ Reads(c)
  /\ \/ BeginWrite(c, "read") /\ read' = [read EXCEPT ![c] = "pong"]
     \/ CannotWrite(c) /\ read' = [read EXCEPT ![c] = "ended"]
  /\ UNCHANGED <<hubVars, collectorVars, handler, write, silent, peak, scene, churn, stopped>>
Ponged(c) ==
  /\ read[c] = "pong"
  /\ \E ok \in BOOLEAN : /\ EndWrite(c, "read", ok)
                         /\ read' = [read EXCEPT ![c] = IF ok THEN "reading" ELSE "ended"]
  /\ UNCHANGED <<hubVars, collectorVars, handler, write, silent, peak, scene, churn, stopped>>

(* The write goroutine: takes a message, writes it, and closes the         *)
(* connection when that fails or done is closed.                           *)
Take(c) ==
  /\ write[c] = "waiting" /\ Receive(c)
  /\ write' = [write EXCEPT ![c] = "frame"]
  /\ UNCHANGED <<wsVars, collectorVars, handler, read, silent, peak, scene, churn, stopped>>
Lock(c) ==
  /\ write[c] = "frame"
  /\ \/ BeginWrite(c, "write") /\ write' = [write EXCEPT ![c] = "writing"]
     \/ CannotWrite(c) /\ write' = [write EXCEPT ![c] = "closing"]
  /\ UNCHANGED <<hubVars, collectorVars, handler, read, silent, peak, scene, churn, stopped>>
(* Mutant of Written: goes on after an error.                              *)
WrittenAnyhow(c, ok) ==
  /\ write[c] = "writing" /\ EndWrite(c, "write", ok)
  /\ write' = [write EXCEPT ![c] = "waiting"]
  /\ UNCHANGED <<hubVars, collectorVars, handler, read, silent, peak, scene, churn, stopped>>
Written(c, ok) ==
  /\ write[c] = "writing" /\ EndWrite(c, "write", ok)
  /\ write' = [write EXCEPT ![c] = IF ok THEN "waiting" ELSE "closing"]
  /\ UNCHANGED <<hubVars, collectorVars, handler, read, silent, peak, scene, churn, stopped>>
Stop(c) ==
  /\ write[c] = "waiting" /\ read[c] = "ended"
  /\ write' = [write EXCEPT ![c] = "closing"]
  /\ UNCHANGED <<wsVars, hubVars, collectorVars, handler, read, silent, peak, scene, churn, stopped>>
WriterCloses(c) ==
  /\ write[c] = "closing" /\ Close(c)
  /\ write' = [write EXCEPT ![c] = "ended"]
  /\ UNCHANGED <<hubVars, collectorVars, handler, read, silent, peak, scene, churn, stopped>>

PeerLeaves(c) ==
  /\ handler[c] = "serving" /\ socket[c] = "open" /\ c \notin silent
  /\ \/ socket' = [socket EXCEPT ![c] = "gone"] /\ UNCHANGED silent
     \/ silent' = silent \cup {c} /\ UNCHANGED socket
  /\ UNCHANGED <<closed, writer, hubVars, collectorVars, handler, read, write, peak, scene, churn, stopped>>

-----------------------------------------------------------------------------
(* Collector.Run: every tick a snapshot for all, until stopCh is closed.   *)
Publish ==
  /\ ~stopped /\ Collect(scene.readable)
  /\ \/ Broadcast
     \/ registered = {} /\ UNCHANGED <<registered, sendCh>>
  /\ UNCHANGED <<wsVars, clientVars, scene, churn, stopped>>
StopCollector ==
  /\ ~stopped /\ stopped' = TRUE
  /\ UNCHANGED <<wsVars, hubVars, collectorVars, clientVars, scene, churn>>
Machine ==
  /\ churn < scene.churn /\ churn' = churn + 1
  /\ \/ /\ "disks" \in scene.work
        /\ \E d \in Devices : DiskWorks(d) \/ DiskReset(d) \/ DiskGoes(d) \/ DiskComes(d)
     \/ /\ "cpu" \in scene.work
        /\ \E k \in Kinds : CpuRuns(k) \/ CpuBack(k)
  /\ UNCHANGED <<prevDisks, prevCPU, rates, pct, due, wsVars, hubVars, clientVars, scene, stopped>>

(* After the collector has stopped the process ends as it can.             *)
Quiet == stopped /\ UNCHANGED vars

Handle(c) == Upgrade(c) \/ Join(c) \/ Ended(c) \/ HandlerCloses(c) \/ Leave(c)
ReadLoop(c)  == ReadEnds(c) \/ Ponged(c)
WriteLoop(c) == Take(c) \/ Lock(c) \/ Written(c, TRUE) \/ Written(c, FALSE) \/ WriterCloses(c)
Next == \/ Publish \/ StopCollector \/ Machine \/ Quiet
        \/ \E c \in Clients : Check(c) \/ Handle(c) \/ ReadLoop(c) \/ Pinged(c)
                              \/ WriteLoop(c) \/ Stop(c) \/ PeerLeaves(c)

(* Goroutines run and the ticker fires.  A select takes a case that is     *)
(* ready again and again, a mutex is handed to who waits for it, and what  *)
(* is written to a silent peer fails some time, for want of room and then  *)
(* at the deadline of 10 s.  A peer that is there need not send anything.  *)
Fairness ==
  /\ WF_vars(Publish)
  /\ \A c \in Clients :
       /\ WF_vars(Handle(c)) /\ WF_vars(WriteLoop(c))
       /\ WF_vars((socket[c] # "open" /\ ReadEnds(c)) \/ Ponged(c))
       /\ SF_vars(Lock(c) \/ WriterCloses(c)) /\ SF_vars(Stop(c))
       /\ SF_vars((c \in silent \/ socket[c] # "open") /\ Written(c, FALSE))
Spec     == Init /\ [][Next]_vars
FairSpec == Spec /\ Fairness

-----------------------------------------------------------------------------
(* The connections exceed ws_max_conns by no more than the requests that   *)
(* were between Count and Register at a time, less one: a cap that is read *)
(* early and counted late (docs/telemetry.md, "Excess connections receive  *)
(* HTTP 503 on upgrade", holds for requests that do not overlap).          *)
CapHolds == Cardinality(registered) + Cardinality(Between) <=
              WSMaxConns + IF peak = 0 THEN 0 ELSE peak - 1

(* A client that has gone, without a word too, is given up by its handler, *)
(* both goroutines and the hub, while the collector runs: its messages are *)
(* what finds out about a silent one.                                      *)
GoneIsGivenUp == \A c \in Clients :
  (handler[c] = "serving" /\ (socket[c] # "open" \/ c \in silent))
    ~> (stopped \/ (handler[c] = "over" /\ read[c] = "ended" /\ write[c] = "ended"
                     /\ c \notin registered))
================================================================================
