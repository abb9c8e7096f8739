------------------------------- MODULE WsConn -------------------------------
(***************************************************************************)
(* The server's end of WebSocket connections, src/pkg/ws/conn.go: the      *)
(* underlying network connection and the mutex and flag that order what is *)
(* written to it.  Frames are not modelled, only who may write one.  The   *)
(* module has no next-state relation of its own: its operations are parts  *)
(* of the goroutines that use them.                                        *)
(***************************************************************************)
CONSTANTS
  Clients,    \* connections
  Loops,      \* goroutines that a connection may have
  Nobody      \* no goroutine

VARIABLES
  socket,     \* the network connection: "open", left by its peer or closed
  closed,     \* the connections whose Conn.closed is set
  writer      \* the goroutine that is in WriteFrame, holding Conn.mu

wsVars == <<socket, closed, writer>>

WsInit == /\ socket = [c \in Clients |-> "open"]
          /\ closed = {}
          /\ writer = [c \in Clients |-> Nobody]

WsTypeOK == /\ socket \in [Clients -> {"open", "gone", "closed"}]
            /\ closed \subseteq Clients
            /\ writer \in [Clients -> Loops \cup {Nobody}]

(* WriteMessage, WritePing and WritePong up to WriteFrame.                 *)
BeginWrite(c, l) == /\ writer[c] = Nobody
                    /\ c \notin closed
                    /\ writer' = [writer EXCEPT ![c] = l]
                    /\ UNCHANGED <<socket, closed>>

(* Each of them finds the connection closed.                               *)
CannotWrite(c) == /\ writer[c] = Nobody
                  /\ c \in closed
                  /\ UNCHANGED wsVars

(* WriteFrame succeeds, or fails at its deadline or for a lost peer.       *)
EndWrite(c, l, ok) == /\ writer[c] = l
                      /\ ok => socket[c] # "closed"
                      /\ writer' = [writer EXCEPT ![c] = Nobody]
                      /\ UNCHANGED <<socket, closed>>

(* Mutant of WriteClose: leaves the network connection open.               *)
WriteCloseOnly(c) == /\ writer[c] = Nobody
                     /\ closed' = closed \cup {c}
                     /\ UNCHANGED <<socket, writer>>

(* The close frame is the last one; the network connection is closed with  *)
(* it, once.                                                               *)
WriteClose(c) == /\ writer[c] = Nobody
                 /\ closed' = closed \cup {c}
                 /\ socket' = [socket EXCEPT ![c] = "closed"]
                 /\ UNCHANGED writer

(* Close: without a frame, and nothing the second time.                    *)
Close(c) == IF c \in closed THEN writer[c] = Nobody /\ UNCHANGED wsVars
            ELSE /\ writer[c] = Nobody
                 /\ closed' = closed \cup {c}
                 /\ socket' = [socket EXCEPT ![c] = "closed"]
                 /\ UNCHANGED writer
=============================================================================
