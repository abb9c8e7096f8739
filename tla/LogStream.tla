------------------------------- MODULE LogStream -------------------------------
(***************************************************************************)
(* One stream of system logs to a browser: the handler of /api/logs in     *)
(* src/cmd/webadmin/main.go with its two goroutines, the socket to the     *)
(* root helper, and handleLogStream of src/cmd/roothelper/logstream.go     *)
(* with its three goroutines and the child that writes the log.            *)
(*                                                                         *)
(*    child -> pipe -> copier -> sock -> scanner -> lines -> handler       *)
(*                                                                         *)
(* A line is its number; line 0 is a note of the root helper's own.  Lines *)
(* travel whole.  The pipe, the socket and the channel are bounded, here   *)
(* much more narrowly than in the code.  A tick is 5 s.                    *)
(***************************************************************************)
EXTENDS Naturals, Sequences

CONSTANTS
  MaxLines,  \* bound: the lines that the source writes
  Room,      \* the capacities of the pipe, the socket and the channel lines
  Long       \* the lines that are longer than the scanner's buffer, 1 MB

WriteTimeout == 2      \* http.Server.WriteTimeout
Heartbeat    == 3

ASSUME LogStreamAssumption ==
  /\ MaxLines \in Nat /\ Long \subseteq 1..MaxLines
  /\ Room \in [pipe : Nat \ {0}, sock : Nat \ {0}, lines : Nat \ {0}]

VARIABLES
  \* the browser and webadmin
  browser,   \* there or gone
  age,       \* of the request
  handler,   \* of webadmin
  ctx,       \* the request's context: live, cancelled, or over with the handler
  out,       \* what the handler is writing to the browser, if it is a line
  shown,     \* history: the lines that reached the browser
  closer,    \* the goroutine that waits for ctx
  scanner,   \* the goroutine that reads the socket; when it ends lines is closed
  held,      \* the line it has read
  lines,
  \* the socket
  webEnd, helpEnd, sock,
  \* the root helper
  serve,     \* handleLogStream
  cancelled, \* its context
  watcher,   \* the goroutine that waits for the client to go
  copier,    \* the goroutine that copies stdout, with the line it has read
  carried,
  child, pipe,
  made       \* how many lines the child has written

webVars  == <<handler, ctx, out, shown, closer, scanner, held, lines, webEnd>>
helpVars == <<serve, cancelled, watcher, copier, carried, child, pipe, made, helpEnd>>
vars     == <<browser, age, webVars, sock, helpVars>>

Init ==
  /\ browser = "there" /\ age = 0 /\ handler = "idle" /\ ctx = "live" /\ out = <<>>
  /\ shown = <<>> /\ closer = "none" /\ scanner = "none" /\ held = <<>> /\ lines = <<>>
  /\ webEnd = "none" /\ helpEnd = "none" /\ sock = <<>>
  /\ serve = "none" /\ cancelled = FALSE /\ watcher = "none"
  /\ copier = "none" /\ carried = <<>> /\ child = "none" /\ pipe = <<>> /\ made = 0

Line == 0..MaxLines
TypeOK ==
  /\ browser \in {"there", "gone"} /\ age \in 0..Heartbeat
  /\ handler \in {"idle", "select", "writing", "ended"}
  /\ ctx \in {"live", "cancelled", "over"}
  /\ \A s \in {out, held, carried} : s \in Seq(Line) /\ Len(s) <= 1
  /\ shown \in Seq(Line) /\ made \in 0..MaxLines
  /\ lines \in Seq(Line) /\ Len(lines) <= Room.lines
  /\ sock \in Seq(Line) /\ Len(sock) <= Room.sock
  /\ pipe \in Seq(Line) /\ Len(pipe) <= Room.pipe
  /\ closer \in {"none", "waiting", "ended"} /\ watcher \in {"none", "reading", "ended"}
  /\ scanner \in {"none", "reading", "sending", "ended"}
  /\ copier \in {"none", "reading", "sending", "ended"}
  /\ webEnd \in {"none", "open", "closed"} /\ helpEnd \in {"none", "open", "closed"}
  /\ serve \in {"none", "accepted", "waiting", "ended"} /\ cancelled \in BOOLEAN
  /\ child \in {"none", "running", "killed", "dead"}

-----------------------------------------------------------------------------
(* The browser leaves; net/http notices and cancels the context.           *)
Leave  == /\ browser = "there" /\ handler \in {"select", "writing"} /\ browser' = "gone"
          /\ UNCHANGED <<age, webVars, sock, helpVars>>
Notice == /\ browser = "gone" /\ ctx = "live" /\ ctx' = "cancelled"
          /\ UNCHANGED <<browser, age, handler, out, shown, closer, scanner, held, lines,
                         webEnd, sock, helpVars>>
Tick   == /\ handler \in {"select", "writing"} /\ age < Heartbeat /\ age' = age + 1
          /\ UNCHANGED <<browser, webVars, sock, helpVars>>

(* Dial: refused, and answered 503, or the two goroutines start.           *)
Dial ==
  /\ handler = "idle"
  /\ \/ handler' = "ended" /\ ctx' = "over"
        /\ UNCHANGED <<closer, scanner, webEnd, helpEnd, serve>>
     \/ /\ handler' = "select" /\ closer' = "waiting" /\ scanner' = "reading"
        /\ webEnd' = "open" /\ helpEnd' = "open" /\ serve' = "accepted"
        /\ UNCHANGED ctx
  /\ UNCHANGED <<browser, age, out, shown, held, lines, sock, cancelled,
                 watcher, copier, carried, child, pipe, made>>

(* The handler returns: its context is over, its end of the socket closed. *)
Return == /\ handler' = "ended" /\ webEnd' = "closed"
          /\ ctx' = IF ctx = "live" THEN "over" ELSE ctx

(* The three cases of the handler's select, the third of two kinds.        *)
Stop == /\ handler = "select" /\ ctx = "cancelled"
        /\ Return
        /\ UNCHANGED <<browser, age, out, shown, closer, scanner, held, lines, sock, helpVars>>
Ping == /\ handler = "select" /\ age >= Heartbeat
        /\ handler' = "writing" /\ out' = <<>>
        /\ UNCHANGED <<browser, age, ctx, shown, closer, scanner, held, lines, webEnd, sock, helpVars>>
Take == /\ handler = "select" /\ lines # <<>>
        /\ handler' = "writing" /\ out' = <<Head(lines)>> /\ lines' = Tail(lines)
        /\ UNCHANGED <<browser, age, ctx, shown, closer, scanner, held, webEnd, sock, helpVars>>
Drained == /\ handler = "select" /\ lines = <<>> /\ scanner = "ended"
           /\ Return
           /\ UNCHANGED <<browser, age, out, shown, closer, scanner, held, lines, sock, helpVars>>

(* What is written reaches the browser, which may be slow to take it, or   *)
(* fails, at the write deadline at the latest, and net/http cancels the    *)
(* context.  The handler looks at no error.                                *)
Written == /\ handler = "writing" /\ browser = "there" /\ ctx = "live" /\ age <= WriteTimeout
           /\ handler' = "select" /\ shown' = shown \o out /\ out' = <<>>
           /\ UNCHANGED <<browser, age, ctx, closer, scanner, held, lines, webEnd, sock, helpVars>>
(* Mutant of Late: the server has no WriteTimeout.                         *)
LateNever == FALSE
Late    == age > WriteTimeout
Unwritten == /\ handler = "writing" /\ (browser = "gone" \/ Late \/ ctx = "cancelled")
             /\ handler' = "select" /\ ctx' = "cancelled" /\ out' = <<>>
             /\ UNCHANGED <<browser, age, shown, closer, scanner, held, lines, webEnd, sock, helpVars>>

Close == /\ closer = "waiting" /\ ctx # "live"
         /\ closer' = "ended" /\ webEnd' = "closed"
         /\ UNCHANGED <<browser, age, handler, ctx, out, shown, scanner, held, lines, sock, helpVars>>

(* Mutant of ScanEnds: an error of the socket is not taken for its end.    *)
ScanEndsEOF == /\ scanner = "reading" /\ webEnd = "open" /\ sock = <<>> /\ helpEnd = "closed"
               /\ scanner' = "ended"
               /\ UNCHANGED <<browser, age, handler, ctx, out, shown, closer, held, lines, webEnd,
                              sock, helpVars>>

(* The scanner reads a line; or it ends, at the end of the stream, for a   *)
(* socket that was closed under it, or for a line that is too long.        *)
Scan == /\ scanner = "reading" /\ webEnd = "open" /\ sock # <<>> /\ Head(sock) \notin Long
        /\ scanner' = "sending" /\ held' = <<Head(sock)>> /\ sock' = Tail(sock)
        /\ UNCHANGED <<browser, age, handler, ctx, out, shown, closer, lines, webEnd, helpVars>>
ScanEnds == /\ scanner = "reading"
            /\ \/ webEnd = "closed"
               \/ sock = <<>> /\ helpEnd = "closed"
               \/ sock # <<>> /\ Head(sock) \in Long
            /\ scanner' = "ended"
            /\ UNCHANGED <<browser, age, handler, ctx, out, shown, closer, held, lines, webEnd,
                           sock, helpVars>>
(* Mutant of Send: drops the line when there is no room.                   *)
SendOrDrop == /\ scanner = "sending"
              /\ scanner' = "reading" /\ held' = <<>>
              /\ lines' = IF Len(lines) < Room.lines THEN lines \o held ELSE lines
              /\ UNCHANGED <<browser, age, handler, ctx, out, shown, closer, webEnd, sock, helpVars>>
(* It waits for room in lines, without regard to the context.              *)
Send == /\ scanner = "sending" /\ Len(lines) < Room.lines
        /\ scanner' = "reading" /\ held' = <<>> /\ lines' = lines \o held
        /\ UNCHANGED <<browser, age, handler, ctx, out, shown, closer, webEnd, sock, helpVars>>

-----------------------------------------------------------------------------
(* handleLogStream: it rejects its peer or finds that it cannot start the  *)
(* source, sometimes with a note; or starts it, and its goroutines.        *)
Reject == /\ serve = "accepted"
          /\ serve' = "ended" /\ helpEnd' = "closed"
          /\ sock' \in IF webEnd = "open" THEN {<<>>, <<0>>} ELSE {<<>>}
          /\ UNCHANGED <<browser, age, webVars, cancelled, watcher, copier, carried, child, pipe, made>>
Serve  == /\ serve = "accepted"
          /\ serve' = "waiting" /\ child' = "running" /\ watcher' = "reading" /\ copier' = "reading"
          /\ UNCHANGED <<browser, age, webVars, sock, cancelled, carried, pipe, made, helpEnd>>

Kill == child' = IF child = "running" THEN "killed" ELSE child

(* Mutant of Watch: cancels nothing.                                       *)
WatchOnly == /\ watcher = "reading" /\ (webEnd = "closed" \/ helpEnd = "closed")
             /\ watcher' = "ended"
             /\ UNCHANGED <<browser, age, webVars, sock, serve, cancelled, child, copier, carried,
                            pipe, made, helpEnd>>
(* The client has gone, or the handler has returned.                       *)
Watch == /\ watcher = "reading" /\ (webEnd = "closed" \/ helpEnd = "closed")
         /\ watcher' = "ended" /\ cancelled' = TRUE /\ Kill
         /\ UNCHANGED <<browser, age, webVars, sock, serve, copier, carried, pipe, made, helpEnd>>

(* io.Copy, which ends with its source or its destination.                 *)
CopyRead == /\ copier = "reading" /\ pipe # <<>>
            /\ copier' = "sending" /\ carried' = <<Head(pipe)>> /\ pipe' = Tail(pipe)
            /\ UNCHANGED <<browser, age, webVars, sock, serve, cancelled, watcher, child, made, helpEnd>>
CopyWrite == /\ copier = "sending" /\ webEnd = "open" /\ helpEnd = "open" /\ Len(sock) < Room.sock
             /\ copier' = "reading" /\ carried' = <<>> /\ sock' = sock \o carried
             /\ UNCHANGED <<browser, age, webVars, serve, cancelled, watcher, child, pipe, made, helpEnd>>
CopyEnds == /\ \/ copier = "reading" /\ pipe = <<>> /\ child = "dead"
               \/ copier = "sending" /\ (webEnd = "closed" \/ helpEnd = "closed")
            /\ copier' = "ended" /\ cancelled' = TRUE
            /\ UNCHANGED <<browser, age, webVars, sock, serve, watcher, carried, child, pipe, made, helpEnd>>

(* Mutant of Done: does not kill the child.                                *)
DoneOnly == /\ serve = "waiting" /\ cancelled
            /\ serve' = "ended" /\ helpEnd' = "closed"
            /\ UNCHANGED <<browser, age, webVars, sock, cancelled, watcher, copier, carried, child, pipe, made>>
(* The handler returns with its deferred calls: Kill, but no Wait.         *)
Done == /\ serve = "waiting" /\ cancelled
        /\ serve' = "ended" /\ helpEnd' = "closed" /\ Kill
        /\ UNCHANGED <<browser, age, webVars, sock, cancelled, watcher, copier, carried, pipe, made>>

(* The child writes a line when its pipe has room, dies of the signal, or  *)
(* ends by itself.  Nobody calls Wait: a dead child stays a zombie until   *)
(* the root helper ends, which is no state of its own here.                *)
Log  == /\ child = "running" /\ made < MaxLines /\ Len(pipe) < Room.pipe
        /\ made' = made + 1 /\ pipe' = Append(pipe, made')
        /\ UNCHANGED <<browser, age, webVars, sock, serve, cancelled, watcher, copier, carried, child, helpEnd>>
Dies == /\ child = "killed" /\ child' = "dead"
        /\ UNCHANGED <<browser, age, webVars, sock, serve, cancelled, watcher, copier, carried, pipe, made, helpEnd>>
Exits == /\ child = "running" /\ child' = "dead"
         /\ UNCHANGED <<browser, age, webVars, sock, serve, cancelled, watcher, copier, carried, pipe, made, helpEnd>>

(* All has ended, but for a scanner that may have nobody to send to.       *)
Released == /\ serve \in {"none", "ended"} /\ watcher # "reading"
            /\ copier \in {"none", "ended"} /\ child \in {"none", "dead"}
Over == /\ handler = "ended" /\ closer # "waiting" /\ scanner # "reading" /\ Released
        /\ UNCHANGED vars

Next == \/ Leave \/ Notice \/ Tick \/ Dial \/ Stop \/ Ping \/ Take \/ Drained \/ Written \/ Unwritten
        \/ Close \/ Scan \/ ScanEnds \/ Send
        \/ Reject \/ Serve \/ Watch \/ CopyRead \/ CopyWrite \/ CopyEnds \/ Done \/ Log \/ Dies \/ Exits
        \/ Over

(* Goroutines that can go on do; a select whose case is ready again and    *)
(* again takes it some time, for it chooses at random; time passes and     *)
(* signals arrive.  Neither the browser nor the source need do anything.   *)
Fairness ==
  /\ WF_vars(Notice) /\ WF_vars(Tick) /\ SF_vars(Stop) /\ SF_vars(Ping) /\ SF_vars(Take)
  /\ WF_vars(Drained) /\ WF_vars(Unwritten) /\ WF_vars(Close)
  /\ WF_vars(Scan \/ ScanEnds \/ Send) /\ WF_vars(Reject \/ Serve) /\ WF_vars(Watch)
  /\ WF_vars(CopyRead \/ CopyWrite \/ CopyEnds) /\ WF_vars(Done) /\ WF_vars(Dies)

Spec     == Init /\ [][Next]_vars
FairSpec == Spec /\ Fairness

-----------------------------------------------------------------------------
UpTo(n) == [i \in 1..n |-> i]

(* What the browser is shown has no gap, no line twice and none out of     *)
(* order, whichever goroutine stops first.  While its request lives, every *)
(* line that the source wrote is on its way or was shown; and a stream that*)
(* ended by itself has shown all of them, the last ones of a source that   *)
(* died too, or all before a line over 1 MB (the order of the closes).     *)
Way == shown \o out \o lines \o held \o sock \o carried \o pipe
InOrder == serve # "none" =>
  /\ shown \in {UpTo(Len(shown)), <<0>>}
  /\ ctx = "live" => Way \in {UpTo(made), <<0>>}
  /\ ctx = "over" => shown = <<0>> \/ Len(shown) = made \/ Len(shown) + 1 \in Long

(* No handler of the root helper returns before its child was killed or    *)
(* had died, whichever goroutine cancelled it (the deferred killChild).    *)
NoChildLeft == serve = "ended" => child # "running"

(* A browser that leaves, or a handler that returns, takes all of the root *)
(* helper's part with it, with a source that is silent and with one whose  *)
(* output backs up; what docs/handoff.md says of the upstream socket.      *)
HelperReleased == (browser = "gone" \/ handler = "ended") ~> Released

(* No stream outlives its client's reading: a browser that no longer takes *)
(* what is written is noticed by the first write after the WriteTimeout,   *)
(* at the latest a heartbeat.  (So is one that does.)                      *)
StreamEnds == (handler = "select") ~> (handler = "ended")

(* The scanner ends with its handler, but for one case: a scanner that had *)
(* filled lines waits for ever for a handler that has gone, against what   *)
(* SYSTEM_DESIGN.md demands of every goroutine.  Nothing else holds it.    *)
Stuck == scanner = "sending" /\ Len(lines) = Room.lines
ScannerEnds == (handler = "ended") ~> (scanner \in {"none", "ended"} \/ Stuck)
================================================================================
