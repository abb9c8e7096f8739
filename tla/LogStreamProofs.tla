----------------------------- MODULE LogStreamProofs -----------------------------
(***************************************************************************)
(* Proofs about LogStream, for any number of lines, any capacities of the  *)
(* pipe, the socket and the channel, and any lines that are too long.      *)
(*                                                                         *)
(* The argument: while the request lives, nothing on the Way of the lines  *)
(* is lost, for the socket's end at the web server is open and the root    *)
(* helper gives up only when its source has died and its pipe is empty.    *)
(***************************************************************************)
EXTENDS LogStream, SequenceTheorems, TLAPS

(* Who holds no line has none.                                             *)
Hands == /\ handler # "writing" => out = <<>>
         /\ scanner # "sending" => held = <<>>
         /\ copier \notin {"sending", "ended"} => carried = <<>>

(* What has not begun has left nothing.                                    *)
Unbegun ==
  /\ handler = "idle" => serve = "none"
  /\ serve = "none" => handler \in {"idle", "ended"} /\ helpEnd = "none" /\ shown = <<>>
  /\ serve \in {"none", "accepted"} => /\ child = "none"
                                       /\ \A s \in {shown, out, lines, held, sock} : s = <<>>
  /\ child = "none" => /\ made = 0 /\ pipe = <<>> /\ carried = <<>>
                       /\ copier = "none" /\ watcher = "none" /\ ~cancelled

(* How the root helper's handler ends.                                     *)
HelperEnds ==
  /\ serve = "waiting" => child # "none"
  /\ helpEnd = "closed" <=> serve = "ended"
  /\ (serve = "ended" /\ child # "none") => cancelled

(* A request that lives.                                                   *)
Open == ctx = "live" /\ serve # "none"
Nothing == Open => /\ webEnd = "open"
                   /\ Way \in {UpTo(made), << 0 >>}
                   /\ Way = << 0 >> => child = "none"
Silent  == Open /\ cancelled => copier = "ended" /\ pipe = <<>> /\ carried = <<>> /\ child = "dead"
Halted  == Open /\ scanner = "ended" => \/ sock = <<>> /\ helpEnd = "closed"
                                        \/ sock # <<>> /\ Head(sock) \in Long

(* What the browser has been shown, and all that it could be shown.        *)
Gapless  == shown \in {UpTo(Len(shown)), << 0 >>}
Complete == ctx = "over" =>
  /\ handler = "ended"
  /\ serve # "none" => \/ shown = << 0 >>
                       \/ Len(shown) = made /\ child \in {"dead", "none"} /\ serve # "accepted"
                       \/ Len(shown) + 1 \in Long

IInv == /\ TypeOK /\ Hands /\ Unbegun /\ HelperEnds
        /\ Nothing /\ Silent /\ Halted /\ Gapless /\ Complete /\ NoChildLeft
-----------------------------------------------------------------------------
(* The capacities are positive.                                            *)
LEMMA Capacities ==
  /\ MaxLines \in Nat /\ Long \subseteq 1..MaxLines
  /\ Room.pipe \in Nat \ {0} /\ Room.sock \in Nat \ {0} /\ Room.lines \in Nat \ {0}
BY LogStreamAssumption

(* Moving a line from one end of a sequence.                               *)
LEMMA FirstOf ==
  ASSUME NEW S, NEW s \in Seq(S), s # <<>>
  PROVE  /\ Head(s) \in S /\ Tail(s) \in Seq(S) /\ Len(Tail(s)) = Len(s) - 1
         /\ <<Head(s)>> \in Seq(S) /\ Len(<<Head(s)>>) = 1
OBVIOUS

(* The first of the lines behind moves in front.                           *)
LEMMA MoveFirst ==
  ASSUME NEW S, NEW a \in Seq(S), NEW s \in Seq(S), s # <<>>
  PROVE  (a \o <<>>) \o s = (a \o <<Head(s)>>) \o Tail(s)
<1>1. <<Head(s)>> \in Seq(S) /\ Tail(s) \in Seq(S)
  BY FirstOf
<1>2. s = <<Head(s)>> \o Tail(s)
  <2>1. Len(<<Head(s)>> \o Tail(s)) = Len(s)
    BY <1>1, FirstOf, ConcatProperties
  <2>2. \A i \in 1..Len(s) : (<<Head(s)>> \o Tail(s))[i] = s[i]
    BY <1>1
  <2>3. <<Head(s)>> \o Tail(s) \in Seq(S)
    BY <1>1, ConcatProperties
  <2> QED BY <2>1, <2>2, <2>3, SeqEqual
<1>3. a \o (<<Head(s)>> \o Tail(s)) = (a \o <<Head(s)>>) \o Tail(s)
  BY <1>1, ConcatAssociative
<1> QED BY <1>2, <1>3, ConcatEmptySeq

(* All the lines behind move on, past a place that was empty.              *)
LEMMA MoveAll ==
  ASSUME NEW S, NEW a \in Seq(S), NEW s \in Seq(S), NEW t \in Seq(S)
  PROVE  (a \o s) \o t = (a \o (s \o t)) \o <<>>
<1>1. a \o (s \o t) \in Seq(S)
  BY ConcatProperties
<1> QED BY <1>1, ConcatAssociative, ConcatEmptySeq

(* A line comes in behind all the others.                                  *)
LEMMA AddLast ==
  ASSUME NEW S, NEW a \in Seq(S), NEW s \in Seq(S), NEW e \in S
  PROVE  a \o Append(s, e) = Append(a \o s, e)
<1>1. a \o s \in Seq(S) /\ <<e>> \in Seq(S)
  BY ConcatProperties
<1>2. Append(s, e) = s \o <<e>> /\ Append(a \o s, e) = (a \o s) \o <<e>>
  BY <1>1, AppendIsConcat
<1> QED BY <1>1, <1>2, ConcatAssociative

(* What has come first stays in front.                                     *)
LEMMA Front ==
  ASSUME NEW S, NEW a \in Seq(S), NEW b \in Seq(S)
  PROVE  /\ a \o b \in Seq(S) /\ Len(a \o b) >= Len(a)
         /\ \A i \in 1..Len(a) : (a \o b)[i] = a[i]
BY ConcatProperties, LenProperties

(* The sequence of the first n lines.                                      *)
LEMMA Counted ==
  ASSUME NEW n \in Nat
  PROVE  /\ UpTo(n) \in Seq(Nat) /\ Len(UpTo(n)) = n
         /\ \A i \in 1..n : UpTo(n)[i] = i
         /\ Append(UpTo(n), n + 1) = UpTo(n + 1)
<1>1. \A k \in Nat : UpTo(k) \in Seq(Nat) /\ Len(UpTo(k)) = k /\ \A i \in 1..k : UpTo(k)[i] = i
  BY DEF UpTo
<1>2. Append(UpTo(n), n + 1) \in Seq(Nat) /\ Len(Append(UpTo(n), n + 1)) = n + 1
  BY <1>1
<1>3. \A i \in 1..n + 1 : Append(UpTo(n), n + 1)[i] = i
  BY <1>1
<1>4. UpTo(n + 1) \in Seq(Nat) /\ Len(UpTo(n + 1)) = n + 1 /\ \A i \in 1..n + 1 : UpTo(n + 1)[i] = i
  BY <1>1
<1> QED BY <1>1, <1>2, <1>3, <1>4, SeqEqual

(* There are none before the first.                                        *)
LEMMA NoneCounted == UpTo(0) = <<>>
<1>1. UpTo(0) \in Seq(Nat) /\ Len(UpTo(0)) = 0
  BY Counted
<1>2. <<>> \in Seq(Nat) /\ Len(<<>>) = 0
  OBVIOUS
<1> QED BY <1>1, <1>2, SeqEqual

(* If nobody holds a line, there is none on the Way.                       *)
LEMMA NoneOnTheWay ==
  ASSUME \A s \in {shown, out, lines, held, sock, carried, pipe} : s = <<>>
  PROVE  Way = <<>>
<1>1. <<>> \o <<>> = <<>>
  <2>1. <<>> \in Seq(Nat)
    OBVIOUS
  <2> QED BY <2>1, ConcatEmptySeq
<1> QED BY <1>1 DEF Way

(* A beginning of the lines in their order is in their order.              *)
LEMMA Beginning ==
  ASSUME NEW a \in Seq(Nat), NEW w \in Seq(Nat), NEW n \in Nat, w \in {UpTo(n), << 0 >>},
         Len(w) >= Len(a), \A i \in 1..Len(a) : w[i] = a[i]
  PROVE  a \in {UpTo(Len(a)), << 0 >>}
<1>1. CASE w = UpTo(n)
  <2>1. \A i \in 1..Len(a) : a[i] = i
    <3>1. Len(w) = n /\ Len(a) \in Nat
      BY <1>1, Counted, LenProperties
    <3>2. \A i \in 1..n : UpTo(n)[i] = i
      BY Counted
    <3> QED BY <1>1, <3>1, <3>2
  <2>2. Len(a) \in Nat
    BY LenProperties
  <2> QED BY <2>1, <2>2, Counted, SeqEqual
<1>2. CASE w = << 0 >>
  <2>1. Len(a) \in {0, 1}
    BY <1>2, LenProperties
  <2>2. CASE Len(a) = 0
    <3>1. UpTo(0) \in Seq(Nat) /\ Len(UpTo(0)) = 0
      BY Counted
    <3> QED BY <2>2, <3>1, SeqEqual
  <2>3. CASE Len(a) = 1
    <3>1. << 0 >> \in Seq(Nat) /\ Len(<< 0 >>) = 1 /\ << 0 >>[1] = 0 /\ a[1] = 0
      BY <1>2, <2>3
    <3> QED BY <2>3, <3>1, SeqEqual
  <2> QED BY <2>1, <2>2, <2>3
<1> QED BY <1>1, <1>2

(* The variables keep their types, and no buffer exceeds its capacity.     *)
LEMMA TypeStep == ASSUME TypeOK, [Next]_vars PROVE TypeOK'
<1> USE DEF TypeOK
<1>1. CASE Leave
  BY <1>1, Capacities DEF Leave, webVars, helpVars, Line, Heartbeat
<1>2. CASE Notice
  BY <1>2, Capacities DEF Notice, webVars, helpVars, Line, Heartbeat
<1>3. CASE Tick
  BY <1>3, Capacities DEF Tick, webVars, helpVars, Line, Heartbeat
<1>4. CASE Dial
  BY <1>4, Capacities DEF Dial, webVars, helpVars, Line, Heartbeat
<1>5. CASE Stop
  BY <1>5, Capacities DEF Stop, Return, webVars, helpVars, Line, Heartbeat
<1>6. CASE Ping
  BY <1>6, Capacities DEF Ping, webVars, helpVars, Line, Heartbeat
<1>7. CASE Take
  BY <1>7, Capacities DEF Take, webVars, helpVars, Line, Heartbeat
<1>8. CASE Drained
  BY <1>8, Capacities DEF Drained, Return, webVars, helpVars, Line, Heartbeat
<1>9. CASE Written
  BY <1>9, Capacities DEF Written, webVars, helpVars, Line, Heartbeat
<1>10. CASE Unwritten
  BY <1>10, Capacities DEF Unwritten, webVars, helpVars, Line, Heartbeat
<1>11. CASE Close
  BY <1>11, Capacities DEF Close, webVars, helpVars, Line, Heartbeat
<1>12. CASE Scan
  BY <1>12, Capacities DEF Scan, webVars, helpVars, Line, Heartbeat
<1>13. CASE ScanEnds
  BY <1>13, Capacities DEF ScanEnds, webVars, helpVars, Line, Heartbeat
<1>14. CASE Send
  BY <1>14, Capacities DEF Send, webVars, helpVars, Line, Heartbeat
<1>15. CASE Reject
  <2>1. sock' = <<>> \/ sock' = << 0 >>
    BY <1>15 DEF Reject
  <2>2. sock' \in Seq(Line) /\ Len(sock') <= Room.sock
    <3>1. 0 \in Line
      BY Capacities DEF Line
    <3>2. <<>> \in Seq(Line) /\ << 0 >> \in Seq(Line) /\ Len(<<>>) = 0 /\ Len(<< 0 >>) = 1
      BY <3>1
    <3>3. 0 <= Room.sock /\ 1 <= Room.sock
      BY Capacities
    <3>4. CASE sock' = <<>>
      BY <3>2, <3>3, <3>4
    <3>5. CASE sock' = << 0 >>
      BY <3>2, <3>3, <3>5
    <3> QED BY <2>1, <3>4, <3>5
  <2>3. /\ UNCHANGED <<browser, age, webVars, cancelled, watcher, copier, carried, child, pipe, made>>
        /\ serve' = "ended" /\ helpEnd' = "closed"
    BY <1>15 DEF Reject
  <2> QED BY <2>2, <2>3 DEF webVars
<1>16. CASE Serve
  BY <1>16, Capacities DEF Serve, webVars, helpVars, Line, Heartbeat
<1>17. CASE Watch
  BY <1>17, Capacities DEF Watch, Kill, webVars, helpVars, Line, Heartbeat
<1>18. CASE CopyRead
  BY <1>18, Capacities DEF CopyRead, webVars, helpVars, Line, Heartbeat
<1>19. CASE CopyWrite
  BY <1>19, Capacities DEF CopyWrite, webVars, helpVars, Line, Heartbeat
<1>20. CASE CopyEnds
  BY <1>20, Capacities DEF CopyEnds, webVars, helpVars, Line, Heartbeat
<1>21. CASE Done
  BY <1>21, Capacities DEF Done, Kill, webVars, helpVars, Line, Heartbeat
<1>22. CASE Log
  BY <1>22, Capacities DEF Log, webVars, helpVars, Line, Heartbeat
<1>23. CASE Dies
  BY <1>23, Capacities DEF Dies, webVars, helpVars, Line, Heartbeat
<1>24. CASE Exits
  BY <1>24, Capacities DEF Exits, webVars, helpVars, Line, Heartbeat
<1>25. CASE Over
  BY <1>25, Capacities DEF Over, vars, webVars, helpVars, Line, Heartbeat
<1>26. CASE UNCHANGED vars
  BY <1>26 DEF vars, webVars, helpVars, webVars, helpVars, Line, Heartbeat
<1> QED BY <1>1, <1>2, <1>3, <1>4, <1>5, <1>6, <1>7, <1>8, <1>9, <1>10, <1>11, <1>12, <1>13,
   <1>14, <1>15, <1>16, <1>17, <1>18, <1>19, <1>20, <1>21, <1>22, <1>23, <1>24, <1>25,
   <1>26 DEF Next

-----------------------------------------------------------------------------
(* How the goroutines stand to each other, whatever the lines are.         *)
Control == Hands /\ Unbegun /\ HelperEnds /\ NoChildLeft

(* Each step keeps how the goroutines stand to each other.                 *)
LEMMA ControlStep == ASSUME TypeOK, Control, [Next]_vars PROVE Control'
<1> USE DEF TypeOK, Control, Hands, Unbegun, HelperEnds, NoChildLeft
<1>1. CASE Leave
  BY <1>1 DEF Leave, webVars, helpVars
<1>2. CASE Notice
  BY <1>2 DEF Notice, webVars, helpVars
<1>3. CASE Tick
  BY <1>3 DEF Tick, webVars, helpVars
<1>4. CASE Dial
  BY <1>4 DEF Dial, webVars, helpVars
<1>5. CASE Stop
  BY <1>5 DEF Stop, Return, webVars, helpVars
<1>6. CASE Ping
  BY <1>6 DEF Ping, webVars, helpVars
<1>7. CASE Take
  BY <1>7 DEF Take, webVars, helpVars
<1>8. CASE Drained
  BY <1>8 DEF Drained, Return, webVars, helpVars
<1>9. CASE Written
  BY <1>9 DEF Written, webVars, helpVars
<1>10. CASE Unwritten
  BY <1>10 DEF Unwritten, webVars, helpVars
<1>11. CASE Close
  BY <1>11 DEF Close, webVars, helpVars
<1>12. CASE Scan
  BY <1>12 DEF Scan, webVars, helpVars
<1>13. CASE ScanEnds
  BY <1>13 DEF ScanEnds, webVars, helpVars
<1>14. CASE Send
  BY <1>14 DEF Send, webVars, helpVars
<1>15. CASE Reject
  BY <1>15 DEF Reject, webVars, helpVars
<1>16. CASE Serve
  BY <1>16 DEF Serve, webVars, helpVars
<1>17. CASE Watch
  BY <1>17 DEF Watch, Kill, webVars, helpVars
<1>18. CASE CopyRead
  BY <1>18 DEF CopyRead, webVars, helpVars
<1>19. CASE CopyWrite
  BY <1>19 DEF CopyWrite, webVars, helpVars
<1>20. CASE CopyEnds
  BY <1>20 DEF CopyEnds, webVars, helpVars
<1>21. CASE Done
  BY <1>21 DEF Done, Kill, webVars, helpVars
<1>22. CASE Log
  BY <1>22 DEF Log, webVars, helpVars
<1>23. CASE Dies
  BY <1>23 DEF Dies, webVars, helpVars
<1>24. CASE Exits
  BY <1>24 DEF Exits, webVars, helpVars
<1>25. CASE Over
  BY <1>25 DEF Over, vars, webVars, helpVars
<1>26. CASE UNCHANGED vars
  BY <1>26 DEF vars, webVars, helpVars, webVars, helpVars
<1> QED BY <1>1, <1>2, <1>3, <1>4, <1>5, <1>6, <1>7, <1>8, <1>9, <1>10, <1>11, <1>12, <1>13,
   <1>14, <1>15, <1>16, <1>17, <1>18, <1>19, <1>20, <1>21, <1>22, <1>23, <1>24, <1>25,
   <1>26 DEF Next

-----------------------------------------------------------------------------
(* The beginnings of the Way are sequences of lines.                       *)
LEMMA Ways ==
  ASSUME TypeOK
  PROVE  /\ shown \o out \in Seq(Line) /\ shown \o out \o lines \in Seq(Line)
         /\ shown \o out \o lines \o held \in Seq(Line)
         /\ shown \o out \o lines \o held \o sock \in Seq(Line)
         /\ shown \o out \o lines \o held \o sock \o carried \in Seq(Line)
         /\ Way \in Seq(Line)
BY ConcatProperties DEF TypeOK, Way

(* While a request lives, a step moves lines along the Way, or adds what   *)
(* the child writes, or the root helper's note.                            *)
Moves == Way' = Way /\ made' = made
Adds  == Way' = Append(Way, made + 1) /\ made' = made + 1 /\ child = "running" /\ child' = child
Notes == Way' \in {<<>>, << 0 >>} /\ made' = 0 /\ child' = "none"

(* No step loses, repeats or reorders a line while the request lives.      *)
LEMMA Kept == ASSUME TypeOK, Control, [Next]_vars, ctx' = "live" PROVE Moves \/ Adds \/ Notes
<1> DEFINE P1 == shown \o out
           P2 == P1 \o lines
           P3 == P2 \o held
           P4 == P3 \o sock
           P5 == P4 \o carried
<1>1. /\ shown \in Seq(Line) /\ out \in Seq(Line) /\ lines \in Seq(Line) /\ held \in Seq(Line)
      /\ sock \in Seq(Line) /\ carried \in Seq(Line) /\ pipe \in Seq(Line)
  BY DEF TypeOK
<1>2. /\ P1 \in Seq(Line) /\ P2 \in Seq(Line) /\ P3 \in Seq(Line)
      /\ P4 \in Seq(Line) /\ P5 \in Seq(Line) /\ Way = P5 \o pipe
  BY Ways DEF Way
<1>3. CASE UNCHANGED <<shown, out, lines, held, sock, carried, pipe, made>>
  BY <1>3 DEF Moves, Way
<1>4. CASE Take
  <2>1. out = <<>> /\ out' = <<Head(lines)>> /\ lines' = Tail(lines) /\ lines # <<>>
    BY <1>4 DEF Take, Control, Hands
  <2>2. P1' \o lines' = P2
    BY <1>1, <1>4, <2>1, MoveFirst DEF Take
  <2> QED BY <1>4, <2>2 DEF Take, helpVars, Moves, Way
<1>5. CASE Written
  <2>1. shown' = P1 /\ out' = <<>>
    BY <1>5 DEF Written
  <2>2. P1' = P1
    BY <1>2, <2>1, ConcatEmptySeq
  <2> QED BY <1>5, <2>2 DEF Written, helpVars, Moves, Way
<1>6. CASE Scan
  <2>1. held = <<>> /\ held' = <<Head(sock)>> /\ sock' = Tail(sock) /\ sock # <<>>
    BY <1>6 DEF Scan, Control, Hands
  <2>2. P2' = P2
    BY <1>6 DEF Scan
  <2>3. P3' \o sock' = P4
    <3>1. (P2 \o <<>>) \o sock = (P2 \o <<Head(sock)>>) \o Tail(sock)
      <4> HIDE DEF P1, P2, P3, P4, P5
      <4> QED BY <1>1, <1>2, <2>1, MoveFirst, Zenon
    <3> QED BY <2>1, <2>2, <3>1
  <2> QED BY <1>6, <2>3 DEF Scan, helpVars, Moves, Way
<1>7. CASE Send
  <2>1. held' = <<>> /\ lines' = lines \o held
    BY <1>7 DEF Send
  <2>2. P1' = P1
    BY <1>7 DEF Send
  <2>3. P3' = P3
    <3>1. P1 \in Seq(Line) /\ lines \in Seq(Line) /\ held \in Seq(Line)
      BY <1>1, <1>2
    <3>2. (P1 \o lines) \o held = (P1 \o (lines \o held)) \o <<>>
      <4> HIDE DEF P1, P2, P3, P4, P5
      <4> QED BY <3>1, MoveAll
    <3> QED BY <2>1, <2>2, <3>2
  <2> QED BY <1>7, <2>3 DEF Send, helpVars, Moves, Way
<1>8. CASE CopyRead
  <2>1. carried = <<>> /\ carried' = <<Head(pipe)>> /\ pipe' = Tail(pipe) /\ pipe # <<>>
    BY <1>8 DEF CopyRead, Control, Hands
  <2>2. P4' = P4
    BY <1>8 DEF CopyRead, webVars
  <2>3. P5' \o pipe' = P5 \o pipe
    <3>1. (P4 \o <<>>) \o pipe = (P4 \o <<Head(pipe)>>) \o Tail(pipe)
      <4> HIDE DEF P1, P2, P3, P4, P5
      <4> QED BY <1>1, <1>2, <2>1, MoveFirst, Zenon
    <3> QED BY <2>1, <2>2, <3>1
  <2> QED BY <1>8, <2>3 DEF CopyRead, Moves, Way
<1>9. CASE CopyWrite
  <2>1. carried' = <<>> /\ sock' = sock \o carried
    BY <1>9 DEF CopyWrite
  <2>2. P3' = P3
    BY <1>9 DEF CopyWrite, webVars
  <2>3. P5' = P5
    <3>1. P3 \in Seq(Line) /\ sock \in Seq(Line) /\ carried \in Seq(Line)
      BY <1>1, <1>2
    <3>2. (P3 \o sock) \o carried = (P3 \o (sock \o carried)) \o <<>>
      <4> HIDE DEF P1, P2, P3, P4, P5
      <4> QED BY <3>1, MoveAll
    <3> QED BY <2>1, <2>2, <3>2
  <2> QED BY <1>9, <2>3 DEF CopyWrite, Moves, Way
<1>10. CASE Log
  <2>1. /\ pipe' = Append(pipe, made + 1) /\ made' = made + 1 /\ made + 1 \in Line
        /\ child = "running" /\ child' = child
    BY <1>10, Capacities DEF Log, TypeOK, Line
  <2>2. P5' = P5
    BY <1>10 DEF Log, webVars
  <2>3. P5 \o Append(pipe, made + 1) = Append(P5 \o pipe, made + 1)
    <3>1. P5 \in Seq(Line) /\ pipe \in Seq(Line)
      BY <1>1, <1>2
    <3> HIDE DEF P1, P2, P3, P4, P5
    <3> QED BY <2>1, <3>1, AddLast
  <2> QED BY <2>1, <2>2, <2>3 DEF Adds, Way
<1>11. CASE Reject
  <2>1. /\ shown' = <<>> /\ out' = <<>> /\ lines' = <<>> /\ held' = <<>> /\ carried' = <<>> /\ pipe' = <<>>
        /\ made' = 0 /\ child' = "none"
    BY <1>11 DEF Reject, webVars, Control, Unbegun
  <2>2. sock' = <<>> \/ sock' = << 0 >>
    BY <1>11 DEF Reject
  <2>3. \A t \in Seq(Nat) : <<>> \o t = t /\ t \o <<>> = t
    BY ConcatEmptySeq
  <2>4. Way' = sock'
    <3>1. <<>> \in Seq(Nat) /\ sock' \in Seq(Nat)
      <4>1. <<>> \in Seq(Nat) /\ << 0 >> \in Seq(Nat)
        OBVIOUS
      <4> QED BY <2>2, <4>1
    <3> QED BY <2>1, <2>3, <3>1 DEF Way
  <2> QED BY <2>1, <2>2, <2>4 DEF Notes
<1>12. CASE Leave
  BY <1>3, <1>12 DEF Leave, webVars, helpVars
<1>13. CASE Notice
  BY <1>3, <1>13 DEF Notice, webVars, helpVars
<1>14. CASE Tick
  BY <1>3, <1>14 DEF Tick, webVars, helpVars
<1>15. CASE Dial
  BY <1>3, <1>15 DEF Dial, webVars, helpVars
<1>16. CASE Stop
  BY <1>3, <1>16 DEF Stop, Return, webVars, helpVars
<1>17. CASE Ping
  BY <1>3, <1>17 DEF Ping, Control, Hands, webVars, helpVars
<1>18. CASE Drained
  BY <1>3, <1>18 DEF Drained, Return, webVars, helpVars
<1>19. CASE Unwritten
  BY <1>3, <1>19 DEF Unwritten, webVars, helpVars
<1>20. CASE Close
  BY <1>3, <1>20 DEF Close, webVars, helpVars
<1>21. CASE ScanEnds
  BY <1>3, <1>21 DEF ScanEnds, webVars, helpVars
<1>22. CASE Serve
  BY <1>3, <1>22 DEF Serve, webVars, helpVars
<1>23. CASE Watch
  BY <1>3, <1>23 DEF Watch, webVars, helpVars
<1>24. CASE CopyEnds
  BY <1>3, <1>24 DEF CopyEnds, webVars, helpVars
<1>25. CASE Done
  BY <1>3, <1>25 DEF Done, webVars, helpVars
<1>26. CASE Dies
  BY <1>3, <1>26 DEF Dies, webVars, helpVars
<1>27. CASE Exits
  BY <1>3, <1>27 DEF Exits, webVars, helpVars
<1>28. CASE Over
  BY <1>3, <1>28 DEF Over, vars, webVars, helpVars
<1>29. CASE UNCHANGED vars
  BY <1>3, <1>29 DEF vars, webVars, helpVars
<1> QED BY <1>4, <1>5, <1>6, <1>7, <1>8, <1>9, <1>10, <1>11, <1>12, <1>13, <1>14, <1>15, <1>16,
   <1>17, <1>18, <1>19, <1>20, <1>21, <1>22, <1>23, <1>24, <1>25, <1>26, <1>27, <1>28,
   <1>29 DEF Next

-----------------------------------------------------------------------------
(* Lines are numbers.                                                      *)
LEMMA NumbersAreLines == Line \subseteq Nat /\ Seq(Line) \subseteq Seq(Nat)
BY Capacities DEF Line

(* The invariant holds before the request.                                 *)
LEMMA Initially == Init => IInv
<1> SUFFICES ASSUME Init PROVE IInv
  OBVIOUS
<1> USE DEF Init
<1>1. TypeOK
  <2>1. <<>> \in Seq(Line) /\ Len(<<>>) = 0 /\ 0 \in 0..Heartbeat
    BY DEF Heartbeat
  <2>2. 0 <= Room.pipe /\ 0 <= Room.sock /\ 0 <= Room.lines /\ 0 \in 0..MaxLines
    BY Capacities
  <2>3. /\ \A s \in {out, held, carried} : s \in Seq(Line) /\ Len(s) <= 1
        /\ shown \in Seq(Line) /\ made \in 0..MaxLines
    BY <2>1, <2>2
  <2>4. /\ lines \in Seq(Line) /\ Len(lines) <= Room.lines
        /\ sock \in Seq(Line) /\ Len(sock) <= Room.sock
        /\ pipe \in Seq(Line) /\ Len(pipe) <= Room.pipe
    <3>1. lines = <<>> /\ sock = <<>> /\ pipe = <<>>
      OBVIOUS
    <3> QED BY <2>1, <2>2, <3>1
  <2>5. /\ browser \in {"there", "gone"} /\ age \in 0..Heartbeat
        /\ handler \in {"idle", "select", "writing", "ended"}
        /\ ctx \in {"live", "cancelled", "over"}
    BY <2>1
  <2> QED BY <2>3, <2>4, <2>5 DEF TypeOK
<1>2. Hands /\ Unbegun /\ HelperEnds /\ NoChildLeft
  BY DEF Hands, Unbegun, HelperEnds, NoChildLeft
<1>3. Nothing /\ Silent /\ Halted /\ Complete
  BY DEF Nothing, Silent, Halted, Complete, Open
<1>4. Gapless
  <2>1. Len(<<>>) = 0
    OBVIOUS
  <2> QED BY <2>1, NoneCounted DEF Gapless
<1> QED BY <1>1, <1>2, <1>3, <1>4 DEF IInv

(* A request that lives had lived before, or begins now.                   *)
LEMMA Lives ==
  ASSUME TypeOK, Control, [Next]_vars, Open'
  PROVE  /\ ctx = "live"
         /\ serve = "none" => Dial
BY DEF TypeOK, Control, Hands, Unbegun, Open, Next, vars, webVars, helpVars,
   Leave, Notice, Tick, Dial, Return, Stop, Ping, Take, Drained, Written, Unwritten,
   Close, Scan, ScanEnds, Send, Reject, Serve, Watch, Kill, CopyRead, CopyWrite, CopyEnds,
   Done, Log, Dies, Exits, Over

(* Nobody closes the web server's end while the request lives.             *)
LEMMA EndStays ==
  ASSUME TypeOK, Control, [Next]_vars, ctx' = "live", ctx = "live", webEnd = "open"
  PROVE  webEnd' = "open"
BY DEF TypeOK, Control, Next, vars, webVars, helpVars,
   Leave, Notice, Tick, Dial, Return, Stop, Ping, Take, Drained, Written, Unwritten,
   Close, Scan, ScanEnds, Send, Reject, Serve, Watch, Kill, CopyRead, CopyWrite, CopyEnds,
   Done, Log, Dies, Exits, Over

(* Nothing is lost while the request lives.                                *)
LEMMA NothingStep == ASSUME TypeOK, Control, Nothing, [Next]_vars PROVE Nothing'
<1> SUFFICES ASSUME Open'
             PROVE  /\ webEnd' = "open"
                    /\ Way' \in {UpTo(made'), << 0 >>}
                    /\ Way' = << 0 >> => child' = "none"
  BY DEF Nothing, UpTo
<1>1. ctx = "live" /\ ctx' = "live" /\ (serve = "none" => Dial)
  BY Lives DEF Open
<1>2. CASE serve = "none"
  <2>1. webEnd' = "open" /\ child' = "none" /\ made' = 0
    BY <1>1, <1>2 DEF Dial, Control, Unbegun
  <2>2. \A s \in {shown', out', lines', held', sock', carried', pipe'} : s = <<>>
    BY <1>1, <1>2 DEF Dial, Control, Unbegun
  <2>3. Way' = <<>>
    <3>1. <<>> \o <<>> = <<>>
      <4>1. <<>> \in Seq(Nat)
        OBVIOUS
      <4> QED BY <4>1, ConcatEmptySeq
    <3> QED BY <2>2, <3>1 DEF Way
  <2> QED BY <2>1, <2>3, NoneCounted
<1>3. CASE serve # "none"
  <2>1. /\ webEnd = "open" /\ Way \in {UpTo(made), << 0 >>}
        /\ Way = << 0 >> => child = "none"
    BY <1>1, <1>3 DEF Nothing, Open
  <2>2. webEnd' = "open"
    BY <1>1, <2>1, EndStays
  <2>3. made \in Nat
    BY Capacities DEF TypeOK
  <2>4. Moves \/ Adds \/ Notes
    BY <1>1, Kept
  <2>5. CASE Moves
    <3>1. Way = << 0 >> => child' = "none"
      <4>1. CASE Serve
        <5>1. Way = <<>>
          BY <4>1, NoneOnTheWay DEF Serve, Control, Unbegun
        <5> QED BY <5>1
      <4>2. CASE ~Serve
        <5>1. child = "none" => child' = "none"
          BY <4>2 DEF Next, vars, webVars, helpVars,
             Leave, Notice, Tick, Dial, Return, Stop, Ping, Take, Drained, Written, Unwritten,
             Close, Scan, ScanEnds, Send, Reject, Watch, Kill, CopyRead, CopyWrite, CopyEnds,
             Done, Log, Dies, Exits, Over
        <5> QED BY <2>1, <5>1
      <4> QED BY <4>1, <4>2
    <3> QED BY <2>1, <2>2, <2>5, <3>1 DEF Moves
  <2>6. CASE Adds
    <3>1. Way = UpTo(made)
      BY <2>1, <2>6 DEF Adds
    <3>2. Way' = UpTo(made + 1) /\ made' = made + 1
      BY <2>3, <2>6, <3>1, Counted DEF Adds
    <3>3. UpTo(made + 1)[1] = 1
      BY <2>3 DEF UpTo
    <3>4. << 0 >>[1] = 0
      OBVIOUS
    <3> QED BY <2>2, <3>2, <3>3, <3>4
  <2>7. CASE Notes
    BY <2>2, <2>7, NoneCounted DEF Notes
  <2> QED BY <2>4, <2>5, <2>6, <2>7
<1> QED BY <1>2, <1>3

(* The copier gives up, and the watcher sees the end, when all was copied. *)
LEMMA SilentStep == ASSUME TypeOK, Control, Nothing, Silent, [Next]_vars PROVE Silent'
<1> SUFFICES ASSUME Open', cancelled'
             PROVE  copier' = "ended" /\ pipe' = <<>> /\ carried' = <<>> /\ child' = "dead"
  BY DEF Silent
<1>1. ctx = "live" /\ (serve = "none" => Dial)
  BY Lives
<1>2. serve # "none"
  BY <1>1 DEF Dial, Control, Unbegun
<1>3. Open /\ webEnd = "open"
  BY <1>1, <1>2 DEF Open, Nothing
<1>4. CASE cancelled
  <2>1. copier = "ended" /\ pipe = <<>> /\ carried = <<>> /\ child = "dead" /\ serve # "accepted"
    BY <1>3, <1>4 DEF Silent, Control, Unbegun
  <2> QED BY <2>1, <1>2 DEF Next, vars, webVars, helpVars,
       Leave, Notice, Tick, Dial, Return, Stop, Ping, Take, Drained, Written, Unwritten,
       Close, Scan, ScanEnds, Send, Reject, Serve, Watch, Kill, CopyRead, CopyWrite, CopyEnds,
       Done, Log, Dies, Exits, Over, TypeOK, Control, Unbegun
<1>5. CASE ~cancelled
  <2>1. Watch \/ CopyEnds
    BY <1>5 DEF Next, vars, webVars, helpVars,
       Leave, Notice, Tick, Dial, Return, Stop, Ping, Take, Drained, Written, Unwritten,
       Close, Scan, ScanEnds, Send, Reject, Serve, Kill, CopyRead, CopyWrite,
       Done, Log, Dies, Exits, Over
  <2>2. ~Watch
    BY <1>3, <1>5 DEF Watch, Control, HelperEnds, Unbegun
  <2>3. CopyEnds /\ copier = "reading" /\ pipe = <<>> /\ child = "dead"
    BY <1>3, <1>5, <2>1, <2>2 DEF CopyEnds, Control, HelperEnds, Unbegun
  <2> QED BY <2>3 DEF CopyEnds, Control, Hands
<1> QED BY <1>4, <1>5

(* The scanner ends at the end of the stream, or before a long line.       *)
LEMMA HaltedStep == ASSUME TypeOK, Control, Nothing, Halted, [Next]_vars PROVE Halted'
<1> SUFFICES ASSUME Open', scanner' = "ended"
             PROVE  \/ sock' = <<>> /\ helpEnd' = "closed"
                    \/ sock' # <<>> /\ Head(sock') \in Long
  BY DEF Halted
<1>1. ctx = "live" /\ (serve = "none" => Dial)
  BY Lives
<1>2. serve # "none"
  BY <1>1 DEF Dial, Open
<1>3. Open /\ webEnd = "open"
  BY <1>1, <1>2 DEF Open, Nothing
<1>4. CASE ScanEnds
  BY <1>3, <1>4 DEF ScanEnds, helpVars
<1>5. CASE scanner = "ended"
  <2>1. \/ sock = <<>> /\ helpEnd = "closed"
        \/ sock # <<>> /\ Head(sock) \in Long
    BY <1>3, <1>5 DEF Halted
  <2>2. CASE CopyWrite
    <3>1. sock # <<>> /\ Head(sock) \in Long /\ helpEnd' = helpEnd /\ sock' = sock \o carried
      BY <2>1, <2>2 DEF CopyWrite
    <3>2. sock \in Seq(Line) /\ carried \in Seq(Line)
      BY DEF TypeOK
    <3>3. sock' # <<>> /\ Head(sock') = Head(sock)
      BY <3>1, <3>2
    <3> QED BY <3>1, <3>3
  <2>3. CASE Reject
    BY <2>1, <2>3 DEF Reject, Control, Unbegun, HelperEnds
  <2>4. CASE ~CopyWrite /\ ~Reject
    <3>1. sock' = sock /\ (helpEnd = "closed" => helpEnd' = "closed")
      BY <1>2, <1>5, <2>4 DEF Next, vars, webVars, helpVars,
         Leave, Notice, Tick, Dial, Return, Stop, Ping, Take, Drained, Written, Unwritten,
         Close, Scan, ScanEnds, Send, Serve, Watch, Kill, CopyRead, CopyEnds,
         Done, Log, Dies, Exits, Over, TypeOK, Control, Unbegun
    <3> QED BY <2>1, <3>1
  <2> QED BY <2>2, <2>3, <2>4
<1>6. scanner = "ended" \/ ScanEnds
  BY <1>2 DEF Next, vars, webVars, helpVars,
     Leave, Notice, Tick, Dial, Return, Stop, Ping, Take, Drained, Written, Unwritten,
     Close, Scan, Send, Reject, Serve, Watch, Kill, CopyRead, CopyWrite, CopyEnds,
     Done, Log, Dies, Exits, Over, TypeOK, Control, Unbegun
<1> QED BY <1>4, <1>5, <1>6

(* A sequence stays a beginning when more is put behind.                   *)
LEMMA Further ==
  ASSUME NEW S, NEW a \in Seq(S), NEW b \in Seq(S), NEW c \in Seq(S),
         Len(b) >= Len(a), \A i \in 1..Len(a) : b[i] = a[i]
  PROVE  /\ b \o c \in Seq(S) /\ Len(b \o c) >= Len(a)
         /\ \A i \in 1..Len(a) : (b \o c)[i] = a[i]
<1>1. /\ Len(a) \in Nat /\ Len(b) \in Nat /\ Len(b \o c) \in Nat
      /\ b \o c \in Seq(S) /\ Len(b \o c) >= Len(b)
      /\ \A i \in 1..Len(b) : (b \o c)[i] = b[i]
  BY Front, LenProperties
<1> QED BY <1>1

(* What is written next to the browser is the beginning of the Way.        *)
LEMMA InFront ==
  ASSUME TypeOK
  PROVE  /\ shown \o out \in Seq(Line) /\ Way \in Seq(Line) /\ Len(Way) >= Len(shown \o out)
         /\ \A i \in 1..Len(shown \o out) : Way[i] = (shown \o out)[i]
<1> DEFINE Q == shown \o out
           Begins(w) == w \in Seq(Line) /\ Len(w) >= Len(Q) /\ \A i \in 1..Len(Q) : w[i] = Q[i]
<1>1. /\ lines \in Seq(Line) /\ held \in Seq(Line) /\ sock \in Seq(Line)
      /\ carried \in Seq(Line) /\ pipe \in Seq(Line)
  BY DEF TypeOK
<1>2. Q \in Seq(Line) /\ Len(Q) \in Nat
  BY Ways, LenProperties
<1>3. ASSUME NEW w, Begins(w), NEW c \in Seq(Line) PROVE Begins(w \o c)
  <2> HIDE DEF Q
  <2> QED BY <1>2, <1>3, Further
<1>4. Begins(Q)
  <2> HIDE DEF Q
  <2> QED BY <1>2
<1> HIDE DEF Begins
<1>5. Begins(Q \o lines)
  BY <1>1, <1>3, <1>4
<1>6. Begins(Q \o lines \o held)
  BY <1>1, <1>3, <1>5
<1>7. Begins(Q \o lines \o held \o sock)
  BY <1>1, <1>3, <1>6
<1>8. Begins(Q \o lines \o held \o sock \o carried)
  BY <1>1, <1>3, <1>7
<1>9. Begins(Way)
  BY <1>1, <1>3, <1>8 DEF Way
<1> QED BY <1>2, <1>9 DEF Begins

(* What has been shown is a beginning of what was written, or the root     *)
(* helper's note.                                                          *)
LEMMA GaplessStep == ASSUME TypeOK, Control, Nothing, Gapless, [Next]_vars PROVE Gapless'
<1>1. CASE shown' = shown
  BY <1>1 DEF Gapless, UpTo
<1>2. CASE Written
  <2>1. shown' = shown \o out /\ Open
    BY <1>2 DEF Written, Open, Control, Unbegun
  <2>2. Way \in {UpTo(made), << 0 >>} /\ made \in Nat
    BY <2>1, Capacities DEF Nothing, TypeOK
  <2>3. shown' \in {UpTo(Len(shown')), << 0 >>}
    <3>1. PICK a : a = shown \o out
      OBVIOUS
    <3>2. PICK w : w = Way
      OBVIOUS
    <3>3. /\ a \in Seq(Nat) /\ w \in Seq(Nat) /\ Len(w) >= Len(a)
          /\ \A i \in 1..Len(a) : w[i] = a[i]
      BY <3>1, <3>2, InFront, NumbersAreLines
    <3>4. a \in {UpTo(Len(a)), << 0 >>}
      BY <2>2, <3>2, <3>3, Beginning
    <3> QED BY <2>1, <3>1, <3>4
  <2> QED BY <2>3 DEF Gapless, UpTo
<1>3. shown' = shown \/ Written
  BY DEF Next, vars, webVars, helpVars,
     Leave, Notice, Tick, Dial, Return, Stop, Ping, Take, Drained, Unwritten,
     Close, Scan, ScanEnds, Send, Reject, Serve, Watch, CopyRead, CopyWrite, CopyEnds,
     Done, Log, Dies, Exits, Over
<1> QED BY <1>1, <1>2, <1>3

(* When lines is closed and empty, what is shown is followed by sock.      *)
LEMMA LastOnTheWay ==
  ASSUME TypeOK, out = <<>>, lines = <<>>, held = <<>>
  PROVE  /\ Way = ((shown \o sock) \o carried) \o pipe
         /\ (sock = <<>> /\ carried = <<>> /\ pipe = <<>>) => Way = shown
         /\ sock # <<>> => /\ Len(shown) + 1 <= Len(Way)
                           /\ Way[Len(shown) + 1] = Head(sock)
<1>1. /\ shown \in Seq(Line) /\ sock \in Seq(Line) /\ carried \in Seq(Line)
      /\ pipe \in Seq(Line) /\ shown \o <<>> = shown
  BY ConcatEmptySeq DEF TypeOK
<1>2. Way = ((shown \o sock) \o carried) \o pipe
  BY <1>1 DEF Way
<1>3. ASSUME sock # <<>>
      PROVE  Len(shown) + 1 <= Len(Way) /\ Way[Len(shown) + 1] = Head(sock)
  <2>1. PICK p : p = shown \o sock
    OBVIOUS
  <2>2. p \in Seq(Line) /\ Len(shown) \in Nat /\ Len(shown) + 1 <= Len(p) /\ p[Len(shown) + 1] = Head(sock)
    BY <1>1, <1>3, <2>1
  <2>3. p \o carried \in Seq(Line) /\ Len(p \o carried) >= Len(p) /\ \A i \in 1..Len(p) : (p \o carried)[i] = p[i]
    BY <1>1, <2>2, Front
  <2>4. Len((p \o carried) \o pipe) >= Len(p) /\ \A i \in 1..Len(p) : ((p \o carried) \o pipe)[i] = p[i]
    BY <1>1, <2>2, <2>3, Further
  <2>5. Len((p \o carried) \o pipe) \in Nat /\ Len(p) \in Nat
    BY <1>1, <2>2, <2>3, ConcatProperties, LenProperties
  <2> QED BY <1>2, <2>1, <2>2, <2>4, <2>5
<1> QED BY <1>1, <1>2, <1>3

(* A stream that ends by itself has shown all that there was.              *)
LEMMA DrainedAll ==
  ASSUME TypeOK, Control, Nothing, Silent, Halted, Drained, Open
  PROVE  \/ shown = << 0 >>
         \/ Len(shown) = made /\ child \in {"dead", "none"} /\ serve # "accepted"
         \/ Len(shown) + 1 \in Long
<1>1. out = <<>> /\ lines = <<>> /\ held = <<>> /\ scanner = "ended"
  BY DEF Drained, Control, Hands
<1>2. Way \in {UpTo(made), << 0 >>} /\ made \in Nat
  BY Capacities DEF Nothing, TypeOK
<1>3. CASE sock = <<>> /\ helpEnd = "closed"
  <2>1. serve = "ended" /\ carried = <<>> /\ pipe = <<>> /\ child \in {"dead", "none"}
    BY <1>3 DEF Control, HelperEnds, Unbegun, Silent
  <2>2. Way = shown
    BY <1>1, <1>3, <2>1, LastOnTheWay
  <2>3. Len(UpTo(made)) = made
    BY <1>2, Counted
  <2> QED BY <1>2, <2>1, <2>2, <2>3
<1>4. CASE sock # <<>> /\ Head(sock) \in Long
  <2>1. Len(shown) \in Nat /\ Len(shown) + 1 <= Len(Way) /\ Way[Len(shown) + 1] = Head(sock)
    <3>1. shown \in Seq(Line)
      BY DEF TypeOK
    <3> QED BY <1>1, <1>4, <3>1, LastOnTheWay, LenProperties
  <2>2. Head(sock) \in 1..MaxLines
    BY <1>4, Capacities
  <2>3. CASE Way = UpTo(made)
    <3>1. Len(Way) = made /\ \A i \in 1..made : Way[i] = i
      BY <1>2, <2>3, Counted
    <3> QED BY <1>2, <1>4, <2>1, <3>1
  <2>4. CASE Way = << 0 >>
    <3>1. Len(<< 0 >>) = 1 /\ << 0 >>[1] = 0
      OBVIOUS
    <3>2. Len(shown) = 0
      BY <2>1, <2>4, <3>1
    <3>3. Head(sock) = 0
      BY <2>1, <2>4, <3>1, <3>2
    <3> QED BY <2>2, <3>3
  <2> QED BY <1>2, <2>3, <2>4
<1> QED BY <1>1, <1>3, <1>4 DEF Halted

(* A request that ends by itself has shown everything, the root helper's   *)
(* note, or all that is before a line that is too long.                    *)
LEMMA CompleteStep ==
  ASSUME TypeOK, Control, Nothing, Silent, Halted, Complete, [Next]_vars
  PROVE  Complete'
<1> SUFFICES ASSUME ctx' = "over"
             PROVE  /\ handler' = "ended"
                    /\ serve' # "none" =>
                         \/ shown' = << 0 >>
                         \/ Len(shown') = made' /\ child' \in {"dead", "none"} /\ serve' # "accepted"
                         \/ Len(shown') + 1 \in Long
  BY DEF Complete
<1>1. CASE ctx = "over"
  <2>1. handler = "ended"
    BY <1>1 DEF Complete
  <2>2. /\ handler' = "ended" /\ shown' = shown /\ (serve' # "none" => serve # "none")
        /\ (serve # "accepted" => serve' # "accepted")
    BY <2>1 DEF Next, vars, webVars, helpVars,
       Leave, Notice, Tick, Dial, Return, Stop, Ping, Take, Drained, Written, Unwritten,
       Close, Scan, ScanEnds, Send, Reject, Serve, Watch, CopyRead, CopyWrite, CopyEnds,
       Done, Log, Dies, Exits, Over
  <2>3. (child \in {"dead", "none"} /\ serve # "accepted") => child' = child /\ made' = made
    BY <2>1 DEF Next, vars, webVars, helpVars,
       Leave, Notice, Tick, Dial, Return, Stop, Ping, Take, Drained, Written, Unwritten,
       Close, Scan, ScanEnds, Send, Reject, Serve, Watch, Kill, CopyRead, CopyWrite, CopyEnds,
       Done, Log, Dies, Exits, Over
  <2> QED BY <1>1, <2>1, <2>2, <2>3 DEF Complete
<1>2. CASE ctx # "over"
  <2>1. (Dial /\ handler' = "ended" /\ UNCHANGED serve) \/ (Drained /\ ctx = "live")
    BY <1>2 DEF TypeOK, Next, vars, webVars, helpVars,
       Leave, Notice, Tick, Dial, Return, Stop, Ping, Take, Drained, Written, Unwritten,
       Close, Scan, ScanEnds, Send, Reject, Serve, Watch, CopyRead, CopyWrite, CopyEnds,
       Done, Log, Dies, Exits, Over
  <2>2. CASE Dial /\ handler' = "ended" /\ UNCHANGED serve
    BY <2>2 DEF Dial, Control, Unbegun
  <2>3. CASE Drained /\ ctx = "live"
    <3>1. /\ handler' = "ended" /\ shown' = shown /\ serve' = serve /\ made' = made /\ child' = child
      BY <2>3 DEF Drained, Return, helpVars
    <3> QED BY <2>3, <3>1, DrainedAll DEF Open
  <2> QED BY <2>1, <2>2, <2>3
<1> QED BY <1>1, <1>2

(* Each step keeps the invariant.                                          *)
LEMMA Inductive == ASSUME IInv, [Next]_vars PROVE IInv'
<1>1. TypeOK /\ Control /\ Nothing /\ Silent /\ Halted /\ Gapless /\ Complete
  BY DEF IInv, Control
<1>2. TypeOK' /\ Control'
  BY <1>1, TypeStep, ControlStep
<1>3. Nothing' /\ Silent' /\ Halted'
  BY <1>1, NothingStep, SilentStep, HaltedStep
<1>4. Gapless' /\ Complete'
  BY <1>1, GaplessStep, CompleteStep
<1> QED BY <1>2, <1>3, <1>4 DEF IInv, Control

(* The variables keep their types, and no buffer exceeds its capacity.     *)
THEOREM Typing == Spec => []TypeOK
<1>1. IInv => TypeOK
  BY DEF IInv
<1> QED BY <1>1, Initially, Inductive, PTL DEF Spec

(* What the browser is shown has no gap, no line twice and none out of     *)
(* order; no line of a live request is lost between the two processes; and *)
(* a stream that ended by itself has shown all.                            *)
THEOREM Ordered == Spec => []InOrder
<1>1. IInv => InOrder
  BY DEF IInv, InOrder, Gapless, Nothing, Open, Complete
<1> QED BY <1>1, Initially, Inductive, PTL DEF Spec

(* The root helper's handler never returns with its child running.         *)
THEOREM KilledChild == Spec => []NoChildLeft
<1>1. IInv => NoChildLeft
  BY DEF IInv
<1> QED BY <1>1, Initially, Inductive, PTL DEF Spec
================================================================================
