------------------------------- MODULE AtMostOnce -------------------------------
(***************************************************************************)
(* A remote procedure call without retries: the work of a call is done at  *)
(* most once, and what its caller is told is true for good.  A caller told *)
(* "unknown" cannot know: the work may have been done, may be under way or *)
(* may not even have begun, and can still begin.                           *)
(***************************************************************************)
CONSTANT Calls
VARIABLES work, told
vars == <<work, told>>

Init == /\ work = [c \in Calls |-> "none"]
        /\ told = [c \in Calls |-> "nothing"]

(* Work begins for a caller that has not been told how it came out.        *)
Begin(c) == /\ work[c] = "none" /\ told[c] \in {"nothing", "unknown"}
            /\ work' = [work EXCEPT ![c] = "begun"]
            /\ UNCHANGED told
(* Several calls end at once when the server dies.                         *)
End(S)   == /\ S # {} /\ \A c \in S : work[c] = "begun"
            /\ work' = [c \in Calls |-> IF c \in S THEN "ended" ELSE work[c]]
            /\ UNCHANGED told
Tell(c, v) == /\ told[c] = "nothing"
              /\ v \in {"done", "error"} => work[c] = "ended"
              /\ v = "refused" => work[c] = "none"
              /\ told' = [told EXCEPT ![c] = v]
              /\ UNCHANGED work

Next == \/ \E c \in Calls : Begin(c) \/ \E v \in {"done", "error", "refused", "unknown"} : Tell(c, v)
        \/ \E S \in SUBSET Calls : End(S)
Spec == Init /\ [][Next]_vars
================================================================================
