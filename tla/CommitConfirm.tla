--------------------------- MODULE CommitConfirm ----------------------------
(***************************************************************************)
(* What pkg/configtx/network.go promises about a network configuration: a  *)
(* committed change is on trial, alone on its target, until it is kept     *)
(* because an administrator confirmed it or reverted because nobody did.   *)
(* That a trial ends is no part of it: the commands run for a change have  *)
(* no deadline.  ConfigTx is shown to implement this specification.        *)
(***************************************************************************)
CONSTANTS
  Changes,     \* transactions on network targets
  Places,      \* network targets
  PlaceOf,     \* the target of each change
  NoChange     \* no change is on trial

VARIABLES
  trial,       \* the change on trial at each target
  asked,       \* changes whose confirmation has been asked for
  verdict      \* "none", "kept", "reverted" for each change

vars == <<trial, asked, verdict>>

Init == /\ trial = [p \in Places |-> NoChange]
        /\ asked = {}
        /\ verdict = [c \in Changes |-> "none"]

Try(c) == /\ verdict[c] = "none"
          /\ trial[PlaceOf[c]] = NoChange
          /\ trial' = [trial EXCEPT ![PlaceOf[c]] = c]
          /\ UNCHANGED <<asked, verdict>>

Ask(c) == /\ asked' = asked \cup {c}
          /\ UNCHANGED <<trial, verdict>>

(* The change could not be applied: it was never live. *)
Refuse(c) == /\ trial[PlaceOf[c]] = c
             /\ trial' = [trial EXCEPT ![PlaceOf[c]] = NoChange]
             /\ UNCHANGED <<asked, verdict>>

End(c) == /\ trial[PlaceOf[c]] = c
          /\ \/ c \in asked /\ verdict' = [verdict EXCEPT ![c] = "kept"]
             \/ verdict' = [verdict EXCEPT ![c] = "reverted"]
          /\ trial' = [trial EXCEPT ![PlaceOf[c]] = NoChange]
          /\ UNCHANGED asked

(* The process dies and forgets every trial. *)
Forget == /\ trial' = [p \in Places |-> NoChange]
          /\ UNCHANGED <<asked, verdict>>

Next == (\E c \in Changes : Try(c) \/ Ask(c) \/ Refuse(c) \/ End(c)) \/ Forget

Spec == Init /\ [][Next]_vars
=============================================================================
