--------------------------- MODULE ConfigTxProofs ---------------------------
(***************************************************************************)
(* Proofs about ConfigTx for every set of transactions and targets, with   *)
(* every fault, cleanup and process death: the windows, where contents     *)
(* come from, what is on trial and what is saved, and the safety of the    *)
(* refinement of CommitConfirm.                                            *)
(***************************************************************************)
EXTENDS ConfigTx, SequenceTheorems, TLAPS

(* A transaction is either still in its Commit or already in awaitConfirm. *)
Exclusive == \A x \in Txs : call[x] \in {"apply", "arm"}
                              => window[x] \in {"none", "kept", "reverted"}

IInv == TypeOK /\ OneWindow /\ Exclusive
-----------------------------------------------------------------------------
(* What a file may contain, the statuses of transaction.go, and where a    *)
(* call or a window may be.                                                *)
LEMMA Values == /\ \A c \in Txs \cup {Orig, Absent, Torn} : c \in Contents
                /\ \A s \in {"none", "pending", "staged", "validated", "committed", "confirmed",
                             "rolled_back", "failed", "lost"} : s \in Statuses
                /\ \A c \in {"idle", "begin", "apply", "arm", "persist", "saving", "restore"} : c \in Calls
                /\ \A w \in {"none", "wait", "confirming", "persisting", "saving", "keeping",
                             "restoring", "reverting", "kept", "reverted"} : w \in Windows
  BY DEF Contents, Special, Statuses, Calls, Windows

(* What the proofs use of the assumptions about the constants.             *)
LEMMA Wiring == /\ TargetOf \in [Txs -> Targets]
                /\ NoTx \notin Txs
                /\ Orig \notin Txs /\ Absent \notin Txs /\ Torn \notin Txs /\ NoCopy \notin Txs
                /\ NoImage \notin Images
                /\ MaxConfirms \in Nat /\ MaxCleanups \in Nat /\ MaxCrashes \in Nat
  BY ConfigAssumption DEF Contents, Special

(* The three ways to change a live file keep the files' types.             *)
FilesOK == /\ live \in [Targets -> Contents]
           /\ copying \in [Txs \X Who -> Contents \cup {NoCopy}]

(* The rename that commits a copy keeps them.                              *)
LEMMA RenameType ==
  ASSUME TypeOK, NEW x \in Txs, Rename(x)
  PROVE  FilesOK'
<1>1. live' \in [Targets -> Contents]
  BY Wiring, Values DEF TypeOK, Rename
<1>2. copying' \in [Txs \X Who -> Contents \cup {NoCopy}]
  BY DEF TypeOK, Rename
<1> QED
  BY <1>1, <1>2 DEF FilesOK

(* What else it does.                                                      *)
LEMMA RenameRest ==
  ASSUME TypeOK, NEW x \in Txs, Rename(x)
  PROVE  /\ staged' \subseteq Txs /\ touched' \subseteq Targets /\ before' \in [Txs -> SUBSET Txs]
         /\ UNCHANGED <<disk, bak, reading, saving, passed>>
<1>1. Saving \subseteq Txs
  BY DEF Saving
<1> QED
  BY <1>1 DEF TypeOK, Rename

(* A restore that opens the live file keeps the files' types.               *)
LEMMA OpenLiveType ==
  ASSUME TypeOK, NEW x \in Txs, NEW who \in Who, OpenLive(x, who)
  PROVE  FilesOK'
<1>1. live' \in [Targets -> Contents]
  BY Wiring, Values DEF TypeOK, OpenLive
<1>2. bak[slot[x]] \in Contents /\ <<x, who>> \in Txs \X Who
  BY DEF TypeOK
<1>3. copying' \in [Txs \X Who -> Contents \cup {NoCopy}]
  BY <1>2 DEF TypeOK, OpenLive
<1> QED
  BY <1>1, <1>3 DEF FilesOK

(* So does one that writes and closes it.                                  *)
LEMMA WriteLiveType ==
  ASSUME TypeOK, NEW x \in Txs, NEW who \in Who, WriteLive(x, who)
  PROVE  FilesOK'
<1>1. <<x, who>> \in Txs \X Who /\ copying[<<x, who>>] \in Contents \cup {NoCopy}
  BY DEF TypeOK
<1>2. live' \in [Targets -> Contents]
  BY <1>1, Wiring, Values DEF TypeOK, WriteLive
<1>3. copying' \in [Txs \X Who -> Contents \cup {NoCopy}]
  BY <1>1 DEF TypeOK, WriteLive
<1> QED
  BY <1>2, <1>3 DEF FilesOK

(* Every variable keeps the values the code can give it.                   *)
THEOREM Typing == Spec => []TypeOK
<1>1. Init => TypeOK
  BY Wiring, Values DEF Init, TypeOK, Who
<1>2. TypeOK /\ [Next]_vars => TypeOK'
  <2> SUFFICES ASSUME TypeOK, [Next]_vars
               PROVE  TypeOK'
    OBVIOUS
  <2> USE DEF Fails, Calls, Windows
  <2>1. ASSUME NEW x \in Txs, Begin(x) PROVE TypeOK'
    <3>1. PICK s \in BackupFile(x) :
            /\ slot' = [slot EXCEPT ![x] = s]
            /\ \/ /\ bak' = [bak EXCEPT ![s] = Torn]
                  /\ reading' = [reading EXCEPT ![x] = live[TargetOf[x]]]
               \/ UNCHANGED <<bak, reading>>
      BY <2>1 DEF Begin
    <3>2. s \in Txs /\ live[TargetOf[x]] \in Contents
      BY Wiring DEF BackupFile, TypeOK
    <3>3. slot' \in [Txs -> Txs] /\ bak' \in [Txs -> Contents] /\ reading' \in [Txs -> Contents \cup {NoCopy}]
      BY <3>1, <3>2, Values DEF TypeOK
    <3>4. call' \in [Txs -> Calls]
      BY <2>1, Values DEF Begin, TypeOK
    <3> QED
      BY <2>1, <3>3, <3>4 DEF Begin, TypeOK, files, book, net, jobs, history, bounds
  <2>2. ASSUME NEW x \in Txs, BeginEnd(x) PROVE TypeOK'
    <3>1. bak' \in [Txs -> Contents] /\ reading' \in [Txs -> Contents \cup {NoCopy}]
      <4>1. slot[x] \in Txs /\ reading[x] \in Contents \cup {NoCopy}
        BY DEF TypeOK
      <4> QED
        BY <2>2, <4>1, Values DEF BeginEnd, WriteBackup, TypeOK
    <3>2. status' \in [Txs -> Statuses] /\ order' \in Seq(Txs) /\ known' \subseteq Txs
      <4>1. \/ /\ status' = [status EXCEPT ![x] = "pending"] /\ known' = known \cup {x}
               /\ order' = Append(order, x)
            \/ UNCHANGED <<status, known, order>>
        BY <2>2 DEF BeginEnd
      <4>2. status \in [Txs -> Statuses] /\ order \in Seq(Txs) /\ known \subseteq Txs
        BY DEF TypeOK
      <4>3. [status EXCEPT ![x] = "pending"] \in [Txs -> Statuses] /\ Append(order, x) \in Seq(Txs)
        BY <4>2, Values, AppendProperties
      <4> QED
        BY <4>1, <4>2, <4>3
    <3>3. call' \in [Txs -> Calls]
      BY <2>2, Values DEF BeginEnd, TypeOK
    <3> QED
      BY <2>2, <3>1, <3>2, <3>3 DEF BeginEnd, TypeOK, history, bounds, net
  <2>3. ASSUME NEW x \in Txs, Stage(x) PROVE TypeOK'
    <3>1. status' \in [Txs -> Statuses]
      BY <2>3, Values DEF Stage, TypeOK
    <3> QED
      BY <2>3, <3>1 DEF Stage, TypeOK, files, book, net, jobs, history, bounds
  <2>4. ASSUME NEW x \in Txs, Validate(x) PROVE TypeOK'
    <3>1. status' \in [Txs -> Statuses]
      BY <2>4, Values DEF Validate, TypeOK
    <3> QED
      BY <2>4, <3>1 DEF Validate, TypeOK, files, book, net, jobs, history, bounds
  <2>5. ASSUME NEW x \in Txs, CommitNet(x) PROVE TypeOK'
    <3>1. status' \in [Txs -> Statuses]
      BY <2>5, Values DEF CommitNet, TypeOK
    <3>2. pending' \in [Targets -> Txs \cup {NoTx}]
      <4>1. pending' = [pending EXCEPT ![TargetOf[x]] = x] \/ pending' = pending
        BY <2>5 DEF CommitNet
      <4>2. pending \in [Targets -> Txs \cup {NoTx}]
        BY DEF TypeOK
      <4> QED
        BY <4>1, <4>2
    <3>3. call' \in [Txs -> Calls]
      BY <2>5 DEF CommitNet, TypeOK
    <3> QED
      BY <2>5, <3>1, <3>2, <3>3 DEF CommitNet, TypeOK, files, book, net, jobs, history, bounds
  <2>6. ASSUME NEW x \in Txs, CommitLocal(x) PROVE TypeOK'
    <3>1. FilesOK'
      <4>1. Rename(x) \/ UNCHANGED <<files, copying>>
        BY <2>6 DEF CommitLocal, jobs
      <4> QED
        BY <4>1, RenameType DEF FilesOK, TypeOK, files
    <3>2. status' \in [Txs -> Statuses]
      BY <2>6, Values DEF CommitLocal, TypeOK
    <3> QED
      <4>1. call' \in [Txs -> Calls]
        <5>1. call' \in {call, [call EXCEPT ![x] = "persist"]}
          BY <2>6 DEF CommitLocal
        <5>2. call \in [Txs -> Calls]
          BY DEF TypeOK
        <5> QED
          BY <5>1, <5>2
      <4>2. UNCHANGED <<known, slot, order, recent, window, net, bounds>>
        BY <2>6 DEF CommitLocal
      <4>3. CASE Rename(x)
        BY <3>1, <3>2, <4>1, <4>2, <4>3, RenameRest DEF FilesOK, TypeOK, net, bounds
      <4>4. CASE UNCHANGED <<files, jobs, history>>
        BY <3>2, <4>1, <4>2, <4>4 DEF TypeOK, files, net, jobs, history, bounds
      <4> QED
        BY <2>6, <4>3, <4>4 DEF CommitLocal
  <2>7. ASSUME NEW x \in Txs, Rollback(x) PROVE TypeOK'
    <3>1. FilesOK'
      BY <2>7, OpenLiveType DEF Rollback, FilesOK, TypeOK, Who
    <3>2. status' \in [Txs -> Statuses]
      BY <2>7, Values DEF Rollback, TypeOK
    <3> QED
      <4>1. call' \in [Txs -> Calls]
        <5>1. call' \in {call, [call EXCEPT ![x] = "restore"]}
          BY <2>7 DEF Rollback
        <5>2. call \in [Txs -> Calls]
          BY DEF TypeOK
        <5> QED
          BY <5>1, <5>2
      <4>3. staged' \subseteq Txs /\ touched' \subseteq Targets
        BY <2>7, Wiring DEF Rollback, TypeOK
      <4>2. UNCHANGED <<disk, bak, known, slot, order, recent, window, net, reading, saving,
                        passed, before, bounds>>
        BY <2>7 DEF Rollback
      <4> QED
        BY <3>1, <3>2, <4>1, <4>2, <4>3 DEF FilesOK, TypeOK, net, bounds
  <2>8. ASSUME NEW x \in Txs, Lookup(x) PROVE TypeOK'
    BY <2>8, Wiring DEF Lookup, TypeOK, files, book, net, jobs, history, bounds
  <2>9. ASSUME NEW x \in Txs, CloseChannel(x) PROVE TypeOK'
    BY <2>9, Wiring DEF CloseChannel, TypeOK, files, book, net, jobs, history, bounds
  <2>10. ASSUME NEW x \in Txs, DoubleClose(x) PROVE TypeOK'
    BY <2>10, Values, Wiring DEF DoubleClose, Die, TypeOK, files, book, net, jobs, history, bounds
  <2>11. ASSUME NEW x \in Txs, Apply(x) PROVE TypeOK'
    <3>1. FilesOK'
      <4>1. Rename(x) \/ UNCHANGED <<files, copying>>
        BY <2>11 DEF Apply, jobs
      <4> QED
        BY <4>1, RenameType DEF FilesOK, TypeOK, files
    <3> QED
      <4>1. call' \in [Txs -> Calls]
        <5>1. call' \in {call, [call EXCEPT ![x] = "arm"], [call EXCEPT ![x] = "idle"]}
          BY <2>11 DEF Apply
        <5>2. call \in [Txs -> Calls]
          BY DEF TypeOK
        <5> QED
          BY <5>1, <5>2
      <4>2. pending' \in [Targets -> Txs \cup {NoTx}] /\ UNCHANGED <<book, window, closed, grabbed, bounds>>
        BY <2>11 DEF Apply, TypeOK
      <4>3. CASE Rename(x)
        BY <3>1, <4>1, <4>2, <4>3, RenameRest DEF FilesOK, TypeOK, book, bounds
      <4>4. CASE UNCHANGED <<files, jobs, history>>
        BY <4>1, <4>2, <4>4 DEF TypeOK, files, book, jobs, history, bounds
      <4> QED
        BY <2>11, <4>3, <4>4 DEF Apply
  <2>12. ASSUME NEW x \in Txs, Arm(x) PROVE TypeOK'
    BY <2>12, Wiring DEF Arm, TypeOK, files, book, net, jobs, history, bounds
  <2>13. ASSUME NEW x \in Txs, StartSave(x) PROVE TypeOK'
    <3>1. live \in Images
      BY DEF TypeOK, Images
    <3>2. call' \in [Txs -> Calls] /\ window' \in [Txs -> Windows]
      BY <2>13, Values DEF StartSave, TypeOK
    <3> QED
      BY <2>13, <3>1, <3>2 DEF StartSave, TypeOK, files, book, net, history, bounds
  <2>14. ASSUME NEW x \in Txs, RollbackEnd(x) PROVE TypeOK'
    <3>1. FilesOK'
      BY <2>14, WriteLiveType DEF RollbackEnd, FilesOK, TypeOK, Who
    <3>2. status' \in [Txs -> Statuses]
      BY <2>14, Values DEF RollbackEnd, TypeOK
    <3> QED
      BY <2>14, <3>1, <3>2, Values, Wiring DEF RollbackEnd, FilesOK, TypeOK, files, book, net,
         history, bounds
  <2>15. ASSUME NEW x \in Txs, Selected(x) PROVE TypeOK'
    BY <2>15, Wiring DEF Selected, TypeOK, files, book, net, jobs, history, bounds
  <2>16. ASSUME NEW x \in Txs, EndSave(x) PROVE TypeOK'
    <3>1. /\ disk' \in [Targets -> Contents] /\ saving' \in [Txs -> Images \cup {NoImage}]
          /\ before' \in [Txs -> SUBSET Txs]
      BY <2>16 DEF EndSave, WriteImage, TypeOK, Images
    <3>2. call' \in [Txs -> Calls] /\ window' \in [Txs -> Windows] /\ status' \in [Txs -> Statuses]
      <4>1. call' \in [Txs -> Calls]
        BY <2>16 DEF EndSave, TypeOK
      <4>2. window' \in [Txs -> Windows]
        BY <2>16 DEF EndSave, TypeOK
      <4>3. status' = status \/ status' = [status EXCEPT ![x] = "confirmed"]
        BY <2>16 DEF EndSave
      <4> QED
        BY <4>1, <4>2, <4>3, Values DEF TypeOK
    <3> QED
      BY <2>16, <3>1, <3>2 DEF EndSave, TypeOK, net, bounds
  <2>24. ASSUME NEW x \in Txs, NoSave(x) PROVE TypeOK'
    <3>1. call' \in [Txs -> Calls] /\ window' \in [Txs -> Windows] /\ status' \in [Txs -> Statuses]
      <4>1. call' \in [Txs -> Calls]
        <5>1. call' \in {call, [call EXCEPT ![x] = "idle"]}
          BY <2>24 DEF NoSave
        <5>2. call \in [Txs -> Calls]
          BY DEF TypeOK
        <5> QED
          BY <5>1, <5>2
      <4>2. window' \in [Txs -> Windows]
        BY <2>24 DEF NoSave, TypeOK
      <4>3. status' = status \/ status' = [status EXCEPT ![x] = "confirmed"]
        BY <2>24 DEF NoSave
      <4> QED
        BY <4>1, <4>2, <4>3, Values DEF TypeOK
    <3> QED
      BY <2>24, <3>1 DEF NoSave, TypeOK, files, net, jobs, history, bounds
  <2>17. ASSUME NEW x \in Txs, Timeout(x) PROVE TypeOK'
    <3>1. FilesOK'
      BY <2>17, OpenLiveType DEF Timeout, FilesOK, TypeOK, Who
    <3> QED
      <4>1. window' \in [Txs -> Windows] /\ recent' \in [Targets -> Txs \cup {NoTx}]
        BY <2>17 DEF Timeout, TypeOK
      <4> QED
        BY <2>17, <3>1, <4>1 DEF Timeout, FilesOK, TypeOK, net, history, bounds
  <2>18. ASSUME NEW x \in Txs, TimeoutEnd(x) PROVE TypeOK'
    <3>1. FilesOK'
      BY <2>18, WriteLiveType DEF TimeoutEnd, FilesOK, TypeOK, Who
    <3> QED
      BY <2>18, <3>1, Values, Wiring DEF TimeoutEnd, FilesOK, TypeOK, files, book, net, jobs, history,
         bounds
  <2>19. ASSUME NEW x \in Txs, Close(x) PROVE TypeOK'
    BY <2>19, Wiring DEF Close, TypeOK, files, book, net, jobs, history, bounds
  <2>20. ASSUME NEW x \in Txs, OnConfirm(x) PROVE TypeOK'
    BY <2>20, Values DEF OnConfirm, TypeOK, files, book, net, jobs, history, bounds
  <2>21. CASE Cleanup
    BY <2>21, Values, Wiring DEF Cleanup, TypeOK, files, book, net, jobs, history, bounds
  <2>22. CASE Crash
    BY <2>22, Values, Wiring DEF Crash, Die, TypeOK, files, book, net, jobs, history, bounds
  <2>23. CASE UNCHANGED vars
    BY <2>23 DEF vars, TypeOK, files, book, net, jobs, history, bounds
  <2> QED
    BY <2>1, <2>2, <2>3, <2>4, <2>5, <2>6, <2>7, <2>8, <2>9, <2>10, <2>11, <2>12, <2>13, <2>14,
       <2>15, <2>16, <2>17, <2>18, <2>19, <2>20, <2>21, <2>22, <2>23, <2>24 DEF Next, Caller, Serving,
       Waiting, Commands, Quiet
<1> QED
  BY <1>1, <1>2, PTL DEF Spec

-----------------------------------------------------------------------------
(* The invariant behind OneWindow holds initially and is kept by every     *)
(* step.                                                                   *)
LEMMA IInvInit == Init => IInv
<1> SUFFICES ASSUME Init PROVE IInv
  OBVIOUS
<1>1. TypeOK
  BY Wiring, Values DEF Init, TypeOK, Who
<1>2. OneWindow /\ Exclusive
  BY Wiring DEF Init, OneWindow, OnTrial, Exclusive
<1> QED
  BY <1>1, <1>2 DEF IInv

(* CommitNet claims a free target, Apply and Close give up a claimed one,  *)
(* Arm passes it on, and nobody else touches it.                           *)
LEMMA IInvStep == IInv /\ [Next]_vars /\ TypeOK' => IInv'
<1> SUFFICES ASSUME TypeOK, TypeOK', OneWindow, Exclusive, [Next]_vars
             PROVE  OneWindow' /\ Exclusive'
  BY DEF IInv
<1>t. /\ call \in [Txs -> Calls]
      /\ window \in [Txs -> Windows]
      /\ pending \in [Targets -> Txs \cup {NoTx}]
  BY DEF TypeOK
<1> USE DEF OneWindow, OnTrial, Exclusive, Calls, Windows
<1>1. ASSUME NEW x \in Txs, Begin(x) PROVE OneWindow' /\ Exclusive'
  BY <1>t, <1>1, Wiring DEF Begin, net
<1>2. ASSUME NEW x \in Txs, BeginEnd(x) PROVE OneWindow' /\ Exclusive'
  BY <1>t, <1>2, Wiring DEF BeginEnd, net
<1>3. ASSUME NEW x \in Txs, Stage(x) PROVE OneWindow' /\ Exclusive'
  BY <1>3 DEF Stage, net
<1>4. ASSUME NEW x \in Txs, Validate(x) PROVE OneWindow' /\ Exclusive'
  BY <1>4 DEF Validate, net
<1>5. ASSUME NEW x \in Txs, CommitNet(x) PROVE OneWindow' /\ Exclusive'
  BY <1>t, <1>5, Wiring DEF CommitNet, net
<1>6. ASSUME NEW x \in Txs, CommitLocal(x) PROVE OneWindow' /\ Exclusive'
  BY <1>t, <1>6, Wiring DEF CommitLocal, net
<1>7. ASSUME NEW x \in Txs, Rollback(x) PROVE OneWindow' /\ Exclusive'
  BY <1>t, <1>7, Wiring DEF Rollback, net
<1>8. ASSUME NEW x \in Txs, Lookup(x) PROVE OneWindow' /\ Exclusive'
  BY <1>8 DEF Lookup
<1>9. ASSUME NEW x \in Txs, CloseChannel(x) PROVE OneWindow' /\ Exclusive'
  BY <1>9 DEF CloseChannel
<1>10. ASSUME NEW x \in Txs, DoubleClose(x) PROVE OneWindow' /\ Exclusive'
  BY <1>t, <1>10, Wiring DEF DoubleClose, Die
<1>11. ASSUME NEW x \in Txs, Apply(x) PROVE OneWindow' /\ Exclusive'
  BY <1>t, <1>11, Wiring DEF Apply, net
<1>12. ASSUME NEW x \in Txs, Arm(x) PROVE OneWindow' /\ Exclusive'
  BY <1>t, <1>12, Wiring DEF Arm, net
<1>13. ASSUME NEW x \in Txs, StartSave(x) PROVE OneWindow' /\ Exclusive'
  BY <1>t, <1>13, Wiring DEF StartSave, net
<1>14. ASSUME NEW x \in Txs, RollbackEnd(x) PROVE OneWindow' /\ Exclusive'
  BY <1>t, <1>14, Wiring DEF RollbackEnd, net
<1>15. ASSUME NEW x \in Txs, Selected(x) PROVE OneWindow' /\ Exclusive'
  BY <1>t, <1>15, Wiring DEF Selected, net
<1>16. ASSUME NEW x \in Txs, EndSave(x) PROVE OneWindow' /\ Exclusive'
  BY <1>t, <1>16, Wiring DEF EndSave, net
<1>24. ASSUME NEW x \in Txs, NoSave(x) PROVE OneWindow' /\ Exclusive'
  BY <1>t, <1>24, Wiring DEF NoSave, net
<1>17. ASSUME NEW x \in Txs, Timeout(x) PROVE OneWindow' /\ Exclusive'
  BY <1>t, <1>17, Wiring DEF Timeout, net
<1>18. ASSUME NEW x \in Txs, TimeoutEnd(x) PROVE OneWindow' /\ Exclusive'
  BY <1>t, <1>18, Wiring DEF TimeoutEnd, net
<1>19. ASSUME NEW x \in Txs, Close(x) PROVE OneWindow' /\ Exclusive'
  <2>1. /\ window[x] \in {"keeping", "reverting"}
        /\ window' = [window EXCEPT ![x] = IF @ = "keeping" THEN "kept" ELSE "reverted"]
        /\ pending' = [pending EXCEPT ![TargetOf[x]] = NoTx]
        /\ call' = call
    BY <1>19 DEF Close
  <2>2. pending[TargetOf[x]] = x /\ call[x] \notin {"apply", "arm"}
    BY <2>1
  <2>3. window'[x] \in {"kept", "reverted"} /\ \A y \in Txs \ {x} : window'[y] = window[y]
    BY <1>t, <2>1
  <2>4. /\ TargetOf[x] \in Targets /\ NoTx \notin Txs
        /\ \A y \in Txs : TargetOf[y] \in Targets
    BY Wiring
  <2>5. /\ pending'[TargetOf[x]] = NoTx
        /\ \A t \in Targets : t # TargetOf[x] => pending'[t] = pending[t]
    BY <1>t, <2>1, <2>4
  <2>6. ASSUME NEW y \in Txs PROVE OnTrial(y)' <=> pending'[TargetOf[y]] = y
    <3>1. CASE y = x
      BY <2>1, <2>2, <2>3, <2>4, <2>5, <3>1
    <3>2. CASE y # x /\ TargetOf[y] = TargetOf[x]
      BY <2>1, <2>2, <2>3, <2>4, <2>5, <3>2
    <3>3. CASE TargetOf[y] # TargetOf[x]
      BY <2>1, <2>3, <2>4, <2>5, <3>3
    <3> QED
      BY <3>1, <3>2, <3>3
  <2>7. \A t \in Targets : pending'[t] # NoTx => TargetOf[pending'[t]] = t
    BY <2>5
  <2>8. Exclusive'
    BY <2>1, <2>2, <2>3
  <2> QED
    BY <2>6, <2>7, <2>8
<1>20. ASSUME NEW x \in Txs, OnConfirm(x) PROVE OneWindow' /\ Exclusive'
  BY <1>t, <1>20, Wiring DEF OnConfirm, net
<1>21. CASE Cleanup
  BY <1>21 DEF Cleanup, net
<1>22. CASE Crash
  BY <1>t, <1>22, Wiring DEF Crash, Die
<1>23. CASE UNCHANGED vars
  BY <1>23 DEF vars, net
<1> QED
  BY <1>1, <1>2, <1>3, <1>4, <1>5, <1>6, <1>7, <1>8, <1>9, <1>10, <1>11, <1>12, <1>13, <1>14,
     <1>15, <1>16, <1>17, <1>18, <1>19, <1>20, <1>21, <1>22, <1>23, <1>24 DEF Next, Caller, Serving,
     Waiting, Commands, Quiet

(* Every reachable state satisfies the invariant.                          *)
THEOREM Inductive == Spec => []IInv
<1> QED
  BY IInvInit, IInvStep, Typing, PTL DEF Spec

(* confirmCh has an entry for a network target exactly while one Commit or *)
(* one awaitConfirm, which will delete it, works on that target.           *)
THEOREM SingleWindow == Spec => []OneWindow
<1>1. IInv => OneWindow
  BY DEF IInv
<1> QED
  BY <1>1, Inductive, PTL

-----------------------------------------------------------------------------
(* Where the contents come from: a content that is live, saved, backed up  *)
(* or being restored was proposed for that very target and passed          *)
(* Validate, and so was what a Commit is about to put live.                *)
From(c, t) == c \in Txs => c \in passed /\ TargetOf[c] = t

FilesTraced == /\ \A t \in Targets : From(live[t], t) /\ From(disk[t], t)
               /\ \A x \in Txs : From(bak[x], TargetOf[x]) /\ From(reading[x], TargetOf[x])
               /\ \A x \in Txs : saving[x] # NoImage => \A t \in Targets : From(saving[x][t], t)
               /\ \A x \in Txs, who \in Who : From(copying[<<x, who>>], TargetOf[x])

BookTraced == /\ \A t \in Targets : recent[t] \in Txs => TargetOf[recent[t]] = t
              /\ \A x \in Txs : TargetOf[slot[x]] = TargetOf[x]
              /\ \A x \in Txs : status[x] = "validated" \/ call[x] = "apply" => x \in passed

Traced == FilesTraced /\ BookTraced

TInv == TypeOK /\ Traced

(* Every file starts as the administrator left it.                         *)
LEMMA TInvInit == Init => TInv
<1> SUFFICES ASSUME Init PROVE TInv
  OBVIOUS
<1>1. TypeOK
  BY Wiring, Values DEF Init, TypeOK, Who
<1>2. Traced
  BY Wiring DEF Init, Traced, FilesTraced, BookTraced, From
<1> QED
  BY <1>1, <1>2 DEF TInv

(* The three ways to change a live file keep it.                           *)
LEMMA RenameTraced ==
  ASSUME TypeOK, FilesTraced, NEW x \in Txs, x \in passed, Rename(x)
  PROVE  FilesTraced'
<1>1. \A t \in Targets : live'[t] = IF t = TargetOf[x] THEN x ELSE live[t]
  BY Wiring DEF TypeOK, Rename
<1>2. \A y \in Txs, who \in Who : copying'[<<y, who>>] \in {NoCopy, copying[<<y, who>>]}
  BY DEF Rename
<1> QED
  BY <1>1, <1>2, Wiring DEF FilesTraced, From, Rename

(* A restore that opens the live file reads a traced backup.               *)
LEMMA OpenLiveTraced ==
  ASSUME TypeOK, Traced, NEW x \in Txs, NEW who \in Who, OpenLive(x, who),
         UNCHANGED <<disk, bak, reading, saving, passed>>
  PROVE  FilesTraced'
<1>1. \A t \in Targets : live'[t] \in {Torn, live[t]}
  BY DEF TypeOK, OpenLive
<1>2. From(bak[slot[x]], TargetOf[x])
  BY DEF TypeOK, Traced, FilesTraced, BookTraced
<1>3. \A y \in Txs, w \in Who :
        copying'[<<y, w>>] = IF y = x /\ w = who THEN bak[slot[x]] ELSE copying[<<y, w>>]
  BY DEF TypeOK, OpenLive
<1> QED
  BY <1>1, <1>2, <1>3, Wiring DEF Traced, FilesTraced, From

(* A restore that ends has written what it read, or a torn file.           *)
LEMMA WriteLiveTraced ==
  ASSUME TypeOK, FilesTraced, NEW x \in Txs, NEW who \in Who, WriteLive(x, who),
         UNCHANGED <<disk, bak, reading, saving, passed>>
  PROVE  FilesTraced'
<1>1. \A t \in Targets : \/ live'[t] \in {Torn, live[t]}
                         \/ t = TargetOf[x] /\ live'[t] = copying[<<x, who>>]
  <2>1. \/ live' = live
        \/ live' = [live EXCEPT ![TargetOf[x]] = copying[<<x, who>>]]
        \/ live' = [live EXCEPT ![TargetOf[x]] = Torn]
    BY DEF WriteLive
  <2>2. live \in [Targets -> Contents]
    BY DEF TypeOK
  <2>3. TAKE t \in Targets
  <2>4. \A c : [live EXCEPT ![TargetOf[x]] = c][t] = IF t = TargetOf[x] THEN c ELSE live[t]
    BY <2>2
  <2> QED
    BY <2>1, <2>4
<1>2. \A y \in Txs, w \in Who : copying'[<<y, w>>] \in {NoCopy, copying[<<y, w>>]}
  BY DEF TypeOK, WriteLive
<1> QED
  BY <1>1, <1>2, Wiring DEF FilesTraced, From

(* Every step moves contents between files of one target, or puts a        *)
(* validated one live.                                                     *)
LEMMA TInvStep == TInv /\ [Next]_vars => Traced'
<1> SUFFICES ASSUME TypeOK, Traced, [Next]_vars
             PROVE  Traced'
  BY DEF TInv
<1>t. /\ live \in [Targets -> Contents] /\ disk \in [Targets -> Contents]
      /\ bak \in [Txs -> Contents] /\ slot \in [Txs -> Txs]
      /\ status \in [Txs -> Statuses]
      /\ recent \in [Targets -> Txs \cup {NoTx}]
      /\ call \in [Txs -> Calls]
      /\ copying \in [Txs \X Who -> Contents \cup {NoCopy}]
      /\ reading \in [Txs -> Contents \cup {NoCopy}]
      /\ saving \in [Txs -> Images \cup {NoImage}]
  BY DEF TypeOK
<1> USE DEF Traced, FilesTraced, BookTraced, From, Calls
<1>1. ASSUME NEW x \in Txs, Begin(x) PROVE Traced'
  <2>1. PICK s \in BackupFile(x) :
          /\ slot' = [slot EXCEPT ![x] = s]
          /\ \/ /\ bak' = [bak EXCEPT ![s] = Torn]
                /\ reading' = [reading EXCEPT ![x] = live[TargetOf[x]]]
             \/ UNCHANGED <<bak, reading>>
    BY <1>1 DEF Begin
  <2>2. s \in Txs /\ TargetOf[s] = TargetOf[x] /\ TargetOf[x] \in Targets
    BY <1>t, Wiring DEF BackupFile
  <2>3. FilesTraced'
    <3>1. UNCHANGED <<live, disk, saving, copying, passed>>
      BY <1>1 DEF Begin, history
    <3>2. \A y \in Txs : bak'[y] \in {bak[y], Torn} /\ From(reading'[y], TargetOf[y])
      BY <1>t, <2>1, <2>2
    <3> QED
      BY <3>1, <3>2, Wiring
  <2>4. \A y \in Txs : TargetOf[slot'[y]] = TargetOf[y]
    BY <1>t, <2>1, <2>2
  <2>5. \A t \in Targets : recent'[t] \in Txs => TargetOf[recent'[t]] = t
    BY <1>t, <1>1 DEF Begin
  <2>6. \A y \in Txs : status'[y] = "validated" \/ call'[y] = "apply" => y \in passed'
    BY <1>t, <1>1 DEF Begin, history
  <2> QED
    BY <2>3, <2>4, <2>5, <2>6
<1>2. ASSUME NEW x \in Txs, BeginEnd(x) PROVE Traced'
  <2>1. slot[x] \in Txs /\ TargetOf[slot[x]] = TargetOf[x]
    BY <1>t
  <2>2. \A y \in Txs : /\ bak'[y] \in {bak[y], Torn} \/ (y = slot[x] /\ bak'[y] = reading[x])
                       /\ reading'[y] \in {reading[y], NoCopy}
    BY <1>t, <1>2, <2>1 DEF BeginEnd, WriteBackup
  <2>3. UNCHANGED <<live, disk, saving, copying, passed, recent, slot>>
    BY <1>2 DEF BeginEnd, history
  <2>4. FilesTraced'
    BY <2>1, <2>2, <2>3, Wiring
  <2>5. BookTraced'
    BY <1>t, <1>2, <2>3 DEF BeginEnd
  <2> QED
    BY <2>4, <2>5
<1>3. ASSUME NEW x \in Txs, Stage(x) PROVE Traced'
  BY <1>t, <1>3, Wiring DEF Stage, files, book, net, jobs, history
<1>4. ASSUME NEW x \in Txs, Validate(x) PROVE Traced'
  BY <1>t, <1>4, Wiring DEF Validate, files, book, net, jobs, history
<1>5. ASSUME NEW x \in Txs, CommitNet(x) PROVE Traced'
  BY <1>t, <1>5, Wiring DEF CommitNet, files, book, net, jobs, history
<1>6. ASSUME NEW x \in Txs, CommitLocal(x) PROVE Traced'
  BY <1>t, <1>6, Wiring DEF CommitLocal, Rename, files, book, net, jobs, history
<1>7. ASSUME NEW x \in Txs, Rollback(x) PROVE Traced'
  <2>1. FilesTraced'
    <3>1. UNCHANGED <<disk, bak, reading, saving, passed>>
      BY <1>7 DEF Rollback
    <3>2. CASE OpenLive(x, "call")
      BY <3>1, <3>2, OpenLiveTraced DEF Who
    <3>3. CASE UNCHANGED <<live, copying>>
      BY <3>1, <3>3
    <3> QED BY <1>7, <3>2, <3>3 DEF Rollback
  <2>2. BookTraced'
    BY <1>t, <1>7 DEF Rollback
  <2> QED
    BY <2>1, <2>2
<1>8. ASSUME NEW x \in Txs, Lookup(x) PROVE Traced'
  BY <1>t, <1>8, Wiring DEF Lookup, files, book, net, jobs, history
<1>9. ASSUME NEW x \in Txs, CloseChannel(x) PROVE Traced'
  BY <1>t, <1>9, Wiring DEF CloseChannel, files, book, net, jobs, history
<1>10. ASSUME NEW x \in Txs, DoubleClose(x) PROVE Traced'
  BY <1>t, <1>10, Wiring DEF DoubleClose, Die, files, book, net, jobs, history
<1>11. ASSUME NEW x \in Txs, Apply(x) PROVE Traced'
  <2>1. FilesTraced'
    BY <1>t, <1>11, RenameTraced DEF Apply, files, jobs, history
  <2>2. passed' = passed
    BY <1>11 DEF Apply, Rename, history
  <2> QED
    BY <1>t, <1>11, <2>1, <2>2 DEF Apply, book
<1>12. ASSUME NEW x \in Txs, Arm(x) PROVE Traced'
  BY <1>t, <1>12, Wiring DEF Arm, files, book, net, jobs, history
<1>13. ASSUME NEW x \in Txs, StartSave(x) PROVE Traced'
  BY <1>t, <1>13, Wiring DEF StartSave, files, book, net, history
<1>14. ASSUME NEW x \in Txs, RollbackEnd(x) PROVE Traced'
  <2>1. FilesTraced'
    BY <1>14, WriteLiveTraced DEF RollbackEnd, Who, history
  <2> QED
    BY <1>t, <1>14, <2>1, Wiring DEF RollbackEnd, book, history
<1>15. ASSUME NEW x \in Txs, Selected(x) PROVE Traced'
  BY <1>t, <1>15, Wiring DEF Selected, files, book, net, jobs, history
<1>16. ASSUME NEW x \in Txs, EndSave(x) PROVE Traced'
  <2>1. UNCHANGED <<live, bak, reading, copying, passed, recent, slot>>
    BY <1>16 DEF EndSave
  <2>2. (disk' = disk \/ (saving[x] # NoImage /\ disk' = saving[x]))
        /\ \A y \in Txs : saving'[y] \in {saving[y], NoImage}
    BY <1>t, <1>16 DEF EndSave, WriteImage
  <2>3. FilesTraced'
    BY <2>1, <2>2
  <2>4. BookTraced'
    BY <1>t, <1>16, <2>1 DEF EndSave
  <2> QED
    BY <2>3, <2>4
<1>24. ASSUME NEW x \in Txs, NoSave(x) PROVE Traced'
  BY <1>t, <1>24, Wiring DEF NoSave, files, book, net, jobs, history
<1>17. ASSUME NEW x \in Txs, Timeout(x) PROVE Traced'
  <2>1. FilesTraced'
    BY <1>17, OpenLiveTraced DEF Timeout, Who, history
  <2> QED
    BY <1>t, <1>17, <2>1, Wiring DEF Timeout, book, history
<1>18. ASSUME NEW x \in Txs, TimeoutEnd(x) PROVE Traced'
  <2>1. FilesTraced'
    BY <1>18, WriteLiveTraced DEF TimeoutEnd, Who, history
  <2> QED
    BY <1>t, <1>18, <2>1, Wiring DEF TimeoutEnd, book, history
<1>19. ASSUME NEW x \in Txs, Close(x) PROVE Traced'
  BY <1>t, <1>19, Wiring DEF Close, files, book, net, jobs, history
<1>20. ASSUME NEW x \in Txs, OnConfirm(x) PROVE Traced'
  BY <1>t, <1>20, Wiring DEF OnConfirm, files, book, net, jobs, history
<1>21. CASE Cleanup
  BY <1>t, <1>21, Wiring DEF Cleanup, net, jobs, history
<1>22. CASE Crash
  BY <1>t, <1>22, Wiring DEF Crash, Die, history
<1>23. CASE UNCHANGED vars
  BY <1>23 DEF vars, files, book, jobs, history
<1> QED
  BY <1>1, <1>2, <1>3, <1>4, <1>5, <1>6, <1>7, <1>8, <1>9, <1>10, <1>11, <1>12, <1>13, <1>14,
     <1>15, <1>16, <1>17, <1>18, <1>19, <1>20, <1>21, <1>22, <1>23, <1>24 DEF Next, Caller, Serving,
     Waiting, Commands, Quiet

(* Whatever restores, backups of backups, lbu and restarts do, a proposed  *)
(* content gets into the live or the saved file only after Validate.       *)
THEOREM ValidatedFirst == Spec => []OnlyValidatedLive
<1>1. TInv => OnlyValidatedLive
  BY DEF TInv, Traced, FilesTraced, From, OnlyValidatedLive
<1> QED
  BY <1>1, TInvInit, TInvStep, Typing, PTL DEF Spec, TInv

-----------------------------------------------------------------------------
(* The windows themselves.  Only network targets have them; one begins     *)
(* after Validate, and is confirmed by a closed channel only.              *)
OnNet   == \A x \in Txs : OnTrial(x) \/ grabbed[x] > 0 => Net(x)
Untried == \A x \in Txs :
  /\ call[x] \in {"apply", "arm"} => window[x] = "none"
  /\ call[x] = "begin" => status[x] = "none"
  /\ status[x] \in {"none", "pending", "staged", "validated"}
       => window[x] = "none" /\ call[x] \notin {"apply", "arm"}
Asked   == \A x \in Txs : window[x] \in {"confirming", "persisting", "saving", "keeping"} => x \in closed

NetInv == OnNet /\ Untried /\ Asked

(* The files.  From the rename on nobody writes to the file on trial, for  *)
(* an earlier restore has lost it and a later one counts as touched; what  *)
(* writes to a local file is a Rollback.  What is confirmed is saved, and  *)
(* no lbu under way has read anything else: those that were running when   *)
(* the change was renamed into place are in before, those that began since *)
(* then have read the change.                                              *)
Trying(x)    == call[x] = "arm" \/ window[x] \in {"wait", "confirming", "persisting", "saving", "keeping"}
Writing(t)   == \E y \in Txs, who \in Who : TargetOf[y] = t /\ copying[<<y, who>>] # NoCopy
Undisturbed  == \A x \in Txs : Trying(x) /\ TargetOf[x] \notin touched
                                 => live[TargetOf[x]] = x /\ ~Writing(TargetOf[x])
LocalWriters == \A t \in Targets \ NetTargets : Writing(t) => t \in touched
Holds(x, y)  == saving[y] # NoImage => saving[y][TargetOf[x]] = x
Saved        == Diskless /\ ~Fails("lbu") =>
                  \A x \in Txs : ~Net(x) /\ live[TargetOf[x]] = x /\ TargetOf[x] \notin touched =>
                    /\ call[x] \in {"persist", "saving"} => \A y \in Txs \ before[x] : Holds(x, y)
                    /\ call[x] = "saving" => saving[x] # NoImage /\ Holds(x, x)
                    /\ status[x] = "confirmed" /\ before[x] = {}
                         => disk[TargetOf[x]] = x /\ \A y \in Txs : Holds(x, y)

FileInv == Undisturbed /\ LocalWriters /\ Saved

(* Each step keeps what is known of the windows.                           *)
LEMMA NetStep == TypeOK /\ OneWindow /\ NetInv /\ [Next]_vars => NetInv'
<1> SUFFICES ASSUME TypeOK, OneWindow, OnNet, Untried, Asked, [Next]_vars
             PROVE  OnNet' /\ Untried' /\ Asked'
  BY DEF NetInv
<1>t. /\ call \in [Txs -> Calls]
      /\ window \in [Txs -> Windows]
      /\ status \in [Txs -> Statuses] /\ closed \subseteq Txs
      /\ grabbed \in [Txs -> 0..MaxConfirms]
  BY DEF TypeOK
<1> USE DEF OnNet, Untried, Asked, OnTrial, Net, Calls, Windows
<1>1. ASSUME NEW x \in Txs, Begin(x) \/ BeginEnd(x) PROVE OnNet' /\ Untried' /\ Asked'
  BY <1>t, <1>1 DEF Begin, BeginEnd, book, net
<1>2. ASSUME NEW x \in Txs, Stage(x) \/ Validate(x) PROVE OnNet' /\ Untried' /\ Asked'
  BY <1>t, <1>2 DEF Stage, Validate, net
<1>3. ASSUME NEW x \in Txs, CommitNet(x) PROVE OnNet' /\ Untried' /\ Asked'
  BY <1>t, <1>3 DEF CommitNet
<1>4. ASSUME NEW x \in Txs, CommitLocal(x) PROVE OnNet' /\ Untried' /\ Asked'
  BY <1>t, <1>4 DEF CommitLocal, net
<1>5. ASSUME NEW x \in Txs, Rollback(x) PROVE OnNet' /\ Untried' /\ Asked'
  BY <1>t, <1>5 DEF Rollback, net
<1>6. ASSUME NEW x \in Txs, Lookup(x) PROVE OnNet' /\ Untried' /\ Asked'
  <2>1. OnTrial(x)
    BY <1>6 DEF Lookup, OneWindow
  <2>2. \A y \in Txs : grabbed'[y] > 0 => y = x \/ grabbed[y] > 0
    BY <1>t, <1>6 DEF Lookup
  <2> QED BY <1>6, <2>1, <2>2 DEF Lookup, book
<1>7. ASSUME NEW x \in Txs, CloseChannel(x) PROVE OnNet' /\ Untried' /\ Asked'
  <2>1. \A y \in Txs : grabbed'[y] > 0 => y = x \/ grabbed[y] > 0
    BY <1>t, <1>7 DEF CloseChannel
  <2> QED BY <1>7, <2>1 DEF CloseChannel, book
<1>8. ASSUME Die PROVE OnNet' /\ Untried' /\ Asked'
  <2>1. \A x \in Txs : /\ call'[x] = "idle" /\ window'[x] \in {"none", "kept", "reverted"}
                       /\ ~(grabbed'[x] > 0)
    BY <1>8 DEF Die
  <2>2. \A x \in Txs : status'[x] \in {"none", "lost"}
                       /\ (status'[x] = "none" => status[x] = "none" /\ window'[x] = window[x])
    BY <1>t, <1>8 DEF Die
  <2> QED BY <2>1, <2>2
<1>9. ASSUME NEW x \in Txs, Apply(x) \/ Arm(x) PROVE OnNet' /\ Untried' /\ Asked'
  BY <1>t, <1>9 DEF Apply, Arm, book, net
<1>10. ASSUME NEW x \in Txs, RollbackEnd(x) PROVE OnNet' /\ Untried' /\ Asked'
  BY <1>t, <1>10 DEF RollbackEnd, net
<1>11. ASSUME NEW x \in Txs, Selected(x) \/ OnConfirm(x)
       PROVE  OnNet' /\ Untried' /\ Asked'
  BY <1>t, <1>11 DEF Selected, OnConfirm, book, net
<1>12. ASSUME NEW x \in Txs, Timeout(x) \/ TimeoutEnd(x) \/ Close(x)
       PROVE  OnNet' /\ Untried' /\ Asked'
  BY <1>t, <1>12 DEF Timeout, TimeoutEnd, Close, book, net
<1>15. ASSUME NEW x \in Txs, StartSave(x) \/ EndSave(x) \/ NoSave(x)
       PROVE  OnNet' /\ Untried' /\ Asked'
  BY <1>t, <1>15 DEF StartSave, EndSave, NoSave, book, net
<1>13. CASE Cleanup
  BY <1>13 DEF Cleanup, net
<1>14. CASE UNCHANGED vars
  BY <1>14 DEF vars, book, net
<1> QED
  BY <1>1, <1>2, <1>3, <1>4, <1>5, <1>6, <1>7, <1>8, <1>9, <1>10, <1>11, <1>12, <1>13, <1>14, <1>15
  DEF Next, Caller, Serving, Waiting, Commands, DoubleClose, Crash, Quiet

(* The ways to write to a live file, as the windows see them.              *)
LEMMA RenameSeen ==
  ASSUME TypeOK, NEW x \in Txs, Rename(x)
  PROVE  /\ \A t \in Targets : /\ live'[t] = IF t = TargetOf[x] THEN x ELSE live[t]
                               /\ Writing(t)' => Writing(t) /\ t # TargetOf[x]
         /\ touched' = touched \ {TargetOf[x]} /\ UNCHANGED <<disk, saving>>
         /\ before' = [before EXCEPT ![x] = Saving]
<1>1. \A t \in Targets : live'[t] = IF t = TargetOf[x] THEN x ELSE live[t]
  BY DEF TypeOK, Rename
<1>2. \A y \in Txs, who \in Who :
        copying'[<<y, who>>] = IF TargetOf[y] = TargetOf[x] THEN NoCopy ELSE copying[<<y, who>>]
  BY DEF Rename
<1> QED BY <1>1, <1>2 DEF Writing, Rename

(* copyFile has truncated the live file and writes to it from now on.      *)
LEMMA OpenLiveSeen ==
  ASSUME TypeOK, NEW x \in Txs, NEW who \in Who, OpenLive(x, who)
  PROVE  \A t \in Targets : /\ live'[t] = IF t = TargetOf[x] THEN Torn ELSE live[t]
                            /\ Writing(t)' => Writing(t) \/ t = TargetOf[x]
<1>1. \A t \in Targets : live'[t] = IF t = TargetOf[x] THEN Torn ELSE live[t]
  BY DEF TypeOK, OpenLive
<1>2. \A y \in Txs, w \in Who : copying'[<<y, w>>] # copying[<<y, w>>] => y = x
  BY DEF TypeOK, OpenLive
<1> QED BY <1>1, <1>2 DEF Writing

(* What a copyFile does to the file it has opened.                         *)
LEMMA WriteLiveSeen ==
  ASSUME TypeOK, NEW x \in Txs, NEW who \in Who, WriteLive(x, who)
  PROVE  \A t \in Targets : /\ live'[t] # live[t] => Writing(t) /\ t = TargetOf[x]
                            /\ Writing(t)' => Writing(t)
<1>1. \A y \in Txs, w \in Who : copying'[<<y, w>>] \in {NoCopy, copying[<<y, w>>]}
  BY DEF TypeOK, WriteLive
<1>2. ASSUME NEW t \in Targets, live'[t] # live[t] PROVE Writing(t) /\ t = TargetOf[x]
  <2>1. copying[<<x, who>>] # NoCopy
    BY <1>2 DEF WriteLive
  <2>2. \A c : t # TargetOf[x] => [live EXCEPT ![TargetOf[x]] = c][t] = live[t]
    BY DEF TypeOK
  <2> QED BY <1>2, <2>1, <2>2 DEF Writing, WriteLive
<1> QED BY <1>1, <1>2 DEF Writing

(* Each step keeps what is known of the files on trial.                    *)
LEMMA FileStep == TypeOK /\ OneWindow /\ Exclusive /\ NetInv /\ FileInv /\ [Next]_vars => FileInv'
<1> SUFFICES ASSUME TypeOK, OneWindow, Exclusive, OnNet, Untried, Asked,
                    Undisturbed, LocalWriters, Saved, [Next]_vars
             PROVE  FileInv'
  BY DEF NetInv, FileInv
<1>t. /\ call \in [Txs -> Calls]
      /\ window \in [Txs -> Windows]
      /\ status \in [Txs -> Statuses]
      /\ saving \in [Txs -> Images \cup {NoImage}] /\ before \in [Txs -> SUBSET Txs]
      /\ \A y \in Txs : TargetOf[y] \in Targets
  BY Wiring DEF TypeOK
<1>n. /\ \A x \in Txs : Trying(x) => Net(x)
      /\ \A x, y \in Txs : Trying(x) /\ OnTrial(y) /\ TargetOf[y] = TargetOf[x] => y = x
      /\ \A x \in Txs : Trying(x) => call[x] # "apply" /\ window[x] \notin {"restoring", "reverting"}
  BY <1>t DEF OnNet, OneWindow, Exclusive, OnTrial, Trying
<1>q. ASSUME UNCHANGED <<live, copying, touched>>, \A x \in Txs : Trying(x)' => Trying(x)
      PROVE  Undisturbed' /\ LocalWriters'
  BY <1>q DEF Undisturbed, LocalWriters, Writing
<1>s. ASSUME UNCHANGED <<live, touched, disk, saving, before>>,
             \A x \in Txs : ~Net(x) =>
               /\ status'[x] = "confirmed" => status[x] = "confirmed"
               /\ call'[x] \in {"persist", "saving"} => call'[x] = call[x]
      PROVE  Saved'
  BY <1>s DEF Saved, Holds
<1>1. ASSUME NEW x \in Txs, Begin(x) \/ BeginEnd(x) \/ Stage(x) \/ Validate(x) PROVE FileInv'
  <2>1. UNCHANGED <<live, copying, touched, disk, window, saving, before>>
    BY <1>1 DEF Begin, BeginEnd, Stage, Validate, files, jobs, history
  <2>2. status' = status \/ \E v \in {"pending", "staged", "validated", "failed"} :
                               status' = [status EXCEPT ![x] = v]
    BY <1>1 DEF Begin, BeginEnd, Stage, Validate, book
  <2>3. call' = call \/ \E v \in {"begin", "idle"} : call' = [call EXCEPT ![x] = v]
    BY <1>1 DEF Begin, BeginEnd, Stage, Validate, book
  <2>4. \A y \in Txs : /\ status'[y] = "confirmed" => status[y] = "confirmed"
                       /\ call'[y] \in {"persist", "saving", "arm"} => call'[y] = call[y]
    BY <1>t, <2>2, <2>3
  <2>5. \A y \in Txs : Trying(y)' => Trying(y)
    BY <2>1, <2>4 DEF Trying
  <2> QED BY <1>q, <1>s, <2>1, <2>4, <2>5 DEF FileInv
<1>2. ASSUME NEW x \in Txs, CommitNet(x) PROVE FileInv'
  <2>1. UNCHANGED <<live, copying, touched, disk, window, saving, before>>
        /\ (\A y \in Txs : status'[y] = "confirmed" => status[y] = "confirmed")
        /\ (\A y \in Txs : call'[y] \in {"arm", "persist", "saving"} => call'[y] = call[y])
    BY <1>t, <1>2 DEF CommitNet, files, jobs, history
  <2>2. \A y \in Txs : Trying(y)' => Trying(y)
    BY <2>1 DEF Trying
  <2> QED BY <1>q, <1>s, <2>1, <2>2 DEF FileInv
<1>3. ASSUME NEW x \in Txs, Lookup(x) \/ CloseChannel(x) PROVE FileInv'
  <2>1. UNCHANGED <<live, copying, touched, disk, window, call, status, saving, before>>
    BY <1>3 DEF Lookup, CloseChannel, files, book, jobs, history
  <2> QED BY <1>q, <1>s, <2>1 DEF Trying, FileInv
<1>4. ASSUME NEW x \in Txs, Selected(x) \/ OnConfirm(x) \/ Close(x) PROVE FileInv'
  <2>1. UNCHANGED <<live, copying, touched, disk, call, saving, before>>
        /\ (\A y \in Txs : Trying(y)' => Trying(y))
    BY <1>t, <1>4 DEF Selected, OnConfirm, Close, Trying, files, jobs, history
  <2>2. ASSUME NEW y \in Txs, status'[y] = "confirmed", ~Net(y) PROVE status[y] = "confirmed"
    <3>1. window[x] # "none" /\ window[x] \notin {"kept", "reverted"}
      BY <1>4 DEF Selected, OnConfirm, Close
    <3>2. x # y
      BY <2>2, <3>1 DEF OnNet, OnTrial
    <3> QED BY <1>t, <1>4, <2>2, <3>2 DEF Selected, OnConfirm, Close, book
  <2> QED BY <1>q, <1>s, <2>1, <2>2 DEF FileInv
<1>5. ASSUME NEW x \in Txs, Arm(x) PROVE FileInv'
  <2>1. UNCHANGED <<live, copying, touched, disk, status, saving, before>>
        /\ (\A y \in Txs : Trying(y)' => Trying(y))
        /\ (\A y \in Txs : call'[y] \in {"persist", "saving"} => call'[y] = call[y])
    BY <1>t, <1>5 DEF Arm, Trying, files, book, jobs, history
  <2> QED BY <1>q, <1>s, <2>1 DEF FileInv
<1>6. CASE Cleanup
  <2>1. UNCHANGED <<live, copying, touched, disk, window, call, status, saving, before>>
    BY <1>6 DEF Cleanup, jobs, history
  <2> QED BY <1>q, <1>s, <2>1 DEF Trying, FileInv
<1>7. ASSUME NEW x \in Txs, StartSave(x) PROVE FileInv'
  <2>1. UNCHANGED <<live, copying, touched, disk, status, before>> /\ saving' = [saving EXCEPT ![x] = live]
    BY <1>7 DEF StartSave, files, book, history
  <2>2. \/ call[x] = "persist" /\ call' = [call EXCEPT ![x] = "saving"] /\ window' = window
        \/ window[x] = "persisting" /\ window' = [window EXCEPT ![x] = "saving"] /\ call' = call
    BY <1>7 DEF StartSave
  <2>3. \A y \in Txs : Trying(y)' => Trying(y)
    BY <1>t, <2>2 DEF Trying
  <2>4. Saved'
    <3> SUFFICES ASSUME Diskless, ~Fails("lbu"), NEW z \in Txs, ~Net(z),
                        live[TargetOf[z]] = z, TargetOf[z] \notin touched
                 PROVE  /\ call'[z] \in {"persist", "saving"} => \A y \in Txs \ before[z] : Holds(z, y)'
                        /\ call'[z] = "saving" => saving'[z] # NoImage /\ Holds(z, z)'
                        /\ status[z] = "confirmed" /\ before[z] = {}
                             => disk[TargetOf[z]] = z /\ \A y \in Txs : Holds(z, y)'
      BY <2>1 DEF Saved
    <3>1. \A y \in Txs : Holds(z, y) \/ y = x => Holds(z, y)'
      BY <1>t, <2>1 DEF Holds
    <3>2. live # NoImage
      BY Wiring DEF TypeOK, Images
    <3>3. z # x => saving'[z] = saving[z] /\ call'[z] = call[z]
      BY <1>t, <2>1, <2>2
    <3>4. z = x => saving'[z] = live /\ (call'[z] \in {"persist", "saving"} => call[z] \in {"persist", "saving"})
      BY <1>t, <2>1, <2>2
    <3> QED BY <3>1, <3>2, <3>3, <3>4 DEF Saved
  <2> QED BY <1>q, <2>1, <2>3, <2>4 DEF FileInv
<1>18. ASSUME NEW x \in Txs, EndSave(x) PROVE FileInv'
  <2>1. /\ UNCHANGED <<live, copying, touched>>
        /\ saving[x] # NoImage /\ saving' = [saving EXCEPT ![x] = NoImage]
        /\ before' = [y \in Txs |-> IF status[y] = "confirmed" THEN before[y] ELSE before[y] \ {x}]
    BY <1>18 DEF EndSave, WriteImage
  <2>2. \/ /\ call[x] = "saving" /\ call' = [call EXCEPT ![x] = "idle"]
           /\ status' = [status EXCEPT ![x] = "confirmed"] /\ window' = window
        \/ /\ window[x] = "saving" /\ window' = [window EXCEPT ![x] = "keeping"] /\ Net(x)
           /\ UNCHANGED <<status, call>>
        \/ call[x] # "saving" /\ UNCHANGED <<status, call, window>>
    BY <1>18 DEF EndSave, OnNet, OnTrial
  <2>3. \A y \in Txs : Trying(y)' => Trying(y)
    BY <1>t, <2>2 DEF Trying
  <2>4. ~Fails("lbu") => disk' = saving[x]
    BY <1>18 DEF EndSave, WriteImage
  <2>5. Saved'
    <3> SUFFICES ASSUME Diskless, ~Fails("lbu"), NEW z \in Txs, ~Net(z),
                        live[TargetOf[z]] = z, TargetOf[z] \notin touched
                 PROVE  /\ call'[z] \in {"persist", "saving"} => \A y \in Txs \ before'[z] : Holds(z, y)'
                        /\ call'[z] = "saving" => saving'[z] # NoImage /\ Holds(z, z)'
                        /\ status'[z] = "confirmed" /\ before'[z] = {}
                             => disk'[TargetOf[z]] = z /\ \A y \in Txs : Holds(z, y)'
      BY <2>1 DEF Saved
    <3>1. \A y \in Txs : Holds(z, y) \/ y = x => Holds(z, y)'
      BY <1>t, <2>1 DEF Holds
    <3>2. \A y \in Txs \ before'[z] : y = x \/ y \in Txs \ before[z]
      BY <1>t, <2>1
    <3>3. call'[z] \in {"persist", "saving"} => call[z] = call'[z]
      BY <1>t, <2>2
    <3>4. call'[z] = "saving" => z # x
      BY <1>t, <2>2
    <3>5. ASSUME call'[z] = "saving" PROVE saving'[z] # NoImage /\ Holds(z, z)'
      <4>1. saving[z] # NoImage /\ Holds(z, z) /\ call[z] = "saving"
        BY <3>3, <3>5 DEF Saved
      <4>2. z # x
        BY <3>4, <3>5
      <4> QED BY <1>t, <2>1, <3>1, <4>1, <4>2
    <3>6. ASSUME status'[z] = "confirmed", before'[z] = {}
          PROVE  disk'[TargetOf[z]] = z /\ \A y \in Txs : Holds(z, y)'
      <4>1. CASE status[z] = "confirmed"
        <5>1. before[z] = {}
          BY <2>1, <3>6, <4>1
        <5>2. \A y \in Txs : Holds(z, y)
          BY <4>1, <5>1 DEF Saved
        <5> QED BY <2>1, <2>4, <3>1, <5>2 DEF Holds
      <4>2. CASE status[z] # "confirmed"
        <5>1. z = x /\ call[z] = "saving"
          BY <1>t, <2>2, <3>6, <4>2
        <5>2. \A y \in Txs : y = x \/ y \in Txs \ before[z]
          BY <2>1, <3>6, <4>2
        <5>3. Holds(z, z) /\ \A y \in Txs \ before[z] : Holds(z, y)
          BY <5>1 DEF Saved
        <5> QED BY <2>1, <2>4, <3>1, <5>1, <5>2, <5>3 DEF Holds
      <4> QED BY <4>1, <4>2
    <3> QED BY <3>1, <3>2, <3>3, <3>5, <3>6 DEF Saved
  <2> QED BY <1>q, <2>1, <2>3, <2>5 DEF FileInv
<1>19. ASSUME NEW x \in Txs, NoSave(x) PROVE FileInv'
  <2>1. UNCHANGED <<live, copying, touched>> /\ (\A y \in Txs : Trying(y)' => Trying(y))
        /\ (~Diskless \/ Fails("lbu"))
    BY <1>t, <1>19 DEF NoSave, Trying, files, jobs, history
  <2> QED BY <1>q, <2>1 DEF Saved, FileInv
<1>8. ASSUME NEW x \in Txs, Rename(x), call[x] = "apply" \/ ~Net(x), status[x] # "confirmed" \/ Net(x),
             \A y \in Txs : Trying(y)' => Trying(y) \/ (y = x /\ Net(x)),
             \A y \in Txs : status'[y] = "confirmed" => status[y] = "confirmed",
             \A y \in Txs \ {x} : ~Net(y) => call'[y] = call[y],
             ~Net(x) => call'[x] = "persist"
      PROVE  FileInv'
  <2>1. /\ \A t \in Targets : /\ live'[t] = IF t = TargetOf[x] THEN x ELSE live[t]
                              /\ Writing(t)' => Writing(t) /\ t # TargetOf[x]
        /\ touched' = touched \ {TargetOf[x]} /\ UNCHANGED <<disk, saving>>
        /\ before' = [before EXCEPT ![x] = Saving]
    BY <1>8, RenameSeen
  <2>2. Undisturbed'
    <3> SUFFICES ASSUME NEW y \in Txs, Trying(y)', TargetOf[y] \notin touched'
                 PROVE  live'[TargetOf[y]] = y /\ ~Writing(TargetOf[y])'
      BY DEF Undisturbed
    <3>1. CASE y = x
      BY <1>t, <2>1, <3>1
    <3>2. CASE y # x
      <4>1. Trying(y) /\ Net(y)
        BY <1>8, <1>n, <3>2
      <4>2. TargetOf[y] # TargetOf[x]
        BY <1>8, <1>n, <3>2, <4>1 DEF OnTrial, Net
      <4> QED BY <1>t, <2>1, <4>1, <4>2 DEF Undisturbed
    <3> QED BY <3>1, <3>2
  <2>3. LocalWriters'
    BY <2>1 DEF LocalWriters
  <2>4. Saved'
    <3> SUFFICES ASSUME Diskless, ~Fails("lbu"), NEW z \in Txs, ~Net(z),
                        live'[TargetOf[z]] = z, TargetOf[z] \notin touched'
                 PROVE  /\ call'[z] \in {"persist", "saving"} => \A y \in Txs \ before'[z] : Holds(z, y)
                        /\ call'[z] = "saving" => saving[z] # NoImage /\ Holds(z, z)
                        /\ status'[z] = "confirmed" /\ before'[z] = {}
                             => disk[TargetOf[z]] = z /\ \A y \in Txs : Holds(z, y)
      BY <2>1 DEF Saved, Holds
    <3>1. CASE z = x
      <4>1. call'[x] = "persist" /\ status'[x] # "confirmed" /\ before'[x] = Saving
        BY <1>8, <1>t, <2>1, <3>1
      <4> QED BY <3>1, <4>1 DEF Saving, Holds
    <3>2. CASE z # x
      <4>1. TargetOf[z] # TargetOf[x] /\ live[TargetOf[z]] = z /\ TargetOf[z] \notin touched
        BY <1>t, <2>1, <3>2
      <4>2. before'[z] = before[z] /\ call'[z] = call[z]
        BY <1>8, <1>t, <2>1, <3>2
      <4> QED BY <1>8, <4>1, <4>2 DEF Saved
    <3> QED BY <3>1, <3>2
  <2> QED BY <2>2, <2>3, <2>4 DEF FileInv
<1>9. ASSUME NEW x \in Txs, Apply(x) PROVE FileInv'
  <2>1. CASE Rename(x) /\ x \in staged /\ call' = [call EXCEPT ![x] = "arm"]
    <3>1. UNCHANGED <<window, status>> /\ call[x] = "apply" /\ Net(x)
      BY <1>9 DEF Apply, book, OnNet, OnTrial
    <3>2. \A y \in Txs : Trying(y)' => Trying(y) \/ (y = x /\ Net(x))
      BY <1>t, <2>1, <3>1 DEF Trying
    <3>3. \A y \in Txs \ {x} : call'[y] = call[y]
      BY <1>t, <2>1
    <3> QED BY <1>8, <2>1, <3>1, <3>2, <3>3
  <2>2. CASE UNCHANGED <<files, jobs, history>> /\ call' = [call EXCEPT ![x] = "idle"]
    <3>1. UNCHANGED <<live, copying, touched, disk, status, saving, before>>
          /\ (\A y \in Txs : Trying(y)' => Trying(y))
          /\ (\A y \in Txs : call'[y] \in {"persist", "saving"} => call'[y] = call[y])
      BY <1>9, <1>t, <2>2 DEF Apply, Trying, files, book, jobs, history
    <3> QED BY <1>q, <1>s, <3>1 DEF FileInv
  <2> QED BY <1>9, <2>1, <2>2 DEF Apply
<1>10. ASSUME NEW x \in Txs, CommitLocal(x) PROVE FileInv'
  <2>1. /\ ~Net(x) /\ status[x] = "validated" /\ window' = window
        /\ \A y \in Txs : status'[y] = "confirmed" => status[y] = "confirmed"
        /\ \A y \in Txs : call'[y] = "arm" => call[y] = "arm"
        /\ \A y \in Txs \ {x} : call'[y] = call[y]
    BY <1>10, <1>t DEF CommitLocal
  <2>2. \A y \in Txs : Trying(y)' => Trying(y)
    BY <2>1 DEF Trying
  <2>3. CASE Rename(x) /\ call' = [call EXCEPT ![x] = "persist"]
    <3>1. call'[x] = "persist"
      BY <1>t, <2>3
    <3> QED BY <1>8, <2>1, <2>2, <2>3, <3>1
  <2>4. CASE UNCHANGED <<files, call, jobs, history>>
    BY <1>q, <1>s, <2>1, <2>2, <2>4 DEF files, jobs, history, FileInv
  <2> QED BY <1>10, <2>3, <2>4 DEF CommitLocal
<1>11. ASSUME NEW x \in Txs, Rollback(x) PROVE FileInv'
  <2>1. /\ UNCHANGED <<disk, window, saving, before>>
        /\ \A y \in Txs : status'[y] = "confirmed" => status[y] = "confirmed"
        /\ \A y \in Txs : call'[y] \in {"arm", "persist", "saving"} => call'[y] = call[y]
    BY <1>11, <1>t DEF Rollback
  <2>2. \A y \in Txs : Trying(y)' => Trying(y)
    BY <2>1 DEF Trying
  <2>3. CASE OpenLive(x, "call") /\ touched' = touched \cup {TargetOf[x]}
    <3>1. \A t \in Targets : /\ live'[t] = IF t = TargetOf[x] THEN Torn ELSE live[t]
                             /\ Writing(t)' => Writing(t) \/ t = TargetOf[x]
      BY <2>3, OpenLiveSeen DEF Who
    <3>2. Undisturbed' /\ LocalWriters'
      BY <1>t, <2>2, <2>3, <3>1 DEF Undisturbed, LocalWriters
    <3>3. Saved'
      <4>1. \A y \in Txs : live'[TargetOf[y]] = y /\ TargetOf[y] \notin touched'
                            => live[TargetOf[y]] = y /\ TargetOf[y] \notin touched
        BY <1>t, <2>3, <3>1
      <4> QED BY <2>1, <4>1 DEF Saved, Holds
    <3> QED BY <3>2, <3>3 DEF FileInv
  <2>4. CASE UNCHANGED <<live, call, copying, touched>>
    BY <1>q, <1>s, <2>1, <2>2, <2>4 DEF FileInv
  <2> QED BY <1>11, <2>3, <2>4 DEF Rollback
<1>12. ASSUME NEW x \in Txs, NEW who \in Who, WriteLive(x, who), UNCHANGED <<disk, touched, saving, before>>,
              who = "timer" => Net(x),
              \A y \in Txs : Trying(y)' => Trying(y),
              \A y \in Txs : status'[y] = "confirmed" => status[y] = "confirmed",
              \A y \in Txs : call'[y] \in {"persist", "saving"} => call'[y] = call[y]
       PROVE  FileInv'
  <2>1. \A t \in Targets : /\ live'[t] # live[t] => Writing(t) /\ t = TargetOf[x]
                           /\ Writing(t)' => Writing(t)
    BY <1>12, WriteLiveSeen
  <2>2. Undisturbed' /\ LocalWriters'
    BY <1>12, <1>t, <2>1 DEF Undisturbed, LocalWriters
  <2>3. Saved'
    <3>1. \A y \in Txs : ~Net(y) /\ live'[TargetOf[y]] = y /\ TargetOf[y] \notin touched
                          => live[TargetOf[y]] = y
      BY <1>t, <2>1 DEF LocalWriters, Net
    <3> QED BY <1>12, <3>1 DEF Saved, Holds
  <2> QED BY <2>2, <2>3 DEF FileInv
<1>13. ASSUME NEW x \in Txs, RollbackEnd(x) PROVE FileInv'
  <2>1. /\ UNCHANGED <<disk, touched, window, saving, before>> /\ WriteLive(x, "call")
        /\ \A y \in Txs : status'[y] = "confirmed" => status[y] = "confirmed"
        /\ \A y \in Txs : call'[y] \in {"arm", "persist", "saving"} => call'[y] = call[y]
    BY <1>13, <1>t DEF RollbackEnd, history
  <2>2. \A y \in Txs : Trying(y)' => Trying(y)
    BY <2>1 DEF Trying
  <2> QED BY <1>12, <2>1, <2>2 DEF Who
<1>14. ASSUME NEW x \in Txs, TimeoutEnd(x) PROVE FileInv'
  <2>1. /\ UNCHANGED <<disk, touched, status, call, saving, before>> /\ WriteLive(x, "timer")
        /\ window[x] = "restoring" /\ window' = [window EXCEPT ![x] = "reverting"]
    BY <1>14 DEF TimeoutEnd, book, history
  <2>2. (\A y \in Txs : Trying(y)' => Trying(y)) /\ Net(x)
    BY <1>t, <2>1 DEF Trying, OnNet, OnTrial
  <2> QED BY <1>12, <2>1, <2>2 DEF Who
<1>15. ASSUME NEW x \in Txs, Timeout(x) PROVE FileInv'
  <2>1. /\ UNCHANGED <<disk, touched, status, call, saving, before>> /\ window[x] = "wait"
        /\ \E w \in {"restoring", "reverting"} : window' = [window EXCEPT ![x] = w]
        /\ OpenLive(x, "timer") \/ UNCHANGED <<live, copying>>
    BY <1>15 DEF Timeout, history
  <2>2. (\A y \in Txs : Trying(y)' => Trying(y) /\ y # x) /\ Net(x) /\ OnTrial(x)
    BY <1>t, <2>1 DEF Trying, OnNet, OnTrial, Exclusive
  <2>3. CASE OpenLive(x, "timer")
    <3>1. \A t \in Targets : /\ live'[t] = IF t = TargetOf[x] THEN Torn ELSE live[t]
                             /\ Writing(t)' => Writing(t) \/ t = TargetOf[x]
      BY <2>3, OpenLiveSeen DEF Who
    <3>2. \A y \in Txs : Trying(y)' => TargetOf[y] # TargetOf[x]
      BY <1>n, <2>2
    <3>3. Undisturbed'
      BY <1>t, <2>1, <2>2, <3>1, <3>2 DEF Undisturbed
    <3>4. LocalWriters'
      BY <2>1, <2>2, <3>1 DEF LocalWriters, Net
    <3>5. Saved'
      <4>1. \A y \in Txs : ~Net(y) => live'[TargetOf[y]] = live[TargetOf[y]]
        BY <1>t, <2>2, <3>1 DEF Net
      <4> QED BY <2>1, <4>1 DEF Saved, Holds
    <3> QED BY <3>3, <3>4, <3>5 DEF FileInv
  <2>4. CASE UNCHANGED <<live, copying>>
    BY <1>q, <1>s, <2>1, <2>2, <2>4 DEF FileInv
  <2> QED BY <2>1, <2>3, <2>4
<1>16. ASSUME Die PROVE FileInv'
  <2>1. /\ \A x \in Txs : /\ call'[x] = "idle" /\ window'[x] \in {"none", "kept", "reverted"}
                          /\ status'[x] # "confirmed"
        /\ copying' = [w \in Txs \X Who |-> NoCopy]
    BY <1>16 DEF Die
  <2>2. \A t : ~Writing(t)'
    BY <2>1 DEF Writing
  <2> QED BY <2>1, <2>2 DEF FileInv, Undisturbed, LocalWriters, Saved, Trying
<1>17. CASE UNCHANGED vars
  <2>1. UNCHANGED <<live, copying, touched, disk, window, call, status, saving, before>>
    BY <1>17 DEF vars, files, book, jobs, history
  <2> QED BY <1>q, <1>s, <2>1 DEF Trying, FileInv
<1> QED
  BY <1>1, <1>2, <1>3, <1>4, <1>5, <1>6, <1>7, <1>9, <1>10, <1>11, <1>13, <1>14, <1>15, <1>16, <1>17,
     <1>18, <1>19
  DEF Next, Caller, Serving, Waiting, Commands, DoubleClose, Crash, Quiet

TrialInv == IInv /\ NetInv /\ FileInv

(* TrialInv holds of every behaviour of the engine.                        *)
LEMMA TrialInvariant == Spec => []TrialInv
<1>1. Init => NetInv /\ FileInv
  <2> SUFFICES ASSUME Init PROVE NetInv /\ FileInv
    OBVIOUS
  <2>1. \A x \in Txs : /\ call[x] = "idle" /\ window[x] = "none" /\ status[x] = "none"
                       /\ pending[TargetOf[x]] = NoTx /\ ~(grabbed[x] > 0)
    BY Wiring DEF Init
  <2>2. \A t : ~Writing(t)
    BY DEF Init, Writing
  <2> QED BY <2>1, <2>2 DEF NetInv, OnNet, OnTrial, Untried, Asked, FileInv, Undisturbed,
                            LocalWriters, Saved, Trying
<1>2. TypeOK /\ OneWindow /\ NetInv /\ [Next]_vars => NetInv'
  BY NetStep
<1>3. TypeOK /\ OneWindow /\ Exclusive /\ NetInv /\ FileInv /\ [Next]_vars => FileInv'
  BY FileStep
<1> QED BY <1>1, <1>2, <1>3, Inductive, PTL DEF Spec, IInv, TrialInv

(* The administrator tries the change itself, whatever restores of earlier *)
(* changes were under way when it was renamed into place.                  *)
THEOREM ChangeShown == Spec => []WindowShowsChange
<1>1. TrialInv => WindowShowsChange
  BY DEF TrialInv, FileInv, Undisturbed, Trying, WindowShowsChange
<1> QED BY <1>1, TrialInvariant, PTL

(* A local change that Commit called confirmed is in what the diskless     *)
(* machine comes back with, if no lbu older than the change outlasted the  *)
(* change's own.                                                           *)
THEOREM RestartKeeps == Spec => ConfirmedSurvives
<1>1. TrialInv /\ [Next]_vars =>
        [\A x \in Txs : /\ status[x] = "confirmed" /\ ~Net(x) /\ ~Fails("lbu")
                        /\ live[TargetOf[x]] = x /\ TargetOf[x] \notin touched
                        /\ before[x] = {}
                        /\ crashes' # crashes
                        => live'[TargetOf[x]] = x]_vars
  <2> SUFFICES ASSUME TrialInv, [Next]_vars, NEW x \in Txs,
                      status[x] = "confirmed", ~Net(x), ~Fails("lbu"),
                      live[TargetOf[x]] = x, TargetOf[x] \notin touched, before[x] = {},
                      crashes' # crashes
               PROVE  live'[TargetOf[x]] = x
    OBVIOUS
  <2>1. Crash
    BY DEF Next, Caller, Serving, Waiting, Commands, Begin, BeginEnd, Stage, Validate, CommitNet,
       CommitLocal, Rollback, Lookup, CloseChannel, DoubleClose, Apply, Arm, StartSave, EndSave, NoSave,
       RollbackEnd, Selected, OnConfirm, Timeout, TimeoutEnd, Close, Cleanup, Quiet, vars, bounds
  <2>2. live' = live \/ (Diskless /\ live' = disk)
    BY <2>1 DEF Crash
  <2> QED BY <2>2 DEF TrialInv, FileInv, Saved
<1> QED BY <1>1, TrialInvariant, PTL DEF Spec, ConfirmedSurvives

-----------------------------------------------------------------------------
(* The refinement of CommitConfirm, without its liveness: what a step of   *)
(* the engine is to the trials.                                            *)
LEMMA TrialsInit == Init => Trials!Init
<1> SUFFICES ASSUME Init PROVE Trials!Init
  OBVIOUS
<1>1. \A t \in NetTargets : t \in Targets /\ pending[t] = NoTx
  BY ConfigAssumption DEF Init
<1>2. \A x \in NetTxs : window[x] = "none"
  BY DEF Init, NetTxs
<1> QED BY <1>1, <1>2 DEF Init, Trials!Init

(* Every step of the engine is a step of the trials or leaves them alone.  *)
LEMMA TrialsStep == TrialInv /\ [Next]_vars => [Trials!Next]_(Trials!vars)
<1> SUFFICES ASSUME TypeOK, OneWindow, OnNet, Untried, Asked, [Next]_vars
             PROVE  [Trials!Next]_(Trials!vars)
  BY DEF TrialInv, IInv, NetInv
<1> DEFINE trial   == [t \in NetTargets |-> pending[t]]
           verdict == [x \in NetTxs |-> IF window[x] \in {"kept", "reverted"} THEN window[x] ELSE "none"]
<1>t. /\ window \in [Txs -> Windows]
      /\ pending \in [Targets -> Txs \cup {NoTx}]
      /\ NetTargets \subseteq Targets /\ TargetOf \in [Txs -> Targets]
  BY Wiring, ConfigAssumption DEF TypeOK
<1>n. \A x \in Txs : Net(x) <=> x \in NetTxs /\ TargetOf[x] \in NetTargets
  BY DEF NetTxs, Net
<1>p. ASSUME NEW x \in Txs, NEW v, pending' = [pending EXCEPT ![TargetOf[x]] = v]
      PROVE  trial' = [trial EXCEPT ![TargetOf[x]] = v]
  <2>1. \A t \in NetTargets : pending'[t] = IF t = TargetOf[x] THEN v ELSE pending[t]
    BY <1>t, <1>p
  <2> QED BY <2>1
<1>v. ASSUME \A x \in Txs : \/ window'[x] = window[x]
                            \/ /\ window[x] \notin {"kept", "reverted"}
                               /\ window'[x] \notin {"kept", "reverted"}
      PROVE  verdict' = verdict
  <2>1. \A x \in NetTxs : x \in Txs
    BY DEF NetTxs
  <2> QED BY <1>v, <2>1
<1>s. ASSUME UNCHANGED <<pending, closed>>, verdict' = verdict PROVE UNCHANGED Trials!vars
  BY <1>s DEF Trials!vars
<1>1. ASSUME NEW x \in Txs, \/ Begin(x) \/ BeginEnd(x) \/ Stage(x) \/ Validate(x) \/ CommitLocal(x)
                            \/ Rollback(x) \/ Lookup(x) \/ Arm(x) \/ RollbackEnd(x)
      PROVE  UNCHANGED Trials!vars
  <2>1. UNCHANGED <<pending, closed>>
    BY <1>1 DEF Begin, BeginEnd, Stage, Validate, CommitLocal, Rollback, Lookup, Arm, RollbackEnd, net
  <2>2. window' = window \/ (Arm(x) /\ window' = [window EXCEPT ![x] = "wait"])
    BY <1>1 DEF Begin, BeginEnd, Stage, Validate, CommitLocal, Rollback, Lookup, Arm, RollbackEnd
  <2>3. Arm(x) => window[x] \notin {"kept", "reverted"}
    BY DEF Arm, Untried
  <2> QED BY <1>t, <1>s, <1>v, <2>1, <2>2, <2>3
<1>2. ASSUME NEW x \in Txs, Selected(x) \/ OnConfirm(x) \/ Timeout(x) \/ TimeoutEnd(x)
                            \/ StartSave(x) \/ EndSave(x) \/ NoSave(x)
      PROVE  UNCHANGED Trials!vars
  <2>1. UNCHANGED <<pending, closed>>
    BY <1>2 DEF Selected, OnConfirm, Timeout, TimeoutEnd, StartSave, EndSave, NoSave, net
  <2>2. \/ window' = window
        \/ /\ window[x] \notin {"kept", "reverted"}
           /\ \E w \in {"confirming", "persisting", "saving", "keeping", "restoring", "reverting"} :
                window' = [window EXCEPT ![x] = w]
    BY <1>2 DEF Selected, OnConfirm, Timeout, TimeoutEnd, StartSave, EndSave, NoSave
  <2> QED BY <1>t, <1>s, <1>v, <2>1, <2>2
<1>3. ASSUME NEW x \in Txs, CommitNet(x) PROVE [Trials!Next]_(Trials!vars)
  <2>1. /\ UNCHANGED <<closed, window>> /\ Net(x) /\ status[x] = "validated"
    BY <1>3 DEF CommitNet
  <2>2. verdict' = verdict
    BY <1>v, <2>1
  <2>3. CASE pending[TargetOf[x]] = NoTx /\ pending' = [pending EXCEPT ![TargetOf[x]] = x]
    <3>1. trial' = [trial EXCEPT ![TargetOf[x]] = x] /\ trial[TargetOf[x]] = NoTx
      BY <1>n, <1>p, <2>1, <2>3
    <3>2. verdict[x] = "none" /\ x \in NetTxs
      BY <1>n, <2>1 DEF Untried
    <3> QED BY <2>1, <2>2, <3>1, <3>2 DEF Trials!Next, Trials!Try
  <2>4. CASE pending' = pending
    BY <1>s, <2>1, <2>2, <2>4
  <2> QED BY <1>3, <2>3, <2>4 DEF CommitNet
<1>4. ASSUME NEW x \in Txs, CloseChannel(x) PROVE Trials!Next
  <2>1. /\ UNCHANGED <<pending, window>> /\ closed' = closed \cup {x} /\ x \in NetTxs
    BY <1>4, <1>n DEF CloseChannel, OnNet
  <2>2. verdict' = verdict /\ trial' = trial
    BY <1>v, <2>1
  <2> QED BY <2>1, <2>2 DEF Trials!Next, Trials!Ask
<1>5. ASSUME NEW x \in Txs, Apply(x) PROVE [Trials!Next]_(Trials!vars)
  <2>1. UNCHANGED <<closed, window>> /\ call[x] = "apply"
    BY <1>5 DEF Apply
  <2>2. verdict' = verdict
    BY <1>v, <2>1
  <2>3. CASE pending' = pending
    BY <1>s, <2>1, <2>2, <2>3
  <2>4. CASE pending' = [pending EXCEPT ![TargetOf[x]] = NoTx]
    <3>1. Net(x) /\ pending[TargetOf[x]] = x
      BY <2>1 DEF OneWindow, OnTrial, OnNet
    <3>2. trial' = [trial EXCEPT ![TargetOf[x]] = NoTx] /\ trial[TargetOf[x]] = x /\ x \in NetTxs
      BY <1>n, <1>p, <2>4, <3>1
    <3> QED BY <2>1, <2>2, <3>2 DEF Trials!Next, Trials!Refuse
  <2> QED BY <1>5, <2>3, <2>4 DEF Apply
<1>6. ASSUME NEW x \in Txs, Close(x) PROVE Trials!Next
  <2>1. /\ closed' = closed /\ window[x] \in {"keeping", "reverting"}
        /\ window' = [window EXCEPT ![x] = IF window[x] = "keeping" THEN "kept" ELSE "reverted"]
        /\ pending' = [pending EXCEPT ![TargetOf[x]] = NoTx]
    BY <1>6 DEF Close
  <2>2. Net(x) /\ pending[TargetOf[x]] = x
    BY <2>1 DEF OneWindow, OnTrial, OnNet
  <2>3. trial' = [trial EXCEPT ![TargetOf[x]] = NoTx] /\ trial[TargetOf[x]] = x /\ x \in NetTxs
    BY <1>n, <1>p, <2>1, <2>2
  <2>4. \A y \in NetTxs : window'[y] = IF y = x THEN (IF window[x] = "keeping" THEN "kept" ELSE "reverted")
                                                ELSE window[y]
    BY <1>t, <2>1 DEF NetTxs
  <2>5. verdict' = [verdict EXCEPT ![x] = IF window[x] = "keeping" THEN "kept" ELSE "reverted"]
    BY <2>4
  <2>6. window[x] = "keeping" => x \in closed
    BY DEF Asked
  <2> QED BY <2>1, <2>3, <2>5, <2>6 DEF Trials!Next, Trials!End
<1>7. ASSUME Die PROVE Trials!Next
  <2>1. pending' = [t \in Targets |-> NoTx] /\ closed' = closed
    BY <1>7 DEF Die
  <2>2. \A x \in Txs : window'[x] = IF window[x] \in {"kept", "reverted"} THEN window[x] ELSE "none"
    BY <1>7 DEF Die
  <2>3. verdict' = verdict
    BY <1>v, <2>2
  <2>4. trial' = [t \in NetTargets |-> NoTx]
    BY <1>t, <2>1
  <2> QED BY <2>1, <2>3, <2>4 DEF Trials!Next, Trials!Forget
<1>8. CASE Cleanup \/ UNCHANGED vars
  <2>1. UNCHANGED <<pending, closed, window>>
    BY <1>8 DEF Cleanup, vars, net
  <2> QED BY <1>s, <1>v, <2>1
<1> QED
  BY <1>1, <1>2, <1>3, <1>4, <1>5, <1>6, <1>7, <1>8
  DEF Next, Caller, Serving, Waiting, Commands, DoubleClose, Crash, Quiet

(* Every behaviour of the engine, seen through confirmCh, the closed       *)
(* channels and how its windows end, is one of commit-confirm trials.      *)
THEOREM RefinesCommitConfirm == Spec => ImplementsCommitConfirm
BY TrialsInit, TrialsStep, TrialInvariant, PTL DEF Spec, ImplementsCommitConfirm, Trials!Spec
=============================================================================
