------------------------------ MODULE ConfigTx ------------------------------
(***************************************************************************)
(* The configuration transactions of src/pkg/configtx: the engine          *)
(* (transaction.go), the commit-confirm window of network targets          *)
(* (network.go) and the lbu persistence of diskless systems                *)
(* (persistence.go).                                                       *)
(*                                                                         *)
(* A transaction x proposes one content for its target; that content is    *)
(* named by x itself.  call[x] is the engine call that holds tx.mu, and    *)
(* window[x] is the awaitConfirm goroutine, which holds no lock.  Files    *)
(* change under these calls, so a step ends wherever another actor could   *)
(* see a file or the map confirmCh changed.  The timer may fire at any     *)
(* moment of the window.  The commands rc-service and lbu run as processes *)
(* of their own, without a lock and without a deadline.                    *)
(***************************************************************************)
EXTENDS Integers, FiniteSets, Sequences

CONSTANTS
  Txs,          \* transactions
  Targets,      \* managed files
  TargetOf,     \* the target of each transaction
  NetTargets,   \* the targets with IsNetwork
  Fresh,        \* targets whose file may not exist yet
  NoTx,         \* no transaction
  Orig, Absent, \* a file as the administrator left it; no file
  Torn,         \* truncated, partly written or mixed content
  NoCopy,       \* a copy that is not under way
  NoImage,      \* an lbu that is not running
  Diskless,     \* IsDiskless: live files are in memory until lbu commit
  Faults,       \* the system calls that may fail
  SameSecond,   \* bound: Begin calls of one target may fall in one second
  MaxConfirms,  \* bound: Confirm calls between the lookup and the close
  Retain,       \* Cleanup's retainBackups
  MaxCleanups,  \* bound: calls of Cleanup
  MaxCrashes    \* bound: process deaths other than a panic

Special == {Orig, Absent, Torn}
Contents == Txs \cup Special
Images   == [Targets -> Contents]

ASSUME ConfigAssumption == /\ TargetOf \in [Txs -> Targets]
                           /\ NetTargets \subseteq Targets /\ Fresh \subseteq Targets
                           /\ NoTx \notin Txs
                           /\ Txs \cap Special = {}
                           /\ Cardinality(Special) = 3
                           /\ NoCopy \notin Contents /\ NoImage \notin Images
                           /\ {Diskless, SameSecond} \subseteq BOOLEAN
                           /\ Faults \subseteq {"stage", "copy", "rename", "lbu"}
                           /\ {MaxConfirms, Retain, MaxCleanups, MaxCrashes} \subseteq Nat

VARIABLES
  live,      \* the live file of each target
  disk,      \* what lbu has saved of it
  bak,       \* backup files, named by the first transaction of their second
  staged,    \* transactions whose staged file exists
  status,    \* Transaction.Status, "none" before Begin
  known,     \* Engine.transactions
  slot,      \* the backup file each transaction's BackupPath names
  order,     \* transactions by CreatedAt
  recent,    \* the transaction of each target that began in this second
  call,      \* the engine call holding tx.mu
  window,    \* the awaitConfirm goroutine
  pending,   \* NetworkSafety.confirmCh
  closed,    \* transactions whose channel has been closed
  grabbed,   \* Confirm calls that hold a channel and have not closed it
  reading,   \* Begin calls writing a backup, with what they have read
  copying,   \* restores writing to the live file, with what they write
  saving,    \* lbu commands under way, with the files they have read
  passed,    \* history: transactions that passed Validate
  touched,   \* history: targets a manual Rollback wrote to since the last rename
  before,    \* history: lbu commands older than a rename that outlast its own lbu
  cleanups, crashes

files   == <<live, disk, bak, staged>>
jobs    == <<reading, copying, saving>>
book    == <<status, known, slot, order, recent>>
net     == <<pending, closed, grabbed>>
history == <<passed, touched, before>>
bounds  == <<cleanups, crashes>>
vars    == <<files, book, call, window, net, jobs, history, bounds>>

Net(x)  == TargetOf[x] \in NetTargets
Who     == {"call", "timer"}
Fails(f) == f \in Faults

Init == /\ live \in [Targets -> {Orig, Absent}]
        /\ \A t \in Targets \ Fresh : live[t] = Orig
        /\ disk = live
        /\ bak = [s \in Txs |-> Absent]
        /\ staged = {}
        /\ status = [x \in Txs |-> "none"]
        /\ known = {}
        /\ slot = [x \in Txs |-> x]
        /\ order = <<>>
        /\ recent = [t \in Targets |-> NoTx]
        /\ call = [x \in Txs |-> "idle"]
        /\ window = [x \in Txs |-> "none"]
        /\ pending = [t \in Targets |-> NoTx]
        /\ closed = {}
        /\ grabbed = [x \in Txs |-> 0]
        /\ reading = [x \in Txs |-> NoCopy]
        /\ copying = [w \in Txs \X Who |-> NoCopy]
        /\ saving = [x \in Txs |-> NoImage]
        /\ passed = {}
        /\ touched = {}
        /\ before = [x \in Txs |-> {}]
        /\ cleanups = 0
        /\ crashes = 0

-----------------------------------------------------------------------------
(* Begin: the backup is named by the second, so a transaction that begins  *)
(* in the same second as another of its target overwrites its backup.      *)
BackupFile(x) ==
  {x} \cup {slot[y] : y \in {y \in Txs : SameSecond /\ recent[TargetOf[x]] = y}}

(* copyFile truncates the backup when it opens it; its live file is read   *)
(* in one moment.                                                          *)
Begin(x) == /\ status[x] = "none" /\ call[x] = "idle"
            /\ call' = [call EXCEPT ![x] = "begin"]
            /\ \E s \in BackupFile(x) :
                 /\ slot' = [slot EXCEPT ![x] = s]
                 /\ \/ /\ live[TargetOf[x]] # Absent
                       /\ bak' = [bak EXCEPT ![s] = Torn]
                       /\ reading' = [reading EXCEPT ![x] = live[TargetOf[x]]]
                    \/ /\ live[TargetOf[x]] = Absent
                       /\ UNCHANGED <<bak, reading>>
            /\ recent' = [recent EXCEPT ![TargetOf[x]] = x]
            /\ UNCHANGED <<live, disk, staged, status, known, order, window, net, copying, saving,
                           history, bounds>>

(* The backup is written, or is left torn, over what another Begin of the  *)
(* same second wrote to it and unless Cleanup has deleted it.              *)
WriteBackup(x) ==
  LET c == reading[x]
      s == slot[x]
  IN  /\ reading' = [reading EXCEPT ![x] = NoCopy]
      /\ \/ (c = NoCopy \/ bak[s] = Absent) /\ bak' = bak
         \/ c # NoCopy /\ bak[s] # Absent /\ bak' = [bak EXCEPT ![s] = c]
         \/ /\ c # NoCopy /\ bak[s] # Absent
            /\ bak[s] # Torn \/ Fails("copy")
            /\ bak' = [bak EXCEPT ![s] = Torn]

(* The transaction exists from here on; a failed backup leaves none.       *)
BeginEnd(x) == /\ call[x] = "begin"
               /\ call' = [call EXCEPT ![x] = "idle"]
               /\ WriteBackup(x)
               /\ \/ /\ status' = [status EXCEPT ![x] = "pending"]
                     /\ known' = known \cup {x}
                     /\ order' = Append(order, x)
                  \/ /\ Fails("copy")
                     /\ reading[x] # NoCopy
                     /\ UNCHANGED <<status, known, order>>
               /\ UNCHANGED <<live, disk, staged, slot, recent, window, net, copying, saving,
                              history, bounds>>

Stage(x) == /\ call[x] = "idle"
            /\ status[x] = "pending"
            /\ \/ /\ status' = [status EXCEPT ![x] = "staged"]
                  /\ staged' = staged \cup {x}
               \/ /\ Fails("stage")
                  /\ status' = [status EXCEPT ![x] = "failed"]
                  /\ UNCHANGED staged
            /\ UNCHANGED <<live, disk, bak, known, slot, order, recent, call, window, net,
                           jobs, history, bounds>>

(* Mutant of Validate: the validator's error is returned and not recorded. *)
ValidateLax(x) == /\ call[x] = "idle"
                  /\ status[x] = "staged"
                  /\ status' = [status EXCEPT ![x] = "validated"]
                  /\ passed' \in {passed, passed \cup {x}}
                  /\ UNCHANGED <<files, known, slot, order, recent, call, window, net, jobs,
                                 touched, before, bounds>>

Validate(x) == /\ call[x] = "idle"
               /\ status[x] = "staged"
               /\ \/ /\ status' = [status EXCEPT ![x] = "validated"]
                     /\ passed' = passed \cup {x}
                  \/ /\ status' = [status EXCEPT ![x] = "failed"]
                     /\ UNCHANGED passed
               /\ UNCHANGED <<files, known, slot, order, recent, call, window, net, jobs,
                              touched, before, bounds>>

-----------------------------------------------------------------------------
Saving == {y \in Txs : saving[y] # NoImage}

(* Mutant of Rename: the staged content is copied into the live file.      *)
RenameInPlace(x) == /\ live' = [live EXCEPT ![TargetOf[x]] = x]
                    /\ staged' = staged \ {x}
                    /\ touched' = touched \ {TargetOf[x]}
                    /\ before' = [before EXCEPT ![x] = Saving]
                    /\ UNCHANGED <<disk, bak, jobs, passed>>

(* The rename replaces the live file: a restore that has it open goes on   *)
(* writing to a file that no longer has a name.                            *)
Rename(x) == /\ live' = [live EXCEPT ![TargetOf[x]] = x]
             /\ staged' = staged \ {x}
             /\ copying' = [w \in Txs \X Who |->
                              IF TargetOf[w[1]] = TargetOf[x] THEN NoCopy ELSE copying[w]]
             /\ touched' = touched \ {TargetOf[x]}
             /\ before' = [before EXCEPT ![x] = Saving]
             /\ UNCHANGED <<disk, bak, reading, saving, passed>>

(* Mutant of CommitNet: claims the target without looking at confirmCh.    *)
CommitNetUnchecked(x) ==
  /\ x \in known /\ call[x] = "idle" /\ status[x] = "validated" /\ Net(x)
  /\ status' = [status EXCEPT ![x] = "committed"]
  /\ pending' = [pending EXCEPT ![TargetOf[x]] = x]
  /\ call' = [call EXCEPT ![x] = "apply"]
  /\ UNCHANGED <<files, known, slot, order, recent, window, closed, grabbed, jobs, history, bounds>>

(* Commit of a network target: committed first, then StageCommit looks for *)
(* a pending change and claims the target.                                 *)
CommitNet(x) == /\ x \in known /\ call[x] = "idle" /\ status[x] = "validated" /\ Net(x)
                /\ status' = [status EXCEPT ![x] = "committed"]
                /\ \/ /\ pending[TargetOf[x]] = NoTx
                      /\ pending' = [pending EXCEPT ![TargetOf[x]] = x]
                      /\ call' = [call EXCEPT ![x] = "apply"]
                   \/ /\ pending[TargetOf[x]] # NoTx
                      /\ UNCHANGED <<pending, call>>
                /\ UNCHANGED <<files, known, slot, order, recent, window, closed, grabbed,
                               jobs, history, bounds>>

(* Mutant of Apply: a failed rename returns without cleanup(name).         *)
ApplyLeaks(x) == /\ call[x] = "apply"
                 /\ \/ /\ x \in staged
                       /\ Rename(x)
                       /\ call' = [call EXCEPT ![x] = "arm"]
                    \/ /\ x \notin staged \/ Fails("rename")
                       /\ call' = [call EXCEPT ![x] = "idle"]
                       /\ UNCHANGED <<files, jobs, history>>
                 /\ UNCHANGED <<book, window, net, bounds>>

(* os.Rename of StageCommit, which cleans up when it fails.                *)
Apply(x) == /\ call[x] = "apply"
            /\ \/ /\ x \in staged
                  /\ Rename(x)
                  /\ call' = [call EXCEPT ![x] = "arm"]
                  /\ UNCHANGED pending
               \/ /\ x \notin staged \/ Fails("rename")
                  /\ call' = [call EXCEPT ![x] = "idle"]
                  /\ pending' = [pending EXCEPT ![TargetOf[x]] = NoTx]
                  /\ UNCHANGED <<files, jobs, history>>
            /\ UNCHANGED <<book, window, closed, grabbed, bounds>>

(* The restart of the service has ended; only now is awaitConfirm started, *)
(* with the timer, and Commit returns.                                     *)
Arm(x) == /\ call[x] = "arm"
          /\ call' = [call EXCEPT ![x] = "idle"]
          /\ window' = [window EXCEPT ![x] = "wait"]
          /\ UNCHANGED <<files, book, net, jobs, history, bounds>>

CommitLocal(x) == /\ x \in known /\ call[x] = "idle" /\ status[x] = "validated" /\ ~Net(x)
                  /\ \/ /\ x \in staged
                        /\ Rename(x)
                        /\ status' = [status EXCEPT ![x] = "committed"]
                        /\ call' = [call EXCEPT ![x] = "persist"]
                     \/ /\ x \notin staged \/ Fails("rename")
                        /\ status' = [status EXCEPT ![x] = "failed"]
                        /\ UNCHANGED <<files, call, jobs, history>>
                  /\ UNCHANGED <<known, slot, order, recent, window, net, bounds>>

-----------------------------------------------------------------------------
(* Persist.  lbu commit saves every live file, not only the target's: it   *)
(* reads them, in one moment, and puts what it has read on disk when it    *)
(* ends.  No lock keeps the lbu of two transactions apart.                 *)

(* The service has been reloaded: Persist starts lbu, where it is needed.  *)
StartSave(x) ==
  /\ Diskless
  /\ saving' = [saving EXCEPT ![x] = live]
  /\ \/ /\ call[x] = "persist"
        /\ call' = [call EXCEPT ![x] = "saving"]
        /\ UNCHANGED window
     \/ /\ window[x] = "persisting"
        /\ window' = [window EXCEPT ![x] = "saving"]
        /\ UNCHANGED call
  /\ UNCHANGED <<files, book, net, reading, copying, history, bounds>>

WriteImage(x) == /\ saving' = [saving EXCEPT ![x] = NoImage]
                 /\ disk' = saving[x] \/ (Fails("lbu") /\ disk' = disk)
                 /\ before' = [y \in Txs |-> IF status[y] = "confirmed" THEN before[y]
                                                                     ELSE before[y] \ {x}]

(* An lbu ends.  Its caller, if it is still alive, goes on: a failure is   *)
(* only logged.                                                            *)
EndSave(x) ==
  /\ saving[x] # NoImage
  /\ WriteImage(x)
  /\ \/ /\ call[x] = "saving"
        /\ call' = [call EXCEPT ![x] = "idle"]
        /\ status' = [status EXCEPT ![x] = "confirmed"]
        /\ UNCHANGED window
     \/ /\ window[x] = "saving"
        /\ window' = [window EXCEPT ![x] = "keeping"]
        /\ UNCHANGED <<status, call>>
     \/ /\ call[x] # "saving" /\ window[x] # "saving"
        /\ UNCHANGED <<status, call, window>>
  /\ UNCHANGED <<live, bak, staged, known, slot, order, recent, net, reading, copying, passed,
                 touched, bounds>>

(* Mutant of NoSave: a diskless machine is taken for one with a disk.      *)
NoSaveAnyway(x) ==
  /\ \/ /\ call[x] = "persist"
        /\ call' = [call EXCEPT ![x] = "idle"]
        /\ status' = [status EXCEPT ![x] = "confirmed"]
        /\ UNCHANGED window
     \/ /\ window[x] = "persisting"
        /\ window' = [window EXCEPT ![x] = "keeping"]
        /\ UNCHANGED <<status, call>>
  /\ UNCHANGED <<files, known, slot, order, recent, net, jobs, history, bounds>>

(* Persist returns at once: there is no need of lbu, or there is no lbu.   *)
NoSave(x) ==
  /\ ~Diskless \/ Fails("lbu")
  /\ \/ /\ call[x] = "persist"
        /\ call' = [call EXCEPT ![x] = "idle"]
        /\ status' = [status EXCEPT ![x] = "confirmed"]
        /\ UNCHANGED window
     \/ /\ window[x] = "persisting"
        /\ window' = [window EXCEPT ![x] = "keeping"]
        /\ UNCHANGED <<status, call>>
  /\ UNCHANGED <<files, known, slot, order, recent, net, jobs, history, bounds>>

-----------------------------------------------------------------------------
(* copyFile onto the live file: it is truncated when it is opened, and     *)
(* written with what the backup held.                                      *)
OpenLive(x, who) == /\ bak[slot[x]] # Absent
                    /\ live' = [live EXCEPT ![TargetOf[x]] = Torn]
                    /\ copying' = [copying EXCEPT ![<<x, who>>] = bak[slot[x]]]

(* Writing over what another copy wrote meanwhile can leave a mixture.     *)
WriteLive(x, who) ==
  LET t == TargetOf[x]
      c == copying[<<x, who>>]
  IN  /\ copying' = [copying EXCEPT ![<<x, who>>] = NoCopy]
      /\ \/ c = NoCopy /\ live' = live
         \/ c # NoCopy /\ live' = [live EXCEPT ![t] = c]
         \/ c # NoCopy /\ (live[t] # Torn \/ Fails("copy")) /\ live' = [live EXCEPT ![t] = Torn]

(* Rollback looks at no status and at no window.                           *)
Rollback(x) ==
  /\ x \in known /\ call[x] = "idle"
  /\ \/ /\ OpenLive(x, "call")
        /\ call' = [call EXCEPT ![x] = "restore"]
        /\ touched' = touched \cup {TargetOf[x]}
        /\ UNCHANGED <<staged, status>>
     \/ /\ bak[slot[x]] = Absent
        /\ staged' = staged \ {x}
        /\ status' = [status EXCEPT ![x] = "rolled_back"]
        /\ UNCHANGED <<live, call, copying, touched>>
  /\ UNCHANGED <<disk, bak, known, slot, order, recent, window, net, reading, saving,
                 passed, before, bounds>>

(* The copy has ended; when it failed, Rollback returns the error here.    *)
RollbackEnd(x) == /\ call[x] = "restore"
                  /\ WriteLive(x, "call")
                  /\ call' = [call EXCEPT ![x] = "idle"]
                  /\ \/ /\ staged' = staged \ {x}
                        /\ status' = [status EXCEPT ![x] = "rolled_back"]
                     \/ /\ Fails("copy")
                        /\ live'[TargetOf[x]] = Torn
                        /\ UNCHANGED <<staged, status>>
                  /\ UNCHANGED <<disk, bak, known, slot, order, recent, window, net, reading,
                                 saving, history, bounds>>

-----------------------------------------------------------------------------
(* Confirm: look the channel up under ns.mu, close it after the unlock.    *)
(* The key is the target's name; any other key is an error.                *)
Lookup(x) == /\ pending[TargetOf[x]] = x
             /\ grabbed[x] < MaxConfirms
             /\ grabbed' = [grabbed EXCEPT ![x] = @ + 1]
             /\ UNCHANGED <<files, book, call, window, pending, closed, jobs, history, bounds>>

CloseChannel(x) == /\ grabbed[x] > 0
                   /\ x \notin closed
                   /\ closed' = closed \cup {x}
                   /\ grabbed' = [grabbed EXCEPT ![x] = @ - 1]
                   /\ UNCHANGED <<files, book, call, window, pending, jobs, history, bounds>>

(* Mutant of Selected: the window closes with the change kept by default.  *)
SelectedAnyway(x) == /\ window[x] = "wait"
                     /\ window' = [window EXCEPT ![x] = "confirming"]
                     /\ UNCHANGED <<files, book, call, net, jobs, history, bounds>>

(* awaitConfirm's select: a channel closed before the timer fires wins,    *)
(* even before the select is reached, for the timer starts there.          *)
Selected(x) == /\ window[x] = "wait"
               /\ x \in closed
               /\ window' = [window EXCEPT ![x] = "confirming"]
               /\ UNCHANGED <<files, book, call, net, jobs, history, bounds>>

(* onConfirm waits for tx.mu, which a Rollback may hold.                   *)
OnConfirm(x) == /\ window[x] = "confirming"
                /\ call[x] = "idle"
                /\ status' = [status EXCEPT ![x] = "confirmed"]
                /\ window' = [window EXCEPT ![x] = "persisting"]
                /\ UNCHANGED <<files, known, slot, order, recent, call, net, jobs, history, bounds>>

(* Mutant of Timeout: records the rollback under a status no code knows.   *)
TimeoutReverted(x) == /\ window[x] = "wait"
                      /\ window' = [window EXCEPT ![x] = "reverting"]
                      /\ status' = [status EXCEPT ![x] = "reverted"]
                      /\ UNCHANGED <<files, known, slot, order, recent, call, net, jobs, history,
                                     bounds>>

(* Mutant of Timeout: awaitConfirm looks at its timer and not at ch.       *)
TimeoutAnyway(x) == /\ window[x] = "wait"
                    /\ window' = [window EXCEPT ![x] = "restoring"]
                    /\ OpenLive(x, "timer")
                    /\ recent' = [t \in Targets |-> NoTx]
                    /\ UNCHANGED <<disk, bak, staged, status, known, slot, order, call, net,
                                   reading, saving, history, bounds>>

(* The confirmation window has passed: no transaction began this second.   *)
Timeout(x) == /\ window[x] = "wait"
              /\ x \notin closed
              /\ \/ /\ OpenLive(x, "timer")
                    /\ window' = [window EXCEPT ![x] = "restoring"]
                 \/ /\ bak[slot[x]] = Absent \/ Fails("copy")
                    /\ window' = [window EXCEPT ![x] = "reverting"]
                    /\ UNCHANGED <<live, copying>>
              /\ recent' = [t \in Targets |-> NoTx]
              /\ UNCHANGED <<disk, bak, staged, status, known, slot, order, call, net,
                             reading, saving, history, bounds>>

TimeoutEnd(x) == /\ window[x] = "restoring"
                 /\ WriteLive(x, "timer")
                 /\ window' = [window EXCEPT ![x] = "reverting"]
                 /\ UNCHANGED <<disk, bak, staged, book, call, net, reading, saving, history, bounds>>

(* Mutant of Close: the entry of confirmCh is left behind.                 *)
CloseLeaks(x) == /\ window[x] \in {"keeping", "reverting"}
                 /\ window' = [window EXCEPT ![x] = IF @ = "keeping" THEN "kept" ELSE "reverted"]
                 /\ UNCHANGED <<files, book, call, net, jobs, history, bounds>>

(* cleanup(name) ends awaitConfirm on both branches, after a rollback when *)
(* the restart of the service has ended.                                   *)
Close(x) == /\ window[x] \in {"keeping", "reverting"}
            /\ window' = [window EXCEPT ![x] = IF @ = "keeping" THEN "kept" ELSE "reverted"]
            /\ pending' = [pending EXCEPT ![TargetOf[x]] = NoTx]
            /\ UNCHANGED <<files, book, call, closed, grabbed, jobs, history, bounds>>

-----------------------------------------------------------------------------
(* Cleanup(ttl, Retain) drops the oldest transactions with their staged    *)
(* files, then deletes from each backup directory all but Retain entries.  *)
(* Backups sort by age; staged files carry random names, so which of them  *)
(* go is open.                                                             *)
Entries(t, S) == {e \in {<<"bak", s>> : s \in {s \in Txs : bak[s] # Absent}}
                      \cup {<<"staged", x>> : x \in S} : TargetOf[e[2]] = t}

OldestFirst(R) == \A i, j \in 1..Len(order) :
                    /\ i < j
                    /\ TargetOf[order[i]] = TargetOf[order[j]]
                    /\ <<"bak", order[j]>> \in R
                    /\ bak[order[i]] # Absent
                    => <<"bak", order[i]>> \in R

Cleanup ==
  /\ cleanups < MaxCleanups
  /\ \E n \in 0..Len(order) :
       LET old == known \cap {order[i] : i \in 1..n}
           S   == staged \ old
       IN  \E R \in SUBSET UNION {Entries(t, S) : t \in Targets} :
             /\ OldestFirst(R)
             /\ \A t \in Targets :
                  LET k == Cardinality(Entries(t, S)) - Retain
                  IN  Cardinality(R \cap Entries(t, S)) = IF k > 0 THEN k ELSE 0
             /\ known' = known \ old
             /\ staged' = {x \in S : <<"staged", x>> \notin R}
             /\ bak' = [s \in Txs |-> IF <<"bak", s>> \in R THEN Absent ELSE bak[s]]
  /\ cleanups' = cleanups + 1
  /\ UNCHANGED <<live, disk, status, slot, order, recent, call, window, net, jobs, history, crashes>>

(* The process dies and forgets its transactions and windows; an lbu it    *)
(* started goes on.                                                        *)
Die == /\ known' = {}
       /\ status' = [x \in Txs |-> IF status[x] = "none" THEN "none" ELSE "lost"]
       /\ call' = [x \in Txs |-> "idle"]
       /\ window' = [x \in Txs |-> IF window[x] \in {"kept", "reverted"} THEN window[x] ELSE "none"]
       /\ pending' = [t \in Targets |-> NoTx]
       /\ grabbed' = [x \in Txs |-> 0]
       /\ reading' = [x \in Txs |-> NoCopy]
       /\ copying' = [w \in Txs \X Who |-> NoCopy]
       /\ before' = [x \in Txs |-> {}]
       /\ UNCHANGED <<disk, bak, staged, slot, order, recent, closed, passed, touched, cleanups>>

(* A second Confirm closes a closed channel, which panics.                 *)
DoubleClose(x) == grabbed[x] > 0 /\ x \in closed /\ Die /\ UNCHANGED <<live, saving, crashes>>

(* The process is killed, or the machine restarts, and lbu with it.        *)
Crash == /\ crashes < MaxCrashes
         /\ crashes' = crashes + 1
         /\ Die
         /\ \/ UNCHANGED <<live, saving>>
            \/ /\ saving' = [x \in Txs |-> NoImage]
               /\ live' = IF Diskless THEN disk ELSE live

Quiet == /\ \A x \in Txs : /\ status[x] # "none" /\ call[x] = "idle" /\ grabbed[x] = 0
                            /\ saving[x] = NoImage
         /\ \A t \in Targets : pending[t] = NoTx
         /\ UNCHANGED vars

(* Steps of callers, of calls and goroutines under way, and those that     *)
(* wait for rc-service or lbu to end.                                      *)
Caller(x)   == \/ Begin(x) \/ BeginEnd(x) \/ Stage(x) \/ Validate(x)
               \/ CommitNet(x) \/ CommitLocal(x) \/ Rollback(x)
               \/ Lookup(x) \/ CloseChannel(x) \/ DoubleClose(x)
Serving(x)  == Apply(x) \/ RollbackEnd(x)
Waiting(x)  == Selected(x) \/ Timeout(x) \/ TimeoutEnd(x)
Commands(x) == Arm(x) \/ StartSave(x) \/ EndSave(x) \/ NoSave(x)

Next == \/ \E x \in Txs : \/ Caller(x) \/ Serving(x) \/ Waiting(x)
                         \/ Commands(x) \/ OnConfirm(x) \/ Close(x)
        \/ Cleanup \/ Crash \/ Quiet

Spec == Init /\ [][Next]_vars

(* Files are copied and renamed in finite time, the timer fires unless the *)
(* channel was closed, and a goroutine that waits for tx.mu gets it        *)
(* although other calls keep taking it: a sync.Mutex hands itself to a     *)
(* waiter it has starved.  Nothing makes a command end.                    *)
FairSpec == Spec /\ \A x \in Txs : /\ WF_vars(Serving(x))
                                   /\ WF_vars(Waiting(x))
                                   /\ WF_vars(window[x] = "keeping" /\ Close(x))
                                   /\ SF_vars(OnConfirm(x))

-----------------------------------------------------------------------------
Statuses == {"none", "pending", "staged", "validated", "committed", "confirmed",
             "rolled_back", "failed", "lost"}

Calls    == {"idle", "begin", "apply", "arm", "persist", "saving", "restore"}
Windows  == {"none", "wait", "confirming", "persisting", "saving", "keeping", "restoring",
             "reverting", "kept", "reverted"}

(* Every variable holds the values its Go type and the code allow.         *)
TypeOK == /\ live \in [Targets -> Contents]
          /\ disk \in [Targets -> Contents]
          /\ bak \in [Txs -> Contents]
          /\ staged \subseteq Txs
          /\ status \in [Txs -> Statuses]
          /\ known \subseteq Txs
          /\ slot \in [Txs -> Txs]
          /\ order \in Seq(Txs)
          /\ recent \in [Targets -> Txs \cup {NoTx}]
          /\ call \in [Txs -> Calls]
          /\ window \in [Txs -> Windows]
          /\ pending \in [Targets -> Txs \cup {NoTx}]
          /\ closed \subseteq Txs
          /\ grabbed \in [Txs -> 0..MaxConfirms]
          /\ reading \in [Txs -> Contents \cup {NoCopy}]
          /\ copying \in [Txs \X Who -> Contents \cup {NoCopy}]
          /\ saving \in [Txs -> Images \cup {NoImage}]
          /\ passed \subseteq Txs
          /\ touched \subseteq Targets
          /\ before \in [Txs -> SUBSET Txs]
          /\ cleanups \in 0..MaxCleanups
          /\ crashes \in 0..MaxCrashes

OnTrial(x) == \/ call[x] \in {"apply", "arm"}
              \/ window[x] \notin {"none", "kept", "reverted"}

(* confirmCh, which is keyed by name and deleted by name, has an entry     *)
(* exactly while a Commit or a goroutine that will delete it is at work,   *)
(* and never more than one of them per target.                             *)
OneWindow == /\ \A x \in Txs : OnTrial(x) <=> pending[TargetOf[x]] = x
             /\ \A t \in Targets : pending[t] # NoTx => TargetOf[pending[t]] = t

(* Whatever restores, backups of backups, lbu and restarts do, a proposed  *)
(* content gets into the live or the saved file only after Validate.       *)
OnlyValidatedLive ==
  \A t \in Targets, x \in Txs : x \in {live[t], disk[t]} => x \in passed /\ TargetOf[x] = t

(* During the window the administrator tries out the change itself: no     *)
(* earlier restore, still writing, overwrites it, unless a Rollback is     *)
(* called in the window.                                                   *)
WindowShowsChange ==
  \A x \in Txs : /\ \/ call[x] = "arm"
                    \/ window[x] \in {"wait", "confirming", "persisting", "saving", "keeping"}
                 /\ TargetOf[x] \notin touched
                 => live[TargetOf[x]] = x

NetTxs == {x \in Txs : Net(x)}

AtCommand(x) == \/ call[x] \in {"arm", "persist", "saving"}
                \/ window[x] \in {"persisting", "saving", "reverting"}

(* If the commands run for a target end, its windows close: the change is  *)
(* confirmed or reverted, or its process dies, and later commits of the    *)
(* target are possible again, whatever Confirm, Rollback and the timer do. *)
WindowCloses ==
  \A t \in Targets : (\A x \in Txs : TargetOf[x] = t => []<>~AtCommand(x))
                     => (pending[t] # NoTx ~> pending[t] = NoTx)

(* A Confirm that has closed the channel of a window before its timer      *)
(* fired ends, if the commands do, with the change kept and never with a   *)
(* rollback, though rollbacks by hand compete for tx.mu and a second       *)
(* Confirm may end the process.                                            *)
ConfirmInTime ==
  \A x \in NetTxs : []<>~AtCommand(x)
                    => (window[x] = "wait" /\ x \in closed ~> window[x] \in {"kept", "none"})

(* Alpine diskless, lbu working: a local change that Commit reported as    *)
(* confirmed and nobody rolled back is still there after a restart, if     *)
(* every lbu that was running when the change was put live had ended       *)
(* before the lbu of its own Commit did.                                   *)
ConfirmedSurvives ==
  [][\A x \in Txs : /\ status[x] = "confirmed" /\ ~Net(x) /\ ~Fails("lbu")
                    /\ live[TargetOf[x]] = x /\ TargetOf[x] \notin touched
                    /\ before[x] = {}
                    /\ crashes' # crashes
                    => live'[TargetOf[x]] = x]_vars

(* The windows are trials that end with a verdict.                         *)
Trials == INSTANCE CommitConfirm WITH
  Changes  <- NetTxs,
  Places   <- NetTargets,
  PlaceOf  <- TargetOf,
  NoChange <- NoTx,
  trial    <- [t \in NetTargets |-> pending[t]],
  asked    <- closed,
  verdict  <- [x \in NetTxs |-> IF window[x] \in {"kept", "reverted"} THEN window[x] ELSE "none"]

(* A change is on trial alone on its target, ends once, and is kept only   *)
(* when an administrator asked for it.                                     *)
ImplementsCommitConfirm == Trials!Spec

-----------------------------------------------------------------------------
(* What the repository says of the engine and the code does not do.        *)

(* network.go:14-15, "the original config is restored. This prevents       *)
(* remote lockout": what an automatic rollback leaves live is no change    *)
(* that nobody confirmed.                                                  *)
OriginalRestored ==
  \A x \in Txs : /\ window[x] = "reverting"
                 /\ TargetOf[x] \notin touched
                 => live[TargetOf[x]] \notin {y \in NetTxs : status[y] # "confirmed"}

(* docs/configtx.md:157, "Network service restart fails | Config is still  *)
(* applied; auto-rollback timer starts": an applied change gets its timer, *)
(* however its restart goes.                                               *)
TimerStarts == \A x \in Txs : call[x] = "arm" ~> window[x] = "wait"

(* network.go:69, "Confirm stops the auto-rollback timer for the given     *)
(* target": a change whose Confirm has been accepted is not rolled back.   *)
ConfirmStopsRollback ==
  \A x \in closed : window[x] \notin {"restoring", "reverting", "reverted"}

(* network.go:12-15: a network change that nobody confirmed is live only   *)
(* while a Commit or a window, which will revert it, watches over it.      *)
UnconfirmedIsWatched ==
  \A x \in NetTxs : live[TargetOf[x]] = x /\ status[x] # "confirmed" => OnTrial(x)

(* persistence.go:63, "Persist attempts to make a config change durable":  *)
(* where lbu works, a restart brings a confirmed local change back,        *)
(* whatever other transactions do meanwhile.                               *)
ConfirmedIsDurable ==
  [][\A x \in Txs : /\ status[x] = "confirmed" /\ ~Net(x) /\ ~Fails("lbu")
                    /\ live[TargetOf[x]] = x /\ TargetOf[x] \notin touched
                    /\ crashes' # crashes
                    => live'[TargetOf[x]] = x]_vars

(* docs/configtx.md:64-84: in its life cycle a rolled back transaction has *)
(* come to its end, and only a committed one is ever confirmed.            *)
RolledBackStays ==
  [][\A x \in Txs : status[x] = "rolled_back" => status'[x] # "confirmed"]_vars
=============================================================================
