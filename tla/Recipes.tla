-------------------------------- MODULE Recipes --------------------------------
(***************************************************************************)
(* What the handlers of the root helper do to the machine: the methods of  *)
(* broker in src/cmd/roothelper/main.go, each as a recipe.                 *)
(*                                                                         *)
(* All handlers have one shape.  They refuse when the binary they need is  *)
(* not in allowed_helpers (helpers, any of them will do; {} where a        *)
(* handler does not ask), when the body is malformed or not valid, or the  *)
(* binary is not there (checked); then they take steps, under a context of *)
(* limit ticks, and answer.  A tick is 5 s, a limit of 0 is no context.  A *)
(* step is a command or a system call on a part of the machine:            *)
(*   "run"   a command that changes the part,                              *)
(*   "ask"   a command that only reads it,                                 *)
(*   "trunc" and "fill"  the two calls of os.WriteFile,                    *)
(*   "read"  os.ReadFile and the like,                                     *)
(*   "meta"  mkdir, chown, remove: no contents.                            *)
(* ok and err say how far the handler then moves on, 0 being the end with  *)
(* an execution error: err = {0} where the error is returned, {1} where it *)
(* is ignored, both where it depends on the output.  fresh marks a step    *)
(* with a context of its own.                                              *)
(***************************************************************************)
EXTENDS Naturals, Sequences, TLC

Step(do, on) == [do |-> do, on |-> on, ok |-> 1, err |-> {0}, fresh |-> FALSE]
Run(on)      == Step("run", on)
Ask(on)      == Step("ask", on)
Read(on)     == Step("read", on)
Meta(on)     == Step("meta", on)
Tried(s)     == [s EXCEPT !.err = {1}]
Fresh(s)     == [s EXCEPT !.fresh = TRUE]
Or(s, n)     == [s EXCEPT !.ok = n + 1, !.err = {1}]  \* n alternatives follow
Write(f)     == <<Step("trunc", f), Step("fill", f)>>

Recipe(helpers, checked, limit, steps) ==
  [helpers |-> helpers, checked |-> checked, limit |-> limit, steps |-> steps]

-----------------------------------------------------------------------------
(* openrc.Manager: 30 s for every command.  Status asks three times, and   *)
(* only the first answer is needed.                                        *)
OpenRC        == 6
ServiceStatus == <<Ask("services"), Fresh(Tried(Ask("services"))), Fresh(Tried(Ask("runlevels")))>>
ServiceEdit   == <<Run("services")>>
RunlevelEdit  == <<Run("runlevels")>>

(* Action "status" asks for the status twice and ignores the second error. *)
ServiceHandlers ==
     "ServiceList"    :> Recipe({"rc-status"}, FALSE, OpenRC, <<Ask("services")>>)
  @@ "ServiceStatus"  :> Recipe({"rc-service"}, TRUE, OpenRC, ServiceStatus)
  @@ "ServiceControl" :> Recipe({"rc-service"}, TRUE, OpenRC, ServiceEdit)
  @@ "ServiceControlStatus" :>
       Recipe({"rc-service"}, TRUE, OpenRC,
              ServiceStatus \o <<[Fresh(Tried(Ask("services"))) EXCEPT !.err = {3}]>> \o Tail(ServiceStatus))
  @@ "ServiceEnable"  :> Recipe({"rc-update"}, TRUE, OpenRC, RunlevelEdit)
  @@ "ServiceDisable" :> Recipe({"rc-update"}, TRUE, OpenRC, RunlevelEdit)

(* The running hostname first, the one of the next boot after it.          *)
SystemHandlers ==
     "SystemInfo"  :> Recipe({}, FALSE, 0, <<Tried(Read("hostname")), Tried(Read("proc"))>>)
  @@ "HostnameSet" :> Recipe({}, TRUE, 1, <<Run("hostname")>> \o Write("/etc/hostname"))

(* Search asks for the installed packages as well.  A mutating operation   *)
(* that fails is still answered OK, with the state in the reply: only one  *)
(* that finds the queue full is an error, and one that finds apk busy is   *)
(* answered pending.  Its command runs when the handler has ended, and is a*)
(* step of ApkQueue, not of the handler.                                   *)
Mutation(checked) ==
  Recipe({"apk"}, checked, 60, <<[Meta("queue") EXCEPT !.err = {0, 2}], Tried(Run("packages"))>>)
PackageHandlers ==
     "PackageList"       :> Recipe({"apk"}, FALSE, 2, <<Ask("packages")>>)
  @@ "PackageSearch"     :> Recipe({"apk"}, TRUE, 11, <<Ask("index"), Tried(Ask("packages"))>>)
  @@ "PackageInfo"       :> Recipe({"apk"}, TRUE, 2, <<Ask("packages")>>)
  @@ "PackageInstall"    :> Mutation(TRUE)
  @@ "PackageRemove"     :> Mutation(TRUE)
  @@ "PackageUpdate"     :> Mutation(FALSE)
  @@ "PackageUpgrade"    :> Mutation(FALSE)
  @@ "PackageOpQuery"    :> Recipe({}, TRUE, 0, <<Read("queue")>>)
  @@ "PackageCacheClean" :> Recipe({"apk"}, FALSE, 12, <<Run("cache")>>)

(* Stopping dhcp never fails: by the pid file, which is then removed, or   *)
(* else by what ps finds, which may be something even if it fails.         *)
DhcpHandlers ==
     "DhcpStart" :> Recipe({}, TRUE, 6, <<Run("dhcp")>>)
  @@ "DhcpStop"  :> Recipe({}, TRUE, 2,
                           <<[Read("pidfile") EXCEPT !.err = {3}], Tried(Run("dhcp")),
                             [Meta("pidfile") EXCEPT !.ok = 3, !.err = {3}],
                             [Ask("processes") EXCEPT !.err = {1, 2}], Fresh(Tried(Run("dhcp")))>>)

(* Refused if no such binary exists, too.  Whatever the command answers, it*)
(* is reported as scheduled.                                               *)
PowerHandlers ==
     "Reboot"   :> Recipe({"reboot"}, TRUE, 1, <<Tried(Run("power"))>>)
  @@ "Shutdown" :> Recipe({"poweroff"}, TRUE, 1, <<Tried(Run("power"))>>)

(* Two places for getent, then the file; a hash that does not match ends   *)
(* it; two places for id.  The commands have no context, and every failure *)
(* is an OK answer that says not valid.                                    *)
LoginHandlers ==
  "LoginVerify" :> Recipe({}, TRUE, 0, <<Or(Ask("passwords"), 2), Or(Ask("passwords"), 1),
                                         [Read("passwords") EXCEPT !.err = {4}],
                                         [Meta("hash") EXCEPT !.err = {3}],
                                         Or(Ask("groups"), 1), Tried(Ask("groups"))>>)

UserHandlers ==
     "UserCreate"    :> Recipe({"adduser"}, TRUE, 2, <<Run("users")>>)
  @@ "PasswordReset" :> Recipe({"passwd"}, TRUE, 2, <<Run("passwords")>>)
  @@ "UserDelete"    :> Recipe({"deluser"}, TRUE, 2, <<Run("users")>>)
RepoHandlers ==
     "ApkRepoRead"  :> Recipe({}, FALSE, 0, <<Read("/etc/apk/repositories")>>)
  @@ "ApkRepoWrite" :> Recipe({}, TRUE, 0, Write("/etc/apk/repositories"))
LockHandlers ==
     "UserLock"   :> Recipe({"passwd"}, TRUE, 2, <<Run("passwords")>>)
  @@ "UserUnlock" :> Recipe({"passwd"}, TRUE, 2, <<Run("passwords")>>)

(* crontab -l that fails with output, as it does without a crontab, is OK. *)
ConfigHandlers ==
     "SshConfigRead"  :> Recipe({}, FALSE, 0, <<Read("sshd_config")>>)
  @@ "SshConfigWrite" :> Recipe({}, TRUE, 0, Write("sshd_config"))
  @@ "CronRead"       :> Recipe({}, FALSE, 1, <<[Ask("crontab") EXCEPT !.err = {0, 1}]>>)
  @@ "CronWrite"      :> Recipe({}, TRUE, 1, <<Run("crontab")>>)
  @@ "ProcessKill"    :> Recipe({}, TRUE, 1, <<Run("processes")>>)

(* The first log that can be read, or none.                                *)
FirstLog    == <<Or(Read("log1"), 2), Or(Read("log2"), 1), Tried(Read("log3"))>>
LogHandlers == "LogRead" :> Recipe({}, TRUE, 0, FirstLog)

MountHandlers ==
     "Mount"      :> Recipe({"mount"}, TRUE, 3, <<Run("mounts")>>)
  @@ "Unmount"    :> Recipe({"umount"}, TRUE, 3, <<Run("mounts")>>)
  @@ "KModLoad"   :> Recipe({"modprobe"}, TRUE, 3, <<Run("modules")>>)
  @@ "KModUnload" :> Recipe({"modprobe"}, TRUE, 3, <<Run("modules")>>)
NetHandlers ==
     "NetIfUp"    :> Recipe({"ip"}, TRUE, 2, <<Run("links")>>)
  @@ "NetIfDown"  :> Recipe({"ip"}, TRUE, 2, <<Run("links")>>)
  @@ "FstabRead"  :> Recipe({}, FALSE, 0, <<Read("/etc/fstab")>>)
  @@ "FstabWrite" :> Recipe({}, TRUE, 0, Write("/etc/fstab"))

(* The zone in force first, its name after it; chronyd, or else ntpd.      *)
TimeHandlers ==
     "TimezoneSet" :> Recipe({}, TRUE, 2, <<Run("localtime")>> \o Write("/etc/timezone"))
  @@ "NtpSet"      :> Recipe({}, TRUE, 3, <<Or(Meta("chronyd"), 1), Meta("ntpd"), Run("services")>>)
ServiceLogHandlers ==
  "ServiceLogRead" :> Recipe({}, TRUE, 2, FirstLog \o <<Tried(Ask("services"))>>)

(* usermod, or else chsh: it is chsh that has to be allowed.               *)
GroupHandlers ==
     "UserGroupAdd"    :> Recipe({}, TRUE, 2, <<Run("groups")>>)
  @@ "UserGroupRemove" :> Recipe({}, TRUE, 2, <<Run("groups")>>)
  @@ "ShellChange"     :> Recipe({"chsh"}, TRUE, 2, <<Or(Run("shells"), 1), Run("shells")>>)

LbuHandlers ==
     "LbuCommit"  :> Recipe({"lbu"}, FALSE, 6, <<Run("overlay")>>)
  @@ "LbuStatus"  :> Recipe({"lbu"}, FALSE, 2, <<Ask("overlay")>>)
  @@ "LbuList"    :> Recipe({"lbu"}, FALSE, 2, <<Ask("overlay")>>)
  @@ "LbuRestore" :> Recipe({"lbu"}, TRUE, 6, <<Run("overlay")>>)

(* No authorized_keys is read as an empty one.                             *)
SshKeyHandlers ==
     "SshKeysRead"  :> Recipe({}, TRUE, 0, <<Read("users"), [Read("authorized_keys") EXCEPT !.err = {0, 1}]>>)
  @@ "SshKeysWrite" :> Recipe({}, TRUE, 0, <<Read("users"), Meta(".ssh")>> \o Write("authorized_keys")
                                           \o <<Meta(".ssh"), Meta("authorized_keys")>>)
ClockHandlers == "ClockSet" :> Recipe({"date"}, TRUE, 1, <<Run("clock")>>)

Handlers == ServiceHandlers @@ SystemHandlers @@ PackageHandlers @@ DhcpHandlers
         @@ PowerHandlers @@ LoginHandlers @@ UserHandlers @@ RepoHandlers @@ LockHandlers
         @@ ConfigHandlers @@ LogHandlers @@ MountHandlers @@ NetHandlers @@ TimeHandlers
         @@ ServiceLogHandlers @@ GroupHandlers @@ LbuHandlers @@ SshKeyHandlers @@ ClockHandlers
================================================================================
