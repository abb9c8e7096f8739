--------------------------------- MODULE Routes ---------------------------------
(***************************************************************************)
(* The routes of src/cmd/webadmin/main.go, as far as they lead to the root *)
(* helper or write files of their own: the method a request must have,     *)
(* whether its body, path or query may be refused before anything is sent  *)
(* (parsed), and the type of the message that is forwarded, with the       *)
(* deadline of the call in ticks of 5 s.  A route of the type "local" is   *)
(* served by webadmin itself, in steps like those of Recipes.              *)
(***************************************************************************)
EXTENDS Recipes

Route(method, type, parsed) ==
  [method |-> method, type |-> type, parsed |-> parsed, wait |-> 1, steps |-> <<>>]
Get(type)       == Route("GET", type, FALSE)
Post(type)      == Route("POST", type, TRUE)
PostEmpty(type) == Route("POST", type, FALSE)
Slow(r)         == [r EXCEPT !.wait = 12]
Local(method, parsed, steps) ==
  [method |-> method, type |-> "local", parsed |-> parsed, wait |-> 0, steps |-> steps]

-----------------------------------------------------------------------------
(* Only the call of the login handler: what it makes of it is in Login.    *)
LoginRoute == "login" :> Post("LoginVerify")

(* The path names the service, and its last part the action or the log.    *)
ServiceRoutes ==
     "services"        :> Get("ServiceList")
  @@ "service"         :> Get("ServiceStatus")
  @@ "service/log"     :> Get("ServiceLogRead")
  @@ "service/control" :> PostEmpty("ServiceControl")
  @@ "service/status"  :> PostEmpty("ServiceControlStatus")
SwitchRoutes ==
     "services/enable"  :> Post("ServiceEnable")
  @@ "services/disable" :> Post("ServiceDisable")

(* The GETs of the timezone and of ntp are answered by webadmin itself.    *)
SystemRoutes ==
     "system"          :> Get("SystemInfo")
  @@ "system/hostname" :> Post("HostnameSet")
  @@ "timezone"        :> Local("GET", FALSE, <<Tried(Read("/etc/timezone"))>>)
  @@ "timezone/set"    :> Post("TimezoneSet")
  @@ "ntp"             :> Local("GET", FALSE, <<Or(Ask("services"), 1), Tried(Ask("services"))>>)
  @@ "ntp/set"         :> Post("NtpSet")
ClockRoute == "system/clock" :> Post("ClockSet")

PackageRoutes ==
     "packages"         :> Slow(Get("PackageList"))
  @@ "packages/search"  :> Slow(Get("PackageSearch"))
  @@ "packages/info"    :> Get("PackageInfo")
  @@ "packages/install" :> Post("PackageInstall")
  @@ "packages/remove"  :> Post("PackageRemove")
  @@ "packages/update"  :> PostEmpty("PackageUpdate")
  @@ "packages/upgrade" :> PostEmpty("PackageUpgrade")
  @@ "packages/op"      :> Get("PackageOpQuery")
CacheRoute == "packages/cache-clean" :> PostEmpty("PackageCacheClean")

NetworkRoutes == "network/up" :> Post("NetIfUp") @@ "network/down" :> Post("NetIfDown")
DhcpRoutes    == "dhcp/start" :> Post("DhcpStart") @@ "dhcp/stop" :> Post("DhcpStop")
FstabRoutes   == "fstab" :> Get("FstabRead") @@ "fstab/write" :> Post("FstabWrite")

UserListRoutes ==
     "users"        :> Local("GET", FALSE, <<Ask("users")>>)
  @@ "users/create" :> Post("UserCreate")

(* "groups/" is never the action of a path split at its slashes, so that   *)
(* no request is forwarded as a UserGroupRemove.                           *)
UserRoutes ==
     "user/password" :> PostEmpty("PasswordReset")
  @@ "user/delete"   :> PostEmpty("UserDelete")
  @@ "user/lock"     :> PostEmpty("UserLock")
  @@ "user/unlock"   :> PostEmpty("UserUnlock")
  @@ "user/groups"   :> Local("GET", FALSE, <<Ask("groups")>>)
  @@ "user/group"    :> Post("UserGroupAdd")
  @@ "user/shell"    :> Post("ShellChange")
  @@ "user/ssh-keys" :> Get("SshKeysRead")
  @@ "user/ssh-keys/write" :> Post("SshKeysWrite")

LbuRoutes ==
     "lbu/commit"  :> PostEmpty("LbuCommit")
  @@ "lbu/status"  :> Get("LbuStatus")
  @@ "lbu/list"    :> Get("LbuList")
  @@ "lbu/restore" :> Post("LbuRestore")
  @@ "mount"       :> Post("Mount")
  @@ "unmount"     :> Post("Unmount")

FileRoutes ==
     "kmod/load"    :> Post("KModLoad")
  @@ "kmod/unload"  :> Post("KModUnload")
  @@ "repositories" :> Get("ApkRepoRead")
  @@ "repositories/write" :> Post("ApkRepoWrite")
  @@ "ssh/config"   :> Get("SshConfigRead")
  @@ "ssh/config/write" :> Post("SshConfigWrite")
  @@ "cron"         :> Get("CronRead")
  @@ "cron/write"   :> Post("CronWrite")
ProcessRoute == "processes/kill" :> Post("ProcessKill")
PowerRoutes  == "reboot" :> PostEmpty("Reboot") @@ "shutdown" :> PostEmpty("Shutdown")

(* webadmin writes resolv.conf and its own configuration itself.           *)
ResolvRoutes == "resolv" :> Local("GET", FALSE, <<Read("/etc/resolv.conf")>>)
             @@ "resolv/write" :> Local("POST", TRUE, Write("/etc/resolv.conf"))
ConfigRoutes == "config/export" :> Local("GET", FALSE, <<Read("config.json")>>)
             @@ "config/import" :> Local("POST", TRUE, Write("config.json"))

Routes == LoginRoute @@ ServiceRoutes @@ SwitchRoutes @@ SystemRoutes @@ ClockRoute @@ PackageRoutes
       @@ CacheRoute @@ NetworkRoutes @@ DhcpRoutes @@ FstabRoutes @@ UserListRoutes
       @@ UserRoutes @@ LbuRoutes @@ FileRoutes @@ ProcessRoute @@ PowerRoutes
       @@ ResolvRoutes @@ ConfigRoutes
================================================================================
