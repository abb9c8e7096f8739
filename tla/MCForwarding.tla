----------------------------- MODULE MCForwarding -----------------------------
(***************************************************************************)
(* Every route by itself, and pairs of routes that meet on a part of the   *)
(* machine: two settings of two parts, a command and a file; two writers   *)
(* of a file; a writer and a reader, in one process or in two; a command   *)
(* and one that undoes it.                                                 *)
(***************************************************************************)
EXTENDS Forwarding

MCCalls   == {"c1", "c2"}
Menu(a, b) == "c1" :> a @@ "c2" :> b
Alone     == {Menu(r, None) : r \in DOMAIN Routes}
Pairs     == {<<"system/hostname", "system/hostname">>, <<"timezone/set", "timezone">>,
              <<"dhcp/start", "dhcp/stop">>,
              <<"user/ssh-keys/write", "user/ssh-keys">>,
              <<"fstab/write", "fstab/write">>, <<"fstab/write", "fstab">>,
              <<"config/import", "config/export">>, <<"config/import", "config/import">>}
MCMenus   == Alone \cup {Menu(p[1], p[2]) : p \in Pairs}
MCHelpers == UNION {Handlers[t].helpers : t \in DOMAIN Handlers}
MCAllowed == MCHelpers \ {"poweroff"}
MCSize    == "c1" :> 2 @@ "c2" :> 1
================================================================================
