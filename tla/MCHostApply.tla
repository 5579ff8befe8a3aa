----------------------------- MODULE MCHostApply -----------------------------
(* Instances of HostApply for TLC: the trees of a host with two apps. *)
EXTENDS HostApply, TLC

(* A web server with a unit of its own, in two versions. *)
Web(v, on) ==
    [EmptyTree EXCEPT !.dirs["systemd"] = "web" :> v, !.enabled = on, !.files = {v}]

(* A resolver: a networkd file and a link in /etc, and perhaps a user. *)
Dns(source, users) ==
    [EmptyTree EXCEPT !.dirs["networkd"] = "eth" :> source,
                      !.dirs["sysusers"] = users,
                      !.symlinks = "/etc/dns" :> source]

NoUsers == NoEntries

(* Two apps that change together, which can be rolled back.                *)
V1 == (1 :> Web("v1", {"web"})) @@ (2 :> Dns("s1", NoUsers))
V2 == (1 :> Web("v2", {"web"})) @@ (2 :> Dns("s2", NoUsers))

(* The unit is there but no longer enabled, its app has a user, and the    *)
(* resolver is gone with its link in /etc.                                 *)
Off == 1 :> [Web("v1", {}) EXCEPT !.dirs["sysusers"] = "web" :> "uid"]

Changes == {V1, V2, Off}

(* Only the resolver changes from V1 to V3.                                *)
V3 == (1 :> Web("v1", {"web"})) @@ (2 :> Dns("s2", NoUsers))

(* An upgrade of the web server that also adds a user, so that it cannot   *)
(* be rolled back; V3 then takes the upgrade back and changes the resolver. *)
Reverts == {V1, V3, (1 :> Web("v2", {"web"})) @@ (2 :> Dns("s1", "dns" :> "uid"))}

(* The second app's manifest enables the first app's unit. *)
Cross(v) == (1 :> Web(v, {})) @@ (2 :> [EmptyTree EXCEPT !.enabled = {"web"}])

CrossEnable == {Cross("v1"), Cross("v2")}
=============================================================================
