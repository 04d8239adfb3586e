------------------------------ MODULE AcmePlugins ------------------------------
(***************************************************************************)
(* The ACME plugin configuration handlers of                               *)
(* proxmox-acme-api/src/plugin_api_impl.rs, run concurrently by API        *)
(* worker threads against one configuration file.                         *)
(*                                                                         *)
(* list_plugins and get_plugin read the file (plugin_config) without the   *)
(* lock and hand out its digest. add_plugin, update_plugin and             *)
(* delete_plugin check their arguments, take the plugin configuration      *)
(* lock, read the file, check it, change the in-memory copy and save it    *)
(* (save_plugin_config), dropping the lock when they return. Saving        *)
(* replaces the file at once, so a reader sees the old or the new file.    *)
(* The digest is the SHA-256 of the file: two digests are equal exactly    *)
(* when the configurations are.                                            *)
(*                                                                         *)
(* Every `?` in a handler is an error return: the lock (lock timeout or    *)
(* I/O error), reading the file, and saving it may each fail.              *)
(***************************************************************************)
EXTENDS Naturals

CONSTANTS
    Clients,        \* API callers (worker threads serving requests)
    Ids,            \* plugin ids
    Absent,         \* a model value: no plugin with this id
    None,           \* a model value: Option::None
    InitConfig,     \* the configuration on disk at start
    NewPlugins,     \* entries add_plugin may be asked to create
    UpdateReqs,     \* DnsPluginCoreUpdater values update_plugin may receive
    BadData,        \* a data argument that is not base64 of UTF-8
    AddTypes,       \* plugin types a caller may pass to add_plugin
    MaxCalls        \* handler calls in a behaviour

ASSUME MaxCalls \in Nat

VARIABLES
    config,         \* the plugin configuration file
    lock,           \* the caller holding the plugin configuration lock
    pc,             \* where caller c's handler is
    req,            \* req[c]: the change request c's handler is serving
    plugins,        \* plugins[c]: the handler's in-memory configuration
    digestOf,       \* digestOf[c]: the digest c received from its last read
    calls           \* handler calls so far

vars == <<config, lock, pc, req, plugins, digestOf, calls>>

\* The request a caller is waiting on, as the API promises it.
Pending == [c \in Clients |-> IF pc[c] = "idle" THEN None ELSE req[c]]

Store == INSTANCE AcmePluginStore
            WITH store <- config, seen <- digestOf, pending <- Pending

TypeOK ==
    /\ DOMAIN config = Ids
    /\ lock \in Clients \cup {None}
    /\ pc \in [Clients -> {"idle", "lock", "read", "save"}]
    /\ req \in [Clients -> Store!Requests \cup {None}]
    /\ \A c \in Clients : (pc[c] = "save") = (plugins[c] # None)
    /\ calls \in 0..MaxCalls

Return_keepsCopy(c) ==
    /\ pc' = [pc EXCEPT ![c] = "idle"]
    /\ req' = [req EXCEPT ![c] = None]
    /\ UNCHANGED plugins
    /\ lock' = IF lock = c THEN None ELSE lock

\* A handler that returns: its lock guard is dropped with it.
Return(c) ==
    /\ pc' = [pc EXCEPT ![c] = "idle"]
    /\ req' = [req EXCEPT ![c] = None]
    /\ plugins' = [plugins EXCEPT ![c] = None]
    /\ lock' = IF lock = c THEN None ELSE lock

Init ==
    /\ config = InitConfig
    /\ lock = None
    /\ pc = [c \in Clients |-> "idle"]
    /\ req = [c \in Clients |-> None]
    /\ plugins = [c \in Clients |-> None]
    /\ digestOf = [c \in Clients |-> None]
    /\ calls = 0

Call(c) ==
    /\ pc[c] = "idle"
    /\ calls < MaxCalls
    /\ calls' = calls + 1

\* list_plugins / get_plugin: plugin_config() and the digest into rpcenv,
\* whether or not the plugin exists.
ReadPlugins(c) ==
    /\ Call(c)
    /\ digestOf' = [digestOf EXCEPT ![c] = config]
    /\ UNCHANGED <<config, lock, pc, req, plugins>>

\* add_plugin: the type and the data are checked before the lock.
add_plugin(c, ty, id, e, data) ==
    /\ Call(c)
    /\ IF ty = "dns" /\ data # BadData
         THEN /\ pc' = [pc EXCEPT ![c] = "lock"]
              /\ req' = [req EXCEPT ![c] = [op |-> "add", id |-> id, entry |-> e]]
         ELSE UNCHANGED <<pc, req>>
    /\ UNCHANGED <<config, lock, plugins, digestOf>>

\* update_plugin: the data is decoded before the lock; the digest the
\* caller passes is the one of its last read, none, or not hex.
update_plugin(c, id, upd, digest) ==
    /\ Call(c)
    /\ digest = "seen" => digestOf[c] # None
    /\ IF upd.data # BadData
         THEN /\ pc' = [pc EXCEPT ![c] = "lock"]
              /\ req' = [req EXCEPT ![c] = [op |-> "update", id |-> id,
                                            upd |-> upd, digest |-> digest]]
         ELSE UNCHANGED <<pc, req>>
    /\ UNCHANGED <<config, lock, plugins, digestOf>>

delete_plugin(c, id) ==
    /\ Call(c)
    /\ pc' = [pc EXCEPT ![c] = "lock"]
    /\ req' = [req EXCEPT ![c] = [op |-> "delete", id |-> id]]
    /\ UNCHANGED <<config, lock, plugins, digestOf>>

LockTaken_unguarded(c) ==
    /\ pc[c] = "lock"
    /\ lock' = c
    /\ pc' = [pc EXCEPT ![c] = "read"]
    /\ UNCHANGED <<config, req, plugins, digestOf, calls>>

\* lock_plugin_config(): blocks while another handler holds the lock.
LockTaken(c) ==
    /\ pc[c] = "lock"
    /\ lock = None
    /\ lock' = c
    /\ pc' = [pc EXCEPT ![c] = "read"]
    /\ UNCHANGED <<config, req, plugins, digestOf, calls>>

LockFailed(c) ==
    /\ pc[c] = "lock"
    /\ Return(c)
    /\ UNCHANGED <<config, digestOf, calls>>

\* The checks a handler makes on the configuration it read, in order: an
\* existing id for add_plugin; for update_plugin the digest (from_hex,
\* then equality), the id and the plugin type; the id for delete_plugin.
Refused(c, r, cfg) ==
    CASE r.op = "add"    -> cfg[r.id] # Absent
      [] r.op = "update" -> \/ r.digest = "badhex"
                            \/ r.digest = "seen" /\ digestOf[c] # cfg
                            \/ cfg[r.id] = Absent
                            \/ cfg[r.id].ty # "dns"
      [] r.op = "delete" -> cfg[r.id] = Absent

\* plugins.insert / the updated entry / plugins.remove on the copy.
Modified(r, cfg) ==
    CASE r.op = "add"    -> [cfg EXCEPT ![r.id] = r.entry]
      [] r.op = "update" -> [cfg EXCEPT ![r.id] = Store!Updated(@, r.upd)]
      [] r.op = "delete" -> [cfg EXCEPT ![r.id] = Absent]

\* plugin_config() under the lock, the checks and the change in memory.
ReadConfig(c) ==
    /\ pc[c] = "read"
    /\ IF Refused(c, req[c], config)
         THEN Return(c)
         ELSE /\ plugins' = [plugins EXCEPT ![c] = Modified(req[c], config)]
              /\ pc' = [pc EXCEPT ![c] = "save"]
              /\ UNCHANGED <<lock, req>>
    /\ UNCHANGED <<config, digestOf, calls>>

\* plugin_config() fails: the handler returns the error.
ReadFailed(c) ==
    /\ pc[c] = "read"
    /\ Return(c)
    /\ UNCHANGED <<config, digestOf, calls>>

\* save_plugin_config(&plugins), then the handler returns.
Save(c) ==
    /\ pc[c] = "save"
    /\ config' = plugins[c]
    /\ Return(c)
    /\ UNCHANGED <<digestOf, calls>>

SaveFailed(c) ==
    /\ pc[c] = "save"
    /\ Return(c)
    /\ UNCHANGED <<config, digestOf, calls>>

Next ==
    \E c \in Clients :
        \/ ReadPlugins(c)
        \/ \E ty \in AddTypes, id \in Ids, e \in NewPlugins :
              \E d \in {e.data, BadData} : add_plugin(c, ty, id, e, d)
        \/ \E id \in Ids, upd \in UpdateReqs, dg \in Store!DigestArgs :
              update_plugin(c, id, upd, dg)
        \/ \E id \in Ids : delete_plugin(c, id)
        \/ LockTaken(c) \/ LockFailed(c)
        \/ ReadConfig(c) \/ ReadFailed(c)
        \/ Save(c) \/ SaveFailed(c)

Spec == Init /\ [][Next]_vars

(***************************************************************************)
(* Properties                                                              *)
(***************************************************************************)

\* Concurrent handlers behave as if every call took effect at one instant:
\* a save never overwrites a change made after the handler read the file
\* (the lock held from plugin_config() to save_plugin_config()), and an
\* update carrying the digest of its caller's get_plugin is applied only
\* to the configuration that get_plugin returned.
StoreRefined == Store!ASpec
=============================================================================
