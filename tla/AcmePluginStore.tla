--------------------------- MODULE AcmePluginStore ---------------------------
(***************************************************************************)
(* What the ACME plugin configuration API (AcmeApiConfig::list_plugins,    *)
(* get_plugin, add_plugin, update_plugin, delete_plugin) promises when     *)
(* every call takes effect at one instant: the plugin configuration is a   *)
(* map from plugin ids to entries; a read hands the caller the digest of   *)
(* the configuration it saw; a change request either fails and changes     *)
(* nothing, or is applied at once to the configuration of that instant,   *)
(* and an update that carries the digest of the caller's read applies only *)
(* to the very configuration that read saw.                                *)
(***************************************************************************)
EXTENDS Naturals

CONSTANTS
    Clients,        \* API callers
    Ids,            \* plugin ids
    Absent,         \* a model value: no plugin with this id
    None,           \* a model value: Option::None
    InitConfig,     \* the configuration on disk at start
    NewPlugins,     \* entries add_plugin may be asked to create
    UpdateReqs      \* DnsPluginCoreUpdater values update_plugin may receive

VARIABLES
    store,          \* the plugin configuration
    seen,           \* seen[c]: the configuration c last read (its digest)
    pending         \* pending[c]: the change request c is waiting on

svars == <<store, seen, pending>>

\* The digest an update carries: none, the one of the caller's last read,
\* or a string that is not 64 hex digits.
DigestArgs == {"none", "seen", "badhex"}

Requests ==
    [op : {"add"}, id : Ids, entry : NewPlugins]
    \cup [op : {"update"}, id : Ids, upd : UpdateReqs, digest : DigestArgs]
    \cup [op : {"delete"}, id : Ids]

(***************************************************************************)
(* An entry is a DnsPlugin (ty "dns") or a plugin of another type the API  *)
(* cannot edit; a dns entry's optional fields hold None when unset. An     *)
(* update sets the fields DnsPluginCoreUpdater carries (None: leave), after *)
(* deleting the properties it names.                                       *)
(***************************************************************************)
Updated(e, upd) ==
    LET Kept(f) == IF f \in upd.delete THEN None ELSE e[f]
    IN [e EXCEPT !.data = IF upd.data # None THEN upd.data ELSE @,
                 !.api = IF upd.api # None THEN upd.api ELSE @,
                 !.validation_delay = IF upd.validation_delay # None
                                        THEN upd.validation_delay
                                        ELSE Kept("validation_delay"),
                 !.disable = IF upd.disable # None THEN upd.disable
                                                   ELSE Kept("disable")]

\* The configuration request r leaves when it succeeds on cfg.
Applied(r, cfg) ==
    CASE r.op = "add"    -> [cfg EXCEPT ![r.id] = r.entry]
      [] r.op = "update" -> [cfg EXCEPT ![r.id] = Updated(@, r.upd)]
      [] r.op = "delete" -> [cfg EXCEPT ![r.id] = Absent]

\* When request r of caller c may succeed on the current configuration.
Allowed(c, r) ==
    CASE r.op = "add"    -> store[r.id] = Absent
      [] r.op = "update" -> /\ r.digest # "badhex"
                            /\ r.digest = "seen" => seen[c] = store
                            /\ store[r.id] # Absent
                            /\ store[r.id].ty = "dns"
      [] r.op = "delete" -> store[r.id] # Absent

AInit ==
    /\ store = InitConfig
    /\ seen = [c \in Clients |-> None]
    /\ pending = [c \in Clients |-> None]

\* list_plugins / get_plugin: the caller receives the digest.
ARead(c) ==
    /\ pending[c] = None
    /\ seen' = [seen EXCEPT ![c] = store]
    /\ UNCHANGED <<store, pending>>

AInvoke(c, r) ==
    /\ pending[c] = None
    /\ r.op = "update" /\ r.digest = "seen" => seen[c] # None
    /\ pending' = [pending EXCEPT ![c] = r]
    /\ UNCHANGED <<store, seen>>

ASucceed(c) ==
    /\ pending[c] # None
    /\ Allowed(c, pending[c])
    /\ store' = Applied(pending[c], store)
    /\ pending' = [pending EXCEPT ![c] = None]
    /\ UNCHANGED seen

AFail(c) ==
    /\ pending[c] # None
    /\ pending' = [pending EXCEPT ![c] = None]
    /\ UNCHANGED <<store, seen>>

ANext ==
    \E c \in Clients :
        \/ ARead(c)
        \/ \E r \in Requests : AInvoke(c, r)
        \/ ASucceed(c)
        \/ AFail(c)

ASpec == AInit /\ [][ANext]_svars
=============================================================================
