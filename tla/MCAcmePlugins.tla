---------------------------- MODULE MCAcmePlugins ----------------------------
(* Two API workers, a dns plugin and a standalone plugin on disk, one new  *)
(* dns plugin to add, and three updates: new data, a delete-then-set of    *)
(* the optional fields, and data that is not base64.                       *)
EXTENDS AcmePlugins, TLC

CONSTANTS c1, c2, p1, st

Dns(api, data, delay, disable) ==
    [ty |-> "dns", api |-> api, data |-> data,
     validation_delay |-> delay, disable |-> disable]

MCInitConfig ==
    (p1 :> Dns("cf", "d1", 30, None))
    @@ (st :> [ty |-> "standalone", api |-> None, data |-> None,
               validation_delay |-> None, disable |-> None])

MCNewPlugins == {Dns("ovh", "d2", None, None)}

Upd(api, data, delay, disable, delete) ==
    [api |-> api, data |-> data, validation_delay |-> delay,
     disable |-> disable, delete |-> delete]

MCUpdateReqs ==
    { Upd(None, "d3", None, None, {}),
      Upd(None, None, None, TRUE, {"validation_delay", "disable"}),
      Upd("ovh", BadData, None, None, {}) }
=============================================================================
