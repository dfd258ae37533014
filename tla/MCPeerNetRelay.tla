--------------------------- MODULE MCPeerNetRelay ---------------------------
(***************************************************************************)
(* The one-hop relay of tests/relay.rs (relay_once): a consumer peer pc    *)
(* connected to the relay process, whose peer pi relays the service "add"  *)
(* through its peer po to the provider peer pp that runs the service.     *)
(*                                                                         *)
(*    consumer            relay process              provider              *)
(*      pc  <=========>  pi  --(actor msgs)-->  po  <=========>  pp        *)
(*                                                                         *)
(* The consumer makes one call and one send of "add"; the consumer and the *)
(* provider may be closed by their owners at any moment, which is how the  *)
(* relay connection gets lost mid-call.                                    *)
(***************************************************************************)
EXTENDS PeerNet

MCPeers   == {"pc", "pi", "po", "pp"}
MCRemote  == ("pc" :> "pi") @@ ("pi" :> "pc") @@ ("po" :> "pp") @@ ("pp" :> "po")
MCSids    == {"add"}
MCServices == ("pc" :> {}) @@ ("pi" :> {}) @@ ("po" :> {}) @@ ("pp" :> {"add"})
MCRelayRegs == {[id |-> "reg1", peer |-> "pi", target |-> "po", sids |-> {"add"}]}
MCOps ==
    { [id |-> "call1", peer |-> "pc", kind |-> "call", sid |-> "add", cid |-> "c1", pl |-> "Good"],
      [id |-> "send1", peer |-> "pc", kind |-> "send", sid |-> "add", cid |-> "null_cid", pl |-> "Good"] }
MCClosers == {"pc", "pi", "pp"}
\* Only the provider's owner closes: the relay connection po-pp goes away
\* while pi still relays to po.
MCClosersProvider == {"pp"}
MCRegistryFaults == {}
MCCorruptions == [p \in MCPeers |-> {}]

\* The relay's connection to the provider delivers a garbled error frame
\* to po.
MCCorruptionsGarbledTwo == [p \in MCPeers |-> IF p \in {"pc", "po"} THEN {"Garbled"} ELSE {}]
\* As above, and closing a sink of the relay process (pi's, po's) may fail
\* once the consumer or the provider has gone.
MCCorruptionsGarbledSink ==
    [p \in MCPeers |-> CASE p = "pc" -> {"Garbled"}
                          [] p = "pi" -> {"SinkErr"}
                          [] p = "po" -> {"Garbled", "SinkErr"}
                          [] OTHER    -> {}]
MCCorruptionsGarbled == [p \in MCPeers |-> IF p = "po" THEN {"Garbled"} ELSE {}]
=============================================================================
