---------------------------- MODULE MCPeerNetPair ----------------------------
(***************************************************************************)
(* Two peers a and b on one connection, as in the tests that call a        *)
(* provider directly (peer_connect / peer_listen of tests/common).  b      *)
(* provides "add"; a provides nothing.  a calls "add" and sends it bytes   *)
(* that do not deserialize; b calls "show", which a does not know.  The    *)
(* service map may fail in each way incoming.rs handles.  Both owners may  *)
(* close their end.                                                        *)
(***************************************************************************)
EXTENDS PeerNet

MCPeers    == {"a", "b"}
MCRemote   == ("a" :> "b") @@ ("b" :> "a")
MCSids     == {"add", "show"}
MCServices == ("a" :> {}) @@ ("b" :> {"add"})
MCRelayRegs == {}
MCOps ==
    { [id |-> "call1", peer |-> "a", kind |-> "call", sid |-> "add", cid |-> "c1", pl |-> "Good"],
      [id |-> "send1", peer |-> "a", kind |-> "send", sid |-> "add", cid |-> "null_cid", pl |-> "Bad"],
      [id |-> "call2", peer |-> "b", kind |-> "call", sid |-> "show", cid |-> "c2", pl |-> "Good"] }
MCClosers  == {"a", "b"}
MCRegistryFaults == {"SpawnFail", "Downcast", "UnknownService"}
MCCorruptions == [p \in MCPeers |-> {}]

\* Corrupt input: a's stream may fail to decode (MCCorruptionsStream), or b
\* sends a an error frame that is no ConnectionError (MCCorruptionsGarbled).
\* The two calls alone, without service-map faults, keep these runs small.
MCCorruptionsStream  == ("a" :> {"StreamErr"}) @@ ("b" :> {})
MCCorruptionsGarbled == ("a" :> {"Garbled"}) @@ ("b" :> {})
MCOpsCalls == {o \in MCOps : o.kind = "call"}
MCNoFaults == {}
=============================================================================
