CONSTANTS
    Peers <- MCPeers
    Remote <- MCRemote
    Sids <- MCSids
    NullSid = "null_sid"
    NullCid = "null_cid"
    NoOp = "no_op"
    Services <- MCServices
    RelayRegs <- MCRelayRegs
    Ops <- MCOps
    Closers <- MCClosersProvider
    RegistryFaults <- MCRegistryFaults
    Corruptions <- MCCorruptions

SPECIFICATION FairSpec
PROPERTY RelayedSendNotDropped
