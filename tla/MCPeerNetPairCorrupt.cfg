CONSTANTS
    Peers <- MCPeers
    Remote <- MCRemote
    Sids <- MCSids
    NullSid = "null_sid"
    NullCid = "null_cid"
    NoOp = "no_op"
    Services <- MCServices
    RelayRegs <- MCRelayRegs
    Ops <- MCOpsCalls
    Closers <- MCClosers
    RegistryFaults <- MCNoFaults
    Corruptions <- MCCorruptionsStream

SPECIFICATION FairSpec
INVARIANT TypeOK
INVARIANT CloseOnlyOnCorruption
PROPERTY CallsResolve
PROPERTY RemoteCallRefined
PROPERTY CorruptionCloses
