SPECIFICATION VerifierSpec
CONSTANTS
    k0 = k0
    k1 = k1
    k2 = k2
    k3 = k3
    outsider = outsider
    Guardians = 4
    Quorum = 3
    guardianSet <- MCGuardianSet
    Keys = {k0, k1, k2, k3, outsider}
    NoSigner = NoSigner
    Bodies <- MCBodies
    Signed <- MCSigned
    Vaas <- MCVaas
    NoVaa = NoVaa
    Wires <- MCWires
    SourceChain = "solana"
    RegisteredEmitter = "emitter"
    OurChain = "base"
    DemoEmitter = "emitter"
    DefaultGuardians = {0, 1, 2}
    Recorded <- MCRecorded
    Edits <- MCEdits
    HistoryWires <- MCHistoryWires
    MaxCertified = 2
    MaxHistory = 3
    Level3Reports <- MCLevel3Reports
    None = None
INVARIANTS
    QuorumSound
    ForgeryIsNoticed
PROPERTIES
    LabAgreesWithBase
    ScenariosAsAnnounced
    EvidenceIsAcceptable
CHECK_DEADLOCK FALSE
