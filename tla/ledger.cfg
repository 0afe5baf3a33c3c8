SPECIFICATION LedgerSpec
CONSTANTS
    NoAddress = NoAddress
    Address <- Users
    Precompile = {"pre"}
    Coinbase = "val"
    CreateAddr <- Created
    OtherAddr = "other"
    Initial <- Funded
    Tx <- Transactions
    ChainId = 1
    EnvGas = 8
    BaseFee = 1
    TxBase = 1
    TxCreate = 1
    CallBase = 1
    Deposit = {0, 1}
    Refunds = {0, 1}
    U64 = 1000
    U256 = 1000
    Request = {"r"}
    Calls <- Simulated
    MaxCalls = 1
    MaxRuns = 3
    Journaled = {"balance", "slot"}
    Unjournaled = {"nonce"}
    CellValue = {0, 1}
    MaxJournal = 2
    MaxDepth = 2
    Target = 4
    Denominator = 8
    MinBaseFee = 2
    MaxBaseFee = 40
    StartFee = 20
    ColdSload = 21
    SloadWarm = 1
    SstoreSet = 200
    SstoreReset = 29
    ClearRefund = 150
    Slot = {0, 1, 2}
    MeterLimit = 480
    MaxWrites = 5
    CpVertex = {"a", "b", "c"}
    CpParents <- ParentLists
    Plans <- Executions
    MaxCheckpoints = 3
    Nibble = {0, 1}
    TrieValue = {"v", "w"}
    MaxOps = 6
    InputLen = {0, 3, 4, 31, 32, 33, 192, 213, 223, 224, 255, 256}
    Count = {0, 1, 2}
    GasLimit = {0, 700, 50000, 200000}
    OperandLen <- OperandLens
    Operands <- OperandData
INVARIANTS
    SupplyConserved
    NoReplay
    CheckpointsAreLinked
    TrieIsFaithful
    PrecompilesAreExact
PROPERTIES
    CallsAreSettled
    RevertRestores
    GasIsFair
    RevertUndoesApply
CHECK_DEADLOCK FALSE
