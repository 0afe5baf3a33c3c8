SPECIFICATION Spec
CONSTANTS
    NoAddress = NoAddress
    Address <- Users
    Precompile = {"pre"}
    Coinbase = "val"
    CreateAddr <- Created
    OtherAddr = "other"
    Initial <- Funded
    Tx <- Transactions
    ChainId = 1
    EnvGas = 8
    BaseFee = 1
    TxBase = 1
    TxCreate = 1
    CallBase = 1
    Deposit = {0, 1}
    Refunds = {0, 1}
    U64 = 1000
    U256 = 1000
    Request = {"r"}
    Calls <- Simulated
    MaxCalls = 1
    MaxRuns = 3
PROPERTY DryRunIsReadOnly
