SPECIFICATION Spec
CONSTANTS
    Accounts <- MCAccounts
    Txs <- MCTxs
    From <- MCFrom
    Nonce <- MCNonce
    Price <- MCPrice
    Cost <- MCCost
    Batches <- MCBatches
    Blocks <- MCBlocks
    Genesis = "g"
    Parent <- MCParent
    Height <- MCHeight
    BlockTxs <- MCBlockTxs
    GetNonce <- MCGetNonce
    GetBalance <- MCGetBalance
    PriceLimits = {1, 2}
    PriceBump = 10
    AccountSlots = 1
    GlobalSlots = 3
    AccountQueue = 1
    GlobalQueue = 2
    ReorgLimit = 1
    Callers = {"c", "d"}
    MaxCalls = 1
    MaxHeads = 2
INVARIANTS ErrorsInPlace
CHECK_DEADLOCK FALSE
