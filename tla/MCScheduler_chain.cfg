SPECIFICATION FairSpec
CONSTANTS
    daily = daily
    once = once
    every = every
    start = start
    ping = ping
    pong = pong
    hook = hook
    Hand = Hand
    Nobody = Nobody
    TaskList <- MCChainTasks
    Trigger <- MCTrigger
    Ticks = {1}
    ChainMax = 2
    MaxTime = 2
    MaxUses <- MCChainUses
PROPERTIES
    AskedIsRun
    ChainEnds
