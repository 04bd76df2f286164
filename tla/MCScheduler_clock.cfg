SPECIFICATION FairSpec
CONSTANTS
    daily = daily
    once = once
    every = every
    start = start
    ping = ping
    pong = pong
    hook = hook
    Hand = Hand
    Nobody = Nobody
    TaskList <- MCClockTasks
    Trigger <- MCTrigger
    Ticks = {1, 2}
    ChainMax = 2
    MaxTime = 2
    MaxUses <- MCClockUses
PROPERTIES
    OnePerWindow
    AllServed
