SPECIFICATION FairSpec
CONSTANT MaxTick = 4
INVARIANTS AllOrNothing StartsAfresh SilenceIsBounded
PROPERTY DeadTunnelIsClosed
