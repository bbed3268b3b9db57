\* Two exchanges over one socket, with room for one reply in a channel.
CONSTANTS
    Clients <- MCClients
    Xids <- MCXids
    ChannelSize = 1
    Zero = Zero
    Nil = Nil
    a = a
    b = b
    x1 = x1
    x2 = x2
SPECIFICATION FairSpec
INVARIANT FloodTypeOK
INVARIANT Subscribed
INVARIANT ReportsAcked
PROPERTY FloodEnds
CHECK_DEADLOCK FALSE
