\* The interlock opens and closes while the node runs.
CONSTANTS
    Tasks = {app1, app2}
    Links <- AllLinks
    EnabledLinks = {0, 1, 2}
    Wifi = 0
    Ble = 1
    Kiss = 2
    Parts <- TwoParts
    QueueDepth = 1
    Kinds <- SomeKinds
    Masks <- SomeMasks
    NoTask = NoTask
    NoPacket = NoPacket
    MaxSends = 1
    Notifications = {0, 2}
    CallsignInterval = 1
    InterlockLevels = {0, 1}
    MaxClock = 1
SPECIFICATION Spec
PROPERTIES
    NeverUnarmed
