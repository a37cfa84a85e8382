\* Two applications, one message each, over Wi-Fi and BLE or over KISS and I2S
\* (which lm_air_pipeline_send() does not serve); queues of one packet.  The
\* first kind of message names the station in its second fragment, the second
\* may not go out over KISS and is too long for BLE.
CONSTANTS
    Tasks = {app1, app2}
    Links <- AllLinks
    EnabledLinks = {0, 1, 2}
    Wifi = 0
    Ble = 1
    Kiss = 2
    Parts <- TwoParts
    QueueDepth = 1
    Kinds <- SomeKinds
    Masks <- SomeMasks
    NoTask = NoTask
    NoPacket = NoPacket
    MaxSends = 2
    Notifications = {0, 2}
    CallsignInterval = 1
    InterlockLevels = {1}
    MaxClock = 1
SPECIFICATION LiveSpec
INVARIANTS
    MessagesStayTogether
    EveryPacketCounted
PROPERTIES
    ResultTellsTruth
    IdentifiedOnAir
    SendReturns
    Drains
