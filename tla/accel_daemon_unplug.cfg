SPECIFICATION FairSpec
CONSTANTS
    Daemon = {d1}
    NoPid = NoPid
    MaxRetries = 1
    MaxVersion = 1
    Env = {"unplug"}
PROPERTY UnplugIsNoticed
CHECK_DEADLOCK FALSE
