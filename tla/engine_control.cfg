SPECIFICATION EngineFairSpec
CONSTANTS
    Daemon = {d1, d2, d3}
    NoPid = NoPid
    MaxRetries = 1
    MaxVersion = 5
    Env = {"unplug", "crash", "deny"}
    Outside = {"cli"}
INVARIANTS
    NoLostReload
    ServingIsNamed
    ServesWhatIsStored
PROPERTIES
    DaemonSpec
    OffReleases
    StopCompletes
    ReloadCompletes
    VanishedIsReleased
CHECK_DEADLOCK FALSE
