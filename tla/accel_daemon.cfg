\* Two daemon processes in the full environment; nothing is fair.
SPECIFICATION Spec
CONSTANTS
    Daemon = {d1, d2}
    NoPid = NoPid
    MaxRetries = 1
    MaxVersion = 2
    Env = {"unplug", "crash", "term", "deny", "bare"}
INVARIANTS
    TypeOK
    OnDuty
    NamedCanBeSignalled
SYMMETRY Symmetry
CHECK_DEADLOCK FALSE
