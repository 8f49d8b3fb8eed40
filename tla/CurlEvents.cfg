SPECIFICATION EventsSpec
CONSTANTS
    Fds = {7, 8}
    Masks = {in, out}
    NoMask = none
    MaxFiles = 3
    MaxTimers = 3
INVARIANTS
    PollsFollowWants
    TimerFollowsWants
