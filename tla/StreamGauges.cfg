SPECIFICATION Spec
CONSTANT
    Streams = {s1, s2, s3}
INVARIANTS
    PeakIsHighest
    AtRestNothingActive
