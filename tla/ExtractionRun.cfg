\* Two turns of two sessions, one key with two values, one or two slots, time enough for an
\* entry of the cooldown map to be evicted.
CONSTANTS
    Session = {s1, s2}
    Key = {k}
    Value = {v1, v2}
    Similar <- Same
    Limits = {1, 2}
    Interval = 1
    Window = 2
    Vectors = TRUE
    NoKey = NoKey
    Never = Never
    Deletable = {s1}
    MaxFacts = 1
    MaxTurns = 2
    MaxPoints = 2
    MaxReviews = 1
    MaxTime = 3
SPECIFICATION Spec
INVARIANTS TypeOK SlotsAreCounted RepeatsAreSkipped
PROPERTIES SlotsComeBack CooldownHolds KeysStayKnown
CHECK_DEADLOCK FALSE
