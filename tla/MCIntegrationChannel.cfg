SPECIFICATION Spec
CONSTANTS
    None = None
    Session = {s1, s2}
    Key = {k1, k2}
    Limits = {0, 1, 2}
    MaxAnswers = 3
INVARIANTS
    DispatchedTwiceNeedsOverlap
PROPERTIES
    AcceptsOnce
    EventsGetDispatched
