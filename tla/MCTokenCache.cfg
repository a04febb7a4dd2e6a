\* Both jobs and a third thread; a request takes up to half the slack.
SPECIFICATION Spec
CONSTANTS
    Threads = {profiles, groups, third}
    Lifetime = 4
    Slack = 2
    Delay = 1
    MaxTime = 9
SYMMETRY Symmetry
INVARIANTS
    TypeOK
    OverrunIsBounded
