SPECIFICATION FairSpec
CONSTANTS
    Markers = {m1}
    Knx = {k1}
    Ios = {i1}
    Things = {a, b}
    NoThing = NoThing
    Unknown = Unknown
    Polls = {interval, asked}
    Scheduled = interval
    Cases <- PollCases
INVARIANT NoInheritedReading
PROPERTY PollKeepsPushes
PROPERTY ShownSettles
