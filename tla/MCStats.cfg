SPECIFICATION Spec
CONSTANTS
    c1 = c1
    c2 = c2
    Torn = Torn
    Window = 3
    Jitter = 1
    WeekDays = 2
    StatDays = 3
    Clients <- TwoClients
    Earlier <- TwoEarlier
    Start = 2
    MaxSwaps = 1
    MaxNow = 6
    MaxDbFaults = 1
INVARIANTS
    TypeOK
    SumIsWindow
    ReportIsWindow
    DaysCounted
    AnswerComplete
SYMMETRY Alike
