\* two kinds of one lane, two workers, two reapers; a job may run while another waits
SPECIFICATION Spec
CONSTANTS
 Kinds = {calc, kma}
 Workers = {w1, w2}
 Reapers = {r1, r2}
 LaneKinds <- MCOneLane
 Prompt = {}
 MaxAttempts = 2
 MaxJobs = 2
 NoWorker = NoWorker
 NoKind = NoKind
SYMMETRY MCSymmetry
INVARIANTS TypeOK OneQueuedPerKind OneRunningPerKind
PROPERTIES ResultOfCurrentAttempt TerminalIsFinal BeatingJobIsKept ImplementsKindQueue
