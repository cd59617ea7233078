\* a kind with resume and one without; two workers, one of which may be a zombie; a command of the CLI
SPECIFICATION RSpec
CONSTANTS
 Kinds = {calc, post}
 Workers = {w1, w2}
 Reapers = {r1}
 LaneKinds <- MCOneLane
 Prompt = {}
 MaxAttempts = 2
 MaxJobs = 1
 NoWorker = NoWorker
 NoKind = NoKind
 Clis = {c1}
 CliKind = post
 MaxRuns = 3
 Resumers = {post}
SYMMETRY MCSymmetry
INVARIANTS RunTypeOK WaitingJobHasNoOpenRun DoneJobHasResult
PROPERTIES RunEndedByItsExecution
