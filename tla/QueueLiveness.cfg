\* one lane per worker; the long lane's executions need not end
SPECIFICATION FairSpec
CONSTANTS
 kma = kma
 walk = walk
 short = short
 long = long
 Kinds = {kma, walk}
 Workers = {short, long}
 Reapers = {r1}
 LaneKinds <- MCLanes
 Prompt = {kma}
 MaxAttempts = 2
 MaxJobs = 2
 NoWorker = NoWorker
 NoKind = NoKind
PROPERTIES PromptJobsEnd
