SPECIFICATION FairSpec
CONSTANTS
 Requests = 9
 Configure = 6
 Slow = {5}
 DetectTries = 5
 RemoveTries = 7
 Keys = {k1}
 Prompt = TRUE
INVARIANTS
 RequestsHeard
 CleanNeverHangs
 AnswerComplete
PROPERTIES
 ReportKept
 KeyReachesPort
 PolledOrHung
