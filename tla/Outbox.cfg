\* One notice on a live channel and one on a channel without a provider, a run
\* and a request, two attempts.
SPECIFICATION FairSpec
CONSTANTS
  Notice = {mail, chat}
  InApp = {}
  Live = {mail}
  Worker = {w1, w2}
  MaxAttempts = 2
  Batch = 1
  MaxMishaps = 1
  NoNotice = NoNotice
  NoWorker = NoWorker
INVARIANTS TypeOK ClaimsAreExclusive RetriesAreBounded SentMeansDelivered
PROPERTIES SettledForGood NobodyIsForgotten
