SPECIFICATION FairSpec
CONSTANTS
  Clients = {c1, c2}
  MaxVersions = 2
  SerialRetries = TRUE
  MaxRetries = 2
  MaxRequests = 2
  MaxFaults = 2
INVARIANTS OneAnswerEach AnswersArePinned NewEvidenceIsAnnounced ResultMatchesMessage
PROPERTIES EveryRunSettles EveryQuestionSettles
CHECK_DEADLOCK FALSE
