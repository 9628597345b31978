\* A handshake and three requests.  A session ends: no deadlock check.
CONSTANT N = 3
SPECIFICATION FairSpec
INVARIANTS AnswersInOrder OnlyEagerLinesLost
PROPERTIES PatientAnswered SessionEnds
CHECK_DEADLOCK FALSE
