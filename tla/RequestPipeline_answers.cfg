SPECIFICATION FairSpec
CONSTANTS
  Reqs = {r1, r2}
  Emails = {e1}
INVARIANTS TypeOK IInv KnownCodes OwnErrorsKept AnswerTruthful
PROPERTIES HandlerAnswered AnswerFinal
