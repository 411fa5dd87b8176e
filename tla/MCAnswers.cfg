SPECIFICATION ASpec
CONSTANTS
  u1 = u1
  u2 = u2
  u3 = u3
  w1 = w1
  w2 = w2
  Requests = {u1, u2, u3}
  Workers = {w1, w2}
  Callers = {u1, u2, u3, w1, w2}
  Prompt <- MCPrompt
  Setups <- MCSetups
  MaxAttempts = 2
  MaxFailures = 1
  MaxLosses = 1
  None = None
  Docs = {1, 2, 3}
  Variants <- MCVariants
  Identifiers = {"[1]", "[2]", "[3]"}
  NoReport = NoReport
  Discount <- MCDiscount
  Passages = {"p", "q", "r"}
  MaxGrade = 2
  MaxSample = 3
  RowQueries = {"q1", "q2"}
  RowVariants = {"v1", "v2"}
  Resamples = 2
INVARIANTS OTypeOK HitsAgree SpendCountedOnce DoneIsEvaluated AttemptsAreAccountedFor RankingIsSound AnswersAreSound MeasuresAreSound
PROPERTY EverySampleSettles
