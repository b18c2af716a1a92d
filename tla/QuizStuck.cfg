\* One question that is graded by the model.
SPECIFICATION QuizSpec
CONSTANTS
  Quizzed = {z}
  AtOnce = {}
  Short = {s}
  Jobs = {j1, j2}
  MaxAttempts = 1
  MaxRows = 1
  NoQuiz = NoQuiz
  NoJob = NoJob
INVARIANT OpenAttemptsCanClose
CHECK_DEADLOCK FALSE
