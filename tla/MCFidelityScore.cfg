SPECIFICATION ScoreSpec
CONSTANTS
  Sessions <- MCSessions
  PromptCount = 2
  Answers <- MCAnswers
  Distributions <- MCDistributions
  KldScores = {40, 100}
  MinFloor = 45
  Lengths = {1, 2, 3}
  Positions = {0}
  Perturbations = {"typo"}
  CtxMax = 2
  Overhead = 1
  Editable = {"prompts", "corpus", "model"}
  MaxMishaps = 2
INVARIANTS
  FloorEarned
  CompositeAccounted
  LikeForLike
