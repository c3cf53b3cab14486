SPECIFICATION FairSpec
CONSTANTS
  r1 = r1
  r2 = r2
  v1 = v1
  v2 = v2
  Runs = {r1, r2}
  Reviewers = {v1, v2}
  Outcomes = {"block", "escalate", "recommend"}
  NewOutcomes = {"escalate"}
INVARIANTS
  OneReceiptPerItem
  LessonsComeFromOverrides
PROPERTIES
  QueueDrains
