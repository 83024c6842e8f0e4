SPECIFICATION Spec
CONSTANTS
  w1 = w1
  w2 = w2
  Workers = {w1, w2}
  Scripts <- AllScripts
  Keys <- TwoKeys
  NumTrees = 2
  Faults = {"throws", "throws_after_effect", "invalid", "other_status"}
INVARIANT TypeOK
INVARIANT PushAppliesPrefix
INVARIANT OneReplyEach
INVARIANT TakenUntilAnswered
CHECK_DEADLOCK FALSE
