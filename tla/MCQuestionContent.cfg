CONSTANTS
  t1 = t1
  t2 = t2
  t3 = t3
  Texts <- MCTexts
  ChoiceLists <- MCChoiceLists
  AnswerLists <- MCAnswerLists
  Letters = 2
  PlaceholderLabeling = ""
  MaxInserts = 2
  MaxBoots = 2
  ExtractMaxAttempts = 56
  WordBits = 64
  BaseBits <- Second
  CapShift = 3
SPECIFICATION Spec
CHECK_DEADLOCK FALSE
INVARIANTS TypeOK BackoffIsCapped TypeFollowsChoices MarkedIdsSurvive LabelsTellApart
PROPERTIES BootKeepsContent VerdictsKeepAnswers
