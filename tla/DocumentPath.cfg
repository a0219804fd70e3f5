SPECIFICATION CardSpec
CONSTANTS
  s1 = s1
  s2 = s2
  lee = lee
  Words = {"a", "b", "label", "assigned"}
  Texts <- MCTexts
  Slots = {s1, s2}
  Assignees = {lee}
  Nobody = Nobody
  NoSlot = NoSlot
  NotPromoted = NotPromoted
  Question <- MCQuestion
  Outputs <- MCOutputs
  Edits <- MCEdits
  Instructions <- MCInstructions
  Answers <- MCAnswers
  MaxVersions = 3
  Drafts <- MCDrafts
  Label = "label"
  Assigned = "assigned"
INVARIANTS CardTypeOK
PROPERTIES PromotedIsListed NamedOnly WrittenStands EditReplacesWhatWasShown
