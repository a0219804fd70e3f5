SPECIFICATION Spec
CONSTANTS
  MaxMessages = 3
  MaxRounds = 1
  Kinds = {"mention", "plain", "other"}
  AtOnce = 2
  MaxDeaths = 1
INVARIANTS TypeOK EachMessageOnce ThreadInTurn
PROPERTIES DocumentStands MessagesAreMet
CHECK_DEADLOCK FALSE
