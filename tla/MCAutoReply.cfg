CONSTANTS
  first = first second = second
  writer = writer
  NoMessage = NoMessage
  Messages = {first, second}
  Senders = {writer}
  SenderOf <- MCSenderOf
  Services = {serve}
  Commands = {answer}
  LastTime = 2
  MaxFaults = 1
  MaxChanges = 1
  Asked <- MCAsked
SPECIFICATION Spec
SYMMETRY Alike
INVARIANTS TypeOK AnswerIsTold NoneIsOverlooked
CHECK_DEADLOCK FALSE
