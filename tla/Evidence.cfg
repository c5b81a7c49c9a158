SPECIFICATION EvidenceSpec
CONSTANTS
  Instances = {store1, store2}
  Cases = {"c1"}
  Streams = {"events"}
  MaxRequests = 5
  MaxCrashes = 1
  Modes = {"case", "call"}
  Lines <- PrintedLines
  MaxLines = 3
  MaxNotes = 1
  Jobs = {"grade", "conclude", "draft", "validate"}
  NumTasks = 2
  SecretSets <- SecretFamilies
  Bytes = {"a", "b", "w1", "w2"}
  MaxReceived = 6
  MaxCaptureBytes = 4
SYMMETRY Alike
INVARIANTS EvidenceTypeOK AcknowledgedIsReadable EvidenceIsOutput OutcomeIsHonest CallsAccounted StreamRedactsWhole
CHECK_DEADLOCK FALSE
