SPECIFICATION Spec
CONSTANTS
  Height = 5
  Width = 6
  Linez = 12
  MaxGenerations = 24
  Strings = {"n", "m"}
  Texts <- SomeTexts
  Bytes = {{}, {0}, {0, 1, 2, 3, 4, 5, 6, 7}}
  Length = 2
  Errors = {{0}, {7}}
  Seed = 65535
INVARIANTS NoOverrun BlocksFoundInPlace VerdictIsRight PatternShown GliderTravels
  DecryptsWhatWasSent FailureLeavesData LowByteOfLastRemainder
  DifferencesShown
PROPERTIES GifreadEnds RulesOfLife
CHECK_DEADLOCK FALSE
