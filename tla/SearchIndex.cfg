\* Two writers for one document of two words, three versions and one killed writer.
SPECIFICATION FairSpec
CONSTANTS
  p1 = p1
  p2 = p2
  d1 = d1
  cat = cat
  dog = dog
  Writers <- TwoWriters
  Docs <- OneDoc
  Words <- TwoWords
  Texts <- ThreeTexts
  MaxRevision = 3
  MaxFailures = 1
INVARIANTS Findable FoundOnlyByItsWords
PROPERTY ReplacedVersionsGoAway
\* After the last version everybody may be idle.
CHECK_DEADLOCK FALSE
