CONSTANTS
  Assets <- MCAssets
  MatrixSide = 2
  MaxSaves = 2
  NewValues = {8}
  MaxSets = 2
SPECIFICATION Spec
INVARIANTS TypeOK FitsBuffer SavedAgainIsSame HashesAgree HostReadsWhatWasSet
