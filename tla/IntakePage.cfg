SPECIFICATION Spec
CONSTANTS
  MaxFiles = 2
  MaxPick = 2
  MaxUploads = 3
  MaxPosts = 2
  MaxRemembered = 2
  Old = 3
  Remembered <- MCRemembered
  Legacy <- MCLegacy
INVARIANTS TypeOK UploadsLandWhole PickerKeepsTheList HomeShowsTheLatest
