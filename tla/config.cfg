CONSTANTS
  Names <- SmallNames
  Sections <- SmallSections
  FormValues <- SmallValues
  Texts <- SmallTexts
  MaxLines = 7
  MaxPieces = 2
  r1 = r1
  r2 = r2
  Requests <- TwoRequests
  Cams <- OneCam
  Passwords <- OnePassword
  Mangled <- Same
  Mounts <- AllMounts
  MaxRequests = 2
  MaxFaults = 1
  Sends <- TwoForms
  Leaves <- TwoLeaves
  MaxTicks = 3
SPECIFICATION ConfigSpec
INVARIANTS FileSound ConfirmedHeld
PROPERTIES EditsData ClaimedOnce OnlyItsOwn
SYMMETRY RequestsAlike
CHECK_DEADLOCK FALSE
