SPECIFICATION MCSpec
CONSTANTS
  est_Frames = {"root", "ghost"}
  est_ModelFrames = {"root"}
  est_NFts = 2
  contact_SubModels = {"arm", "leg"}
  contact_Links = {"hand", "elbow", "foot"}
  contact_Mapped = {"hand", "foot"}
  contact_Frames = {"hand", "foot", "sole", "ghost"}
  contact_ModelFrames = {"hand", "foot", "sole"}
  contact_SubModelOf <- OfLink
  contact_Timeout = 2
  contact_MaxFrames = 3
  edit_Order <- SettingsOrder
  edit_Values = {0, 1}
  edit_MaxGroup = 2
  edit_MaxWire = 1
  call_Missing <- MCMissing
  base_Frames = {"root", "foot", "ghost"}
  base_ModelFrames = {"root", "foot"}
  base_MaxCommands = 2
  analog_Devices = {"arm", "leg"}
  analog_NamesOf <- MCNamesOf
  analog_AxesLists <- MCAxesLists
  analog_Measures = {1, 2}
  smooth_Period = 3
  smooth_Late = 2
  smooth_MaxCalibrations = 2
  smooth_Units <- MCUnits
  smooth_Offsets = {0, 1, 2}
  tree_Frames = {"l_foot", "r_foot", "root", "ghost"}
  tree_ModelFrames = {"l_foot", "r_foot", "root"}
  tree_MaxCommands = 2
  touch_Links <- Four
  touch_Configs <- FewTrees
  touch_MostTaxels = 2
  touch_MaxContacts = 2
  touch_Timeout = 1
INVARIANTS
  MeasuresAreRight EveryPartIsTouched BothSidesAgree LinksAreThoseAsked
PROPERTIES
  NothingInTheMiddle DevicesComplete
CHECK_DEADLOCK FALSE
