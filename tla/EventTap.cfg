SPECIFICATION Spec
CONSTANTS
  rightOption = rightOption
  leftOption = leftOption
  rightCommand = rightCommand
  f5 = f5
  option = option
  command = command
  plain = plain
  NoMask = plain
  Keys <- MCKeys
  MaskOf <- MCMaskOf
  Hotkeys = {rightOption, f5}
  MaxEvents = 4
  MayDisable = TRUE
INVARIANTS TypeOK FollowsTheKey
PROPERTY TapComesBack
