SPECIFICATION PromptSpec
CONSTANTS
  Width = 8
  Typed <- MCTyped
  Short <- MCShort
  Conf = "CONF"
  Config = "CONFIG"
  RootSize = 3
  NameMax = 2
  ColorBits = 6
  Inner <- MCInner
  Users <- MCUsers
  Hosts <- MCHosts
  Styles <- MCStyles
  Colors <- MCColors
  Default <- MCDefault
  Volumes <- MCVolumes
  Commands <- MCCommands
  ExitCodes <- MCExitCodes
  Faults <- MCFaults
  MaxCommands = 2
INVARIANTS
  HereIsHere
  Balanced
  RunsItsFile
PROPERTIES
  ConfigComesBack
  ImplementsRunner
  ShellComesBack
CHECK_DEADLOCK FALSE
