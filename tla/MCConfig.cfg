SPECIFICATION Spec
CONSTANTS
  Value <- Values
  Blank = "blank"
  Default = "default"
  Torn = "torn"
  Numbers <- AnyNumber
  Commands = {"LI", "SM", "RH"}
INVARIANTS
  InStep
PROPERTIES
  OthersUntouched
  NeverFactoryAgain
