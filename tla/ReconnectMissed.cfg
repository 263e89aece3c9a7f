SPECIFICATION IntakeSpec
CONSTANTS
  Paths = {"p1", "p2"}
  Cards <- IntakeCards
  Before <- IntakeBefore
  Recordings = {"a", "b"}
  Missing = "no"
  Imports = {1}
  MaxItems = 2
  MaxPlugs = 2
  MaxAsks = 0
  MaxMishaps = 0
PROPERTIES ReconnectImportsAgain
