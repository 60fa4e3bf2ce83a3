SPECIFICATION Spec
CONSTANTS
  Key <- MCKey
  Half = 4
  Scan = 1
  Bounce = 2
  Hold = 18
  Rest = 10
  NumLights = 2
  Poll = 2
  Long = 6
  Lights <- MCLights
INVARIANTS
  Scored
PROPERTIES
  ShownOnce
  EachPressOnce
  Heard
