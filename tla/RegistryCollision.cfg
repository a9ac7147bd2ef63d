SPECIFICATION Spec
CONSTANTS
  e1 = e1
  e2 = e2
  e3 = e3
  Entities = {e1, e2, e3}
  MaxId = 3
  Null = Null
  Reserved = Reserved
  NoId = NoId
PROPERTY CollisionProtects
