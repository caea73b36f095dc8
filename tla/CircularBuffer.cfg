\* The profiler's instance keeps 2 stamps; reserve may grow it to 4.
SPECIFICATION Spec
CONSTANTS
  Item = {a, b, c}
  NoItem = NoItem
  MinCapacity = 2
  MaxCapacity = 4
INVARIANTS
  TypeOK
  TailFollows
PROPERTY ImplementsWindow
