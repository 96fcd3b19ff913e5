\* Two writers and a reader on rings of one, two and four items; counters of three bits.
SPECIFICATION Spec
CONSTANTS
  w1 = w1
  w2 = w2
  Writers <- TwoWriters
  Nobody = Nobody
  Width = 3
  Asked = {1, 2, 3}
  Items = 5
  MaxLen = 3
SYMMETRY WriterSymmetry
INVARIANT SlotsDisjoint
PROPERTY ImplementsQueue
