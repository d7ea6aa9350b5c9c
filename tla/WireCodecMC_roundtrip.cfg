CONSTANTS
  MaxField = 4
  Alphabet = {0, 1, 3, 255}
  MaxGarbage = 5
  MaxBinary = 9
SPECIFICATION Spec
INVARIANT ServerRoundTrip
