\* Three keys of different lengths, values that fit beside each other, alone
\* or not at all.
CONSTANTS
  k1 = k1
  k2 = k2
  k3 = k3
  Keys = {k1, k2, k3}
  KeyLen <- Lengths
  ValLens = {0, 1, 2, 6}
  MaxBytes = 5
SPECIFICATION Spec
INVARIANT Accounted
PROPERTY ImplementsRecencyCache
