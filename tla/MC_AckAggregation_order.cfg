\* the order of arrival changes the folded envelope
CONSTANTS
  BlockIds <- MCBlockIds
  Signers <- MCSigners
  MaxBuffer = 3
SPECIFICATION Spec
INVARIANTS
  FoldIsCommutative
