\* the fold keeps every signer once, signatures match, redelivery is ignored
CONSTANTS
  BlockIds <- MCBlockIds
  Signers <- MCSigners
  MaxBuffer = 3
SPECIFICATION Spec
INVARIANTS
  SignatureMatchesOccurrences
  SignersAreKept
  RedeliveryIsIgnored
