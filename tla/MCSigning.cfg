\* A limit of two levels stands for the thirty of the code.
SPECIFICATION Spec
CONSTANTS
  MaxDepth = 2
  Name <- names
  KeyOrder <- order
  Payloads <- payloads
  Data <- data
  Ways = {"hmac", "ed25519", "chain_hmac", "chain_ed25519"}
  Keys = {"k1", "rsa"}
  Ignores <- ignores
INVARIANTS SignedVerifies AcceptedSaysTheSame FailsOnlyAtLimits
CHECK_DEADLOCK FALSE
