CONSTANTS
  Prime = 13
  Families = {"gelu", "layer norm", "rms norm", "attention", "conv", "product", "dequant", "chain"}
  MaxChain = 3
  Seeds = {1, 2}
SPECIFICATION Spec
CHECK_DEADLOCK FALSE
INVARIANTS
  OutputsKept
  PassesSound
