SPECIFICATION Spec
CONSTANTS
  Handlers = {h1, h2}
  APIKeys = {k1, k2}
  Tokens = {right}
  BootstrapToken = right
  None = None
  Budget <- NoFailure
INVARIANT AtMostOneKey
