SPECIFICATION Spec
CONSTANTS
    Gateways = {g1}
    Identities = {i1}
    Handlers = {h1, h2}
    MaxTokens = 2
    MaxCredentials = 2
    MaxFaults = 0
SYMMETRY Symmetry
INVARIANT
    RenewedOnce
