SPECIFICATION Spec
CONSTANTS
    Gateways = {g1}
    Identities = {i1, i2}
    Handlers = {h1, h2}
    MaxTokens = 2
    MaxCredentials = 3
    MaxFaults = 1
SYMMETRY Symmetry
INVARIANTS
    BootstrapOnce
    EnrollmentTokenUsedOnce
    LifecycleFollowsTokens
    EventsDistinct
PROPERTIES
    ReplacedStaysInvalid
    ImplementsOnboardingContract
