SPECIFICATION Spec
CONSTANTS
    Tokens = {t1, t2}
    Agents = {a1, a2}
    Handlers = {h1, h2}
    MaxUses = 1
    ReservationTTL = 1
    TokenTTL = 2
    CredentialTTL = 1
    MaxCredentials = 3
    MaxFaults = 1
SYMMETRY Symmetry
INVARIANTS
    WithinMaxUses
    UsedCountExact
    AbandonedReservationReusable
    RenewedOnce
    HeldUntilRenewed
PROPERTY ImplementsEnrollmentContract
