------------------------- MODULE OnboardingContract -------------------------
(***************************************************************************)
(* What a control center promises about a gateway from its creation on,    *)
(* whatever requests overlap, fail half way or are cut off by a restart:   *)
(* the bootstrap token admits one gateway process, and only that one is    *)
(* invited to register; a credential goes to a gateway that was invited or *)
(* has one, is generated once and stored at most once; the gateway moves   *)
(* through its stages in order, and only stages it reached are recorded.   *)
(***************************************************************************)
CONSTANTS
    Gateways,       \* gateways that may be created
    Identities,     \* the identities of gateway processes
    Credentials,    \* runtime credentials
    Seed,           \* the credential of gateways configured in advance
    None            \* no credential

VARIABLES
    stage,      \* the stage of each gateway
    open,       \* the gateways whose bootstrap token admits a process
    admitted,   \* the process each gateway's bootstrap token admitted
    invited,    \* the processes told how to register
    credential, \* the credential of each gateway
    generated,  \* every credential there ever was
    pending,    \* those that are going to be stored
    recorded    \* the stages recorded for each gateway

entry == <<open, admitted, invited>>
bearers == <<credential, generated, pending>>

Reached(s) ==
    CASE s = "provisioned"  -> {"provisioned"}
      [] s = "initializing" -> {"provisioned", "initializing"}
      [] s = "running"      -> {"provisioned", "initializing", "running"}
      [] OTHER              -> {}

Init ==
    /\ stage = [g \in Gateways |-> "none"]
    /\ open = {}
    /\ admitted = [g \in Gateways |-> {}]
    /\ invited = [g \in Gateways |-> {}]
    /\ \E seeds \in SUBSET Gateways :
            credential = [g \in Gateways |-> IF g \in seeds THEN Seed ELSE None]
    /\ generated = {Seed}
    /\ pending = {}
    /\ recorded = [g \in Gateways |-> {}]

Create(g) ==
    /\ stage[g] = "none"
    /\ credential[g] = None
    /\ stage' = [stage EXCEPT ![g] = "provisioned"]
    /\ open' = open \cup {g}
    /\ UNCHANGED <<admitted, invited, bearers, recorded>>

\* The bootstrap token is spent on process i, or on one that never learns it.
Admit(g, i) ==
    /\ g \in open
    /\ stage[g] = "provisioned"
    /\ open' = open \ {g}
    /\ admitted' = admitted \/ admitted' = [admitted EXCEPT ![g] = {i}]
    /\ UNCHANGED <<stage, invited, bearers, recorded>>

Invite(g, i) ==
    /\ i \in admitted[g]
    /\ invited' = [invited EXCEPT ![g] = @ \cup {i}]
    /\ UNCHANGED <<stage, open, admitted, bearers, recorded>>

Initialize(g) ==
    /\ stage[g] = "provisioned"
    /\ g \notin open
    /\ stage' = [stage EXCEPT ![g] = "initializing"]
    /\ UNCHANGED <<entry, bearers, recorded>>

Run(g) ==
    /\ credential[g] # None
    /\ stage' = [stage EXCEPT ![g] = "running"]
    /\ UNCHANGED <<entry, bearers, recorded>>

Generate(c) ==
    /\ c \notin generated
    /\ generated' = generated \cup {c}
    /\ pending' = pending \cup {c}
    /\ UNCHANGED <<stage, entry, credential, recorded>>

Forget ==
    /\ pending' \subseteq pending
    /\ UNCHANGED <<stage, entry, credential, generated, recorded>>

\* What the gateway had before is no credential any more.
Give(g, c) ==
    /\ c \in pending
    /\ g \notin open
    /\ invited[g] # {} \/ credential[g] # None
    /\ credential' = [credential EXCEPT ![g] = c]
    /\ pending' = pending \ {c}
    /\ UNCHANGED <<stage, entry, generated, recorded>>

Record(g, s) ==
    /\ s \in Reached(stage[g])
    /\ recorded' = [recorded EXCEPT ![g] = @ \cup {s}]
    /\ UNCHANGED <<stage, entry, bearers>>

Next ==
    \/ \E g \in Gateways : Create(g) \/ Initialize(g) \/ Run(g)
    \/ \E g \in Gateways, i \in Identities : Admit(g, i) \/ Invite(g, i)
    \/ \E c \in Credentials : Generate(c)
    \/ Forget
    \/ \E g \in Gateways, c \in Credentials : Give(g, c)
    \/ \E g \in Gateways, s \in {"provisioned", "initializing", "running"} : Record(g, s)

Spec == Init /\ [][Next]_<<stage, entry, bearers, recorded>>
=============================================================================
