------------------------- MODULE EnrollmentContract -------------------------
(***************************************************************************)
(* What a gateway promises about install codes and agent credentials,      *)
(* whatever requests overlap, fail half way, expire or are cut off by a    *)
(* crash: a use of a code is set aside before it is taken, one at a time,  *)
(* and is given back or taken once; an agent is registered once, by one    *)
(* code; and its credentials follow one another, each new and each         *)
(* replaced for good.                                                      *)
(***************************************************************************)
EXTENDS Integers, FiniteSets

CONSTANTS
    Tokens,         \* install codes
    Agents,         \* agent identities
    MaxUses,        \* how many agents a code registers
    Credentials,    \* bearer tokens
    None            \* no credential

VARIABLES
    uses,       \* the agents each code registered
    aside,      \* the codes of which a use is set aside
    current,    \* the credential of each agent
    spent       \* the credentials that were replaced

Init ==
    /\ uses = [t \in Tokens |-> {}]
    /\ aside = {}
    /\ current = [a \in Agents |-> None]
    /\ spent = {}

SetAside(t) ==
    /\ t \notin aside
    /\ Cardinality(uses[t]) < MaxUses
    /\ aside' = aside \cup {t}
    /\ UNCHANGED <<uses, current, spent>>

GiveBack(t) ==
    /\ t \in aside
    /\ aside' = aside \ {t}
    /\ UNCHANGED <<uses, current, spent>>

New(c) == c \notin spent /\ \A a \in Agents : current[a] # c

\* The use set aside is taken: the agent has its first credential.
Register(t, a, c) ==
    /\ t \in aside
    /\ current[a] = None
    /\ New(c)
    /\ uses' = [uses EXCEPT ![t] = @ \cup {a}]
    /\ aside' = aside \ {t}
    /\ current' = [current EXCEPT ![a] = c]
    /\ UNCHANGED spent

Renew(a, c) ==
    /\ current[a] # None
    /\ New(c)
    /\ current' = [current EXCEPT ![a] = c]
    /\ spent' = spent \cup {current[a]}
    /\ UNCHANGED <<uses, aside>>

Next ==
    \/ \E t \in Tokens : SetAside(t) \/ GiveBack(t)
    \/ \E t \in Tokens, a \in Agents, c \in Credentials : Register(t, a, c)
    \/ \E a \in Agents, c \in Credentials : Renew(a, c)

Spec == Init /\ [][Next]_<<uses, aside, current, spent>>
=============================================================================
