--------------------------- MODULE StreamContract ---------------------------
(***************************************************************************)
(* What the receiver of one agent's stream promises about every sequence   *)
(* number, whatever order records and dropped ranges arrive in and however *)
(* often they are repeated: the number gets at most one verdict, a verdict *)
(* never changes, and a number is given up as lost only when the stream    *)
(* has moved more than Lag numbers past it.                                *)
(***************************************************************************)
EXTENDS Integers

CONSTANTS
    Lag,        \* how far the stream may run ahead of a missing number
    Numbers,    \* the sequence numbers
    Start       \* the frontier of a new stream

VARIABLES
    fate,       \* the verdict on every number
    frontier    \* the largest number known to have been assigned

Fates == {"open", "accepted", "lost", "filtered"}

Init ==
    /\ fate = [n \in Numbers |-> "open"]
    /\ frontier = Start

Reach(n) == frontier' = IF n > frontier THEN n ELSE frontier

\* A record is handed on: only once, and never after another verdict.
Accept(n) ==
    /\ fate[n] = "open"
    /\ fate' = [fate EXCEPT ![n] = "accepted"]
    /\ Reach(n)

\* A range is reported as dropped on purpose: it takes the open numbers of the
\* range and leaves the verdicts already given.
Filter(start, end) ==
    /\ fate' = [n \in Numbers |->
                    IF n \in start .. end /\ fate[n] = "open" THEN "filtered" ELSE fate[n]]
    /\ Reach(end)

\* A number is given up.
Lose(n) ==
    /\ fate[n] = "open"
    /\ n + Lag < frontier
    /\ fate' = [fate EXCEPT ![n] = "lost"]
    /\ UNCHANGED frontier

Next ==
    \/ \E n \in Numbers : Accept(n) \/ Lose(n)
    \/ \E start, end \in Numbers : Filter(start, end)

Spec == Init /\ [][Next]_<<fate, frontier>>
=============================================================================
