----------------------------- MODULE AtomicStore -----------------------------
(***************************************************************************)
(* What the file stores promise their callers: an update is applied to the *)
(* latest snapshot in one step or not at all, and once its call returned   *)
(* Ok it stays.  An update whose call has not returned Ok may be undone by *)
(* a power failure, also when the call returned an error.                  *)
(***************************************************************************)
CONSTANT Calls

VARIABLES
    value,      \* the snapshot, as the set of updates in it
    confirmed   \* the calls that returned Ok

vars == <<value, confirmed>>

Init == value = {} /\ confirmed = {}

Apply(c) ==
    /\ c \notin value
    /\ value' = value \cup {c}
    /\ UNCHANGED confirmed

Confirm(c) ==
    /\ c \in value \ confirmed
    /\ confirmed' = confirmed \cup {c}
    /\ UNCHANGED value

Undo(lost) ==
    /\ lost \cap confirmed = {}
    /\ value' = value \ lost
    /\ UNCHANGED confirmed

Next ==
    \/ \E c \in Calls : Apply(c) \/ Confirm(c)
    \/ \E lost \in SUBSET Calls : Undo(lost)

Spec == Init /\ [][Next]_vars
=============================================================================
