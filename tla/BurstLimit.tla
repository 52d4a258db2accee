----------------------------- MODULE BurstLimit -----------------------------
(***************************************************************************)
(* What the rate limiter of src/src/ratelimit.rs promises, without saying  *)
(* how: never more than 2 * max operations within one window of time, and  *)
(* a refusal only after max operations within the last window.             *)
(***************************************************************************)
EXTENDS Naturals, Sequences

CONSTANTS
    Limits,  \* limits it may be set to: operations per window, 0 for no limit
    Window   \* length of the window

VARIABLES
    max,       \* the limit
    now,       \* the clock
    admitted,  \* the instants of the operations let through
    outcome    \* what the last check said

vars == <<max, now, admitted, outcome>>

Init ==
    /\ max \in Limits
    /\ now \in Nat
    /\ admitted = <<>>
    /\ outcome = "none"

\* At least k operations were let through less than a window ago.
Recent(k) ==
    /\ Len(admitted) >= k
    /\ now - admitted[Len(admitted) - k + 1] < Window

Admit ==
    /\ max = 0 \/ ~Recent(2 * max)
    /\ admitted' = Append(admitted, now)
    /\ outcome' = "ok"
    /\ UNCHANGED <<max, now>>

Refuse ==
    /\ max # 0 /\ Recent(max)
    /\ outcome' = "refused"
    /\ UNCHANGED <<max, now, admitted>>

Tick ==
    /\ now' > now
    /\ UNCHANGED <<max, admitted, outcome>>

Next == Admit \/ Refuse \/ Tick

Spec == Init /\ [][Next]_vars
=============================================================================
