---------------------------- MODULE RateLimiter ----------------------------
(***************************************************************************)
(* The rate limiter of src/src/ratelimit.rs: a fixed window that the first *)
(* check after its end starts again.  Every tool that touches a host takes *)
(* a slot of the one limiter of the process, under its mutex.              *)
(***************************************************************************)
EXTENDS Naturals, Sequences

CONSTANTS
    Limits,    \* values of max_exec_per_minute, 0 switches it off
    Window,    \* WINDOW, in clock ticks
    MaxTime,   \* bound: the last clock tick
    MaxOps     \* bound: operations let through in a behaviour

ASSUME LimitAssumption == Limits \subseteq Nat /\ Window \in Nat \ {0}
ASSUME LimitBoundAssumption == MaxTime \in Nat /\ MaxOps \in Nat

VARIABLES
    max,       \* RateLimiter.max_per_window
    now,       \* the monotonic clock
    started,   \* Window.started
    count,     \* Window.count
    admitted,  \* history: the instants of the operations let through
    outcome    \* what the last check returned

vars == <<max, now, started, count, admitted, outcome>>

TypeOK ==
    /\ max \in Limits
    /\ now \in Nat
    /\ started \in Nat
    /\ count \in Nat
    /\ admitted \in Seq(Nat)
    /\ outcome \in {"none", "ok", "refused"}

\* RateLimiter::new starts a window.
Init ==
    /\ max \in Limits
    /\ now = 0
    /\ started = now
    /\ count = 0
    /\ admitted = <<>>
    /\ outcome = "none"

Expired == now - started >= Window

\* The count of the window that this check falls in.
Count == IF Expired THEN 0 ELSE count

\* if w.started.elapsed() >= WINDOW { .. }
Roll == started' = IF Expired THEN now ELSE started

LetThrough ==
    /\ admitted' = Append(admitted, now)
    /\ outcome' = "ok"
    /\ Len(admitted) < MaxOps

CheckDisabled ==
    /\ max = 0
    /\ LetThrough
    /\ UNCHANGED <<max, now, started, count>>

\* Mutant of CheckOk: one operation too many in a window.
CheckOkOneMore ==
    /\ max # 0
    /\ Count <= max
    /\ Roll
    /\ count' = Count + 1
    /\ LetThrough
    /\ UNCHANGED <<max, now>>

CheckOk ==
    /\ max # 0
    /\ Count < max
    /\ Roll
    /\ count' = Count + 1
    /\ LetThrough
    /\ UNCHANGED <<max, now>>

\* Mutant of CheckRefused: the last operation of a window is refused.
CheckRefusedEarly ==
    /\ max # 0
    /\ Count + 1 >= max
    /\ Roll
    /\ count' = Count
    /\ outcome' = "refused"
    /\ UNCHANGED <<max, now, admitted>>

CheckRefused ==
    /\ max # 0
    /\ Count >= max
    /\ Roll
    /\ count' = Count
    /\ outcome' = "refused"
    /\ UNCHANGED <<max, now, admitted>>

Tick ==
    /\ now < MaxTime
    /\ now' = now + 1
    /\ UNCHANGED <<max, started, count, admitted, outcome>>

Next == CheckDisabled \/ CheckOk \/ CheckRefused \/ Tick

Spec == Init /\ [][Next]_vars

------------------------------------------------------------------------------
(* Properties *)

\* "Na virada da janela é possível uma rajada de até 2×max" (ratelimit.rs:3-4),
\* and no more: 2 * max + 1 operations in a row take at least a window.
BurstBounded ==
    max # 0 =>
        \A i \in 1..Len(admitted) :
            i + 2 * max <= Len(admitted) =>
                admitted[i + 2 * max] - admitted[i] >= Window

\* The window's operations are the last count of the history, and those of
\* windows before the previous one are at least a window older than it.
WindowInv ==
    max # 0 =>
        /\ count <= max /\ count <= Len(admitted)
        /\ started <= now
        /\ \A i \in 1..Len(admitted) :
              /\ admitted[i] <= now
              /\ i > Len(admitted) - count => admitted[i] >= started
              /\ i <= Len(admitted) - count => admitted[i] <= started
              /\ i + max <= Len(admitted) - count =>
                    admitted[i] + Window <= started

\* The limiter does what BurstLimit says: the bound on a burst, and no refusal
\* of an operation before max others went through within the last window.
Limit == INSTANCE BurstLimit WITH
    max <- max, now <- now, admitted <- admitted, outcome <- outcome,
    Limits <- Limits, Window <- Window
LimitSpec == Limit!Spec
=============================================================================
