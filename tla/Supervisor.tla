------------------------------ MODULE Supervisor ------------------------------
(* What a supervised child process promises to whoever asked for it, with none *)
(* of the timers, signals and awaits of the monitor: one run at a time, a run   *)
(* after the first only when one is owed, and at most MaxRestarts of them paid  *)
(* for between two resets of the budget.                                        *)
EXTENDS Naturals

CONSTANT MaxRestarts

VARIABLES
    run,        \* number of runs begun
    up,         \* the last run begun has not been seen to end
    owed,       \* a run is to follow
    budget      \* restarts left before the monitor gives up

vars == <<run, up, owed, budget>>

Init ==
    /\ run = 0
    /\ up = FALSE
    /\ owed \in BOOLEAN
    /\ budget = MaxRestarts

(* The first run is asked for. *)
Ask ==
    /\ run = 0 /\ ~owed
    /\ owed' = TRUE
    /\ UNCHANGED <<run, up, budget>>

(* An owed run begins; a long enough previous run restores the budget. *)
Begin ==
    /\ owed /\ ~up
    /\ run' = run + 1
    /\ up' = TRUE
    /\ owed' = FALSE
    /\ budget' \in {budget, MaxRestarts}

(* The run ends and another one is owed for one unit of the budget. *)
EndAndOwe ==
    /\ up /\ ~owed /\ budget > 0
    /\ up' = FALSE
    /\ owed' = TRUE
    /\ budget' = budget - 1
    /\ UNCHANGED run

(* The run ends for good. *)
EndForGood ==
    /\ up
    /\ up' = FALSE
    /\ UNCHANGED <<run, owed, budget>>

(* The run that is owed is cancelled, or its start fails. *)
Cancel ==
    /\ owed
    /\ owed' = FALSE
    /\ budget' \in {budget, MaxRestarts}
    /\ UNCHANGED <<run, up>>

Next == Ask \/ Begin \/ EndAndOwe \/ EndForGood \/ Cancel

Spec == Init /\ [][Next]_vars
================================================================================
