---------------------------- MODULE FleetBudget ----------------------------
(***************************************************************************)
(* Fleet with a history variable, for what the daily budget bounds.        *)
(* budgetStatus() (src/server/supervisor.ts, src/policy/budget.ts) is read *)
(* at the top of a run's loop alone (shouldStop), so a run may have its    *)
(* next prompt under way when any run of the fleet spends the rest.        *)
(***************************************************************************)
EXTENDS Fleet

VARIABLE overrun  \* turns a run has begun since the budget was last reached

budgetVars == <<vars, overrun>>

BudgetInit == Init /\ overrun = [s \in Session |-> [g \in Run |-> 0]]

\* A run that has begun no turn, or that has budget again, has no overrun.
Overrun(s, g) ==
  IF ~spent' \/ turns'[s][g] = 0 THEN 0
  ELSE IF spent /\ turns'[s][g] > turns[s][g] THEN overrun[s][g] + 1
  ELSE overrun[s][g]

BudgetNext == Next /\ overrun' = [s \in Session |-> [g \in Run |-> Overrun(s, g)]]

BudgetSpec == BudgetInit /\ [][BudgetNext]_budgetVars

\* Once the daily budget is reached a run begins one turn more at most, the one
\* whose prompt the brain, the operator or a person asked was giving it then: it
\* is not read between prompt and turn, whatever the run goes through after.
BudgetStopsRun ==
  ~UsageGate => \A s \in Session, g \in Run : overrun[s][g] <= 1
=============================================================================
