------------------------------ MODULE QueryCosts ------------------------------
(***************************************************************************)
(* Query costs (src/query_cost_analyzer.rs).  The router computes the cost  *)
(* of every query under the load factor in place and refuses one that is    *)
(* too expensive; an application may charge the cost to its user's budget,  *)
(* which is kept for a window that starts with the user's first query.      *)
(***************************************************************************)
EXTENDS Naturals, Sequences, FiniteSets

CONSTANTS
    Users,
    BaseCosts,         \* costs of the queries before the load is applied
    MaxCost,           \* max_cost_per_query
    Budget, Window,    \* user_cost_budget, budget_window
    HighLoad,          \* high_load_multiplier, in halves
    MaxUserBudgets,    \* MAX_USER_BUDGET_ENTRIES
    MaxCostHistory,    \* MAX_COST_HISTORY
    MaxClock           \* bound: the clock

ASSUME CostAssumption ==
    /\ {MaxCost, Budget, MaxClock} \subseteq Nat /\ BaseCosts \subseteq Nat \ {0}
    /\ {Window, MaxUserBudgets, MaxCostHistory} \subseteq Nat \ {0}
    /\ HighLoad \in Nat /\ HighLoad >= 2

VARIABLES
    load,           \* current_load_factor, in halves
    budgets,        \* user_budgets: what a tracked user has spent, and since when
    query_costs,    \* costs of the last queries
    quoted,         \* cost of the query a user is about to run, 0 if none
    clock,
    charged         \* history: what each user was charged before each time

costVars == <<load, budgets, query_costs, quoted, clock, charged>>

Times == 0..(MaxClock + 1)

CostInit ==
    /\ load = 2
    /\ budgets = <<>>
    /\ query_costs = <<>>
    /\ quoted = [u \in Users |-> 0]
    /\ clock = 0
    /\ charged = [u \in Users |-> [t \in Times |-> 0]]

-----------------------------------------------------------------------------
\* calculate_query_cost: an accepted query enters the ring of the last costs.
CalculateCost(u) ==
    /\ quoted[u] = 0
    /\ \E base \in BaseCosts :
         LET total == (base * load) \div 2 IN
         /\ total <= MaxCost
         /\ quoted' = [quoted EXCEPT ![u] = total]
         /\ query_costs' = Append(IF Len(query_costs) >= MaxCostHistory THEN Tail(query_costs)
                                  ELSE query_costs, total)
    /\ UNCHANGED <<load, budgets, clock, charged>>

Age(u) == clock - budgets[u].start
Younger(age) == [u \in {v \in DOMAIN budgets : Age(v) <= age} |-> budgets[u]]

\* Mutant of Room: a full map is emptied.
RoomForAny(u) ==
    IF Cardinality(DOMAIN budgets) >= MaxUserBudgets /\ u \notin DOMAIN budgets
    THEN <<>> ELSE budgets

\* A full map is cleared of the windows that are over before a new user enters.
Room(u) ==
    IF Cardinality(DOMAIN budgets) >= MaxUserBudgets /\ u \notin DOMAIN budgets
    THEN Younger(Window) ELSE budgets

Charge(u) ==
    [charged EXCEPT ![u] = [t \in Times |-> IF t > clock THEN @[t] + quoted[u] ELSE @[t]]]

\* check_user_budget, under one write lock: the query is charged to the user's window,
\* a new one if the last is over.  A refusal leaves the window it started in place.
CheckBudget(u) ==
    LET kept == Room(u)
        old  == u \in DOMAIN kept
        now  == IF old /\ clock - kept[u].start <= Window THEN kept[u]
                ELSE [spent |-> 0, start |-> clock]
        fits == now.spent + quoted[u] <= Budget
        entry == IF fits THEN [now EXCEPT !.spent = @ + quoted[u]] ELSE now
    IN  /\ quoted[u] > 0
        /\ quoted' = [quoted EXCEPT ![u] = 0]
        /\ IF ~old /\ Cardinality(DOMAIN kept) >= MaxUserBudgets
           THEN budgets' = kept /\ UNCHANGED charged
           ELSE /\ budgets' = [v \in DOMAIN kept \cup {u} |-> IF v = u THEN entry ELSE kept[v]]
                /\ charged' = IF fits THEN Charge(u) ELSE charged
        /\ UNCHANGED <<load, query_costs, clock>>

\* update_load_factor: low, medium or high load.
UpdateLoadFactor ==
    /\ load' \in {2, 3, HighLoad} /\ load' # load
    /\ UNCHANGED <<budgets, query_costs, quoted, clock, charged>>

CleanupExpiredBudgets ==
    /\ budgets' = Younger(2 * Window) /\ budgets' # budgets
    /\ UNCHANGED <<load, query_costs, quoted, clock, charged>>

AdvanceClock ==
    /\ clock < MaxClock /\ clock' = clock + 1
    /\ UNCHANGED <<load, budgets, query_costs, quoted, charged>>

CostNext ==
    \/ \E u \in Users : CalculateCost(u) \/ CheckBudget(u)
    \/ UpdateLoadFactor \/ CleanupExpiredBudgets \/ AdvanceClock

-----------------------------------------------------------------------------
CostTypeOK ==
    /\ load \in {2, 3, HighLoad}
    /\ DOMAIN budgets \subseteq Users /\ Cardinality(DOMAIN budgets) <= MaxUserBudgets
    /\ \A u \in DOMAIN budgets : budgets[u].spent \in 0..Budget /\ budgets[u].start \in 0..clock
    /\ Len(query_costs) <= MaxCostHistory

\* Windows start anew, are dropped when the map is full and cleaned up later, yet no
\* interval as long as a window charges a user more than two budgets.
SpendingBounded ==
    \A u \in Users : \A t, e \in Times :
        t <= e /\ e <= t + Window + 1 => charged[u][e] <= charged[u][t] + 2 * Budget

=============================================================================
