------------------------------- MODULE MCServices -------------------------------
(***************************************************************************)
(* The services and the GBP encoder, so that one run checks them all, each   *)
(* service up to what its actors have in common.                             *)
(***************************************************************************)
EXTENDS Services, MCGbpCodec

vars == <<serviceVars, gbpVars>>

MCInit == ServicesInit /\ GbpInit /\ (part # "other" => plain = GbpNull)

\* The connections differ in nothing but their names, so one of them is taken to be the
\* first to act.
FirstActs == acting' = {} \/ (CHOOSE c \in Conns : TRUE) \in acting'

\* Nor do the GETs: one of them is the first to start.
FirstStarts ==
    LET first == CHOOSE c \in Reads : TRUE
    IN  (\E c \in Reads : restCall'[c].at # "start") => restCall'[first].at # "start"

\* Nor do the ids: the first resolver, and the first subscription task, has a certain one.
\* A behaviour that stops where a resolver with another id would start is not fair.
FirstResolves == resolver'[1].id \in {"none", CHOOSE i \in SubIds : TRUE}
FirstWatches == task'[1].id \in {"none", CHOOSE i \in LiveIds : TRUE}

\* Nor do the requests to the router: they come in the order of their numbers.
RequestsInOrder == \A r \in Callers \ {1} : caller'[r].at # "new" => caller'[r - 1].at # "new"

MCNext ==
    \/ SocketStep(SocketNext /\ FirstResolves) /\ UNCHANGED gbpVars
    \/ LiveStep(LiveNext /\ FirstActs /\ FirstWatches) /\ UNCHANGED gbpVars
    \/ ReloadStep(ReloadNext /\ RequestsInOrder) /\ UNCHANGED gbpVars
    \/ ShutdownStep(ShutdownNext) /\ UNCHANGED gbpVars
    \/ CostStep(CostNext) /\ UNCHANGED gbpVars
    \/ WhitelistStep(WhitelistNext) /\ UNCHANGED gbpVars
    \/ DeferStep(DeferNext) /\ UNCHANGED gbpVars
    \/ RestStep(RestNext /\ FirstStarts) /\ UNCHANGED gbpVars
    \/ part = "other" /\ GbpNext /\ UNCHANGED serviceVars

\* The tasks of the service that runs.  The others' are not enabled, so that fairness of
\* this one action is fairness of each service's own.
ServiceTasks ==
    /\ \/ SocketStep(SocketTasks)
       \/ LiveStep(LiveWork)
       \/ ReloadStep(ReloadTasks)
       \/ ShutdownStep(ShutdownTasks)
    /\ UNCHANGED gbpVars

MCFairSpec == MCInit /\ [][MCNext]_vars /\ WF_vars(ServiceTasks)

=============================================================================
