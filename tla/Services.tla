------------------------------- MODULE Services --------------------------------
(***************************************************************************)
(* The services beside the request path.  They share no state, so that a    *)
(* behaviour is about one of them and leaves the others as they were.        *)
(***************************************************************************)
EXTENDS SubscriptionSocket, LiveQueries, RouterReload, Shutdown, QueryCosts, QueryWhitelist,
        DeferredDelivery, RestConnector

VARIABLE part   \* the service this behaviour is about, or "other": none of these

serviceVars == <<part, socketState, liveVars, reloadVars, shutdownVars, costVars, whitelistVars,
                 deferVars, restVars>>

\* A service that does not run starts in one state only.
ServicesInit ==
    /\ part \in {"socket", "live", "reload", "shutdown", "costs", "whitelist", "defer", "rest", "other"}
    /\ SocketInit /\ (part # "socket" => loop = Listening)
    /\ ShutdownInit /\ (part # "shutdown" => ~guarded)
    /\ WhitelistInit /\ (part # "whitelist" => query_by_hash = {})
    /\ DeferInit /\ (part # "defer" => Found = 0)
    /\ LiveInit /\ ReloadInit /\ CostInit /\ RestInit

SocketStep(Action) ==
    /\ part = "socket" /\ Action
    /\ UNCHANGED <<part, liveVars, reloadVars, shutdownVars, costVars, whitelistVars, deferVars,
                   restVars>>
LiveStep(Action) ==
    /\ part = "live" /\ Action
    /\ UNCHANGED <<part, socketState, reloadVars, shutdownVars, costVars, whitelistVars, deferVars,
                   restVars>>
ReloadStep(Action) ==
    /\ part = "reload" /\ Action
    /\ UNCHANGED <<part, socketState, liveVars, shutdownVars, costVars, whitelistVars, deferVars,
                   restVars>>
ShutdownStep(Action) ==
    /\ part = "shutdown" /\ Action
    /\ UNCHANGED <<part, socketState, liveVars, reloadVars, costVars, whitelistVars, deferVars,
                   restVars>>
CostStep(Action) ==
    /\ part = "costs" /\ Action
    /\ UNCHANGED <<part, socketState, liveVars, reloadVars, shutdownVars, whitelistVars, deferVars,
                   restVars>>
WhitelistStep(Action) ==
    /\ part = "whitelist" /\ Action
    /\ UNCHANGED <<part, socketState, liveVars, reloadVars, shutdownVars, costVars, deferVars,
                   restVars>>
DeferStep(Action) ==
    /\ part = "defer" /\ Action
    /\ UNCHANGED <<part, socketState, liveVars, reloadVars, shutdownVars, costVars, whitelistVars,
                   restVars>>
RestStep(Action) ==
    /\ part = "rest" /\ Action
    /\ UNCHANGED <<part, socketState, liveVars, reloadVars, shutdownVars, costVars, whitelistVars,
                   deferVars>>

ServicesNext ==
    \/ SocketStep(SocketNext)
    \/ LiveStep(LiveNext)
    \/ ReloadStep(ReloadNext)
    \/ ShutdownStep(ShutdownNext)
    \/ CostStep(CostNext)
    \/ WhitelistStep(WhitelistNext)
    \/ DeferStep(DeferNext)
    \/ RestStep(RestNext)

ServicesSpec == ServicesInit /\ [][ServicesNext]_serviceVars

TypeOK ==
    /\ SocketTypeOK /\ LiveTypeOK /\ ReloadTypeOK /\ ShutdownTypeOK /\ CostTypeOK
    /\ WhitelistTypeOK /\ DeferTypeOK /\ RestTypeOK

=============================================================================
