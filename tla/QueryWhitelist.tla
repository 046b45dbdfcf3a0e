---------------------------- MODULE QueryWhitelist ----------------------------
(***************************************************************************)
(* The list of allowed queries (src/query_whitelist.rs): three maps, each     *)
(* under a lock of its own, changed at run time by register_query, which      *)
(* takes the locks one after the other, and by remove_query, which holds them *)
(* one inside the other.  A query stands for its normalised text, and so for  *)
(* its hash.                                                                  *)
(***************************************************************************)
EXTENDS Naturals

CONSTANTS
    OperationIds,
    Documents,    \* queries
    Managers,     \* threads that change the list
    NoId, NoQuery

ASSUME WhitelistAssumption == NoId \notin OperationIds /\ NoQuery \notin Documents

VARIABLES
    query_by_hash,   \* the queries that have an entry under their hash
    query_by_id,     \* the query of an operation id, NoQuery when absent
    ids_by_hash,     \* the ids of a query, {} when it has no entry
    manager,         \* the threads: the lock they take next, and for which id and query
    unclean          \* history: queries whose entries were changed in a way the maps
                     \* do not follow (see Rename and the overlaps)

whitelistVars == <<query_by_hash, query_by_id, ids_by_hash, manager, unclean>>

Free == [at |-> "free", id |-> NoId, query |-> NoQuery]

\* QueryWhitelist::new: any configuration; the indexes are built from it.
WhitelistInit ==
    /\ query_by_id \in [OperationIds -> Documents \cup {NoQuery}]
    /\ ids_by_hash = [q \in Documents |-> {i \in OperationIds : query_by_id[i] = q}]
    /\ query_by_hash = {q \in Documents : ids_by_hash[q] # {}}
    /\ manager = [m \in Managers |-> Free]
    /\ unclean = {}

Registering(q) == {m \in Managers : manager[m].at \in {"id", "reverse"} /\ manager[m].query = q}
Removing(q) == {m \in Managers : manager[m].at \in {"unlink", "unhash"} /\ manager[m].query = q}

\* remove_query holds the lock of query_by_id to its end, and that of ids_by_hash
\* while it takes the last one.
IdsLocked == \E m \in Managers : manager[m].at \in {"unlink", "unhash"}
ReverseLocked == \E m \in Managers : manager[m].at = "unhash"

-----------------------------------------------------------------------------
\* register_query: the hash first.
RegisterQuery(m, i, q) ==
    /\ manager[m] = Free
    /\ query_by_hash' = query_by_hash \cup {q}
    /\ manager' = [manager EXCEPT ![m] = [at |-> "id", id |-> i, query |-> q]]
    /\ unclean' = IF Removing(q) # {} THEN unclean \cup {q} ELSE unclean
    /\ UNCHANGED <<query_by_id, ids_by_hash>>

\* Then the id.  The query it had before keeps its other entries.
RegisterId(m) ==
    LET i == manager[m].id
        q == manager[m].query
    IN  /\ manager[m].at = "id" /\ ~IdsLocked
        /\ query_by_id' = [query_by_id EXCEPT ![i] = q]
        /\ manager' = [manager EXCEPT ![m].at = "reverse"]
        /\ unclean' = unclean \cup ({query_by_id[i]} \ {q, NoQuery})
        /\ UNCHANGED <<query_by_hash, ids_by_hash>>

\* Then the reverse lookup.
RegisterReverse(m) ==
    LET q == manager[m].query IN
    /\ manager[m].at = "reverse" /\ ~ReverseLocked
    /\ ids_by_hash' = [ids_by_hash EXCEPT ![q] = @ \cup {manager[m].id}]
    /\ manager' = [manager EXCEPT ![m] = Free]
    /\ UNCHANGED <<query_by_hash, query_by_id, unclean>>

\* remove_query: an unknown id returns false.
RemoveQueryId(m, i) ==
    LET q == query_by_id[i] IN
    /\ manager[m] = Free /\ ~IdsLocked /\ q # NoQuery
    /\ query_by_id' = [query_by_id EXCEPT ![i] = NoQuery]
    /\ manager' = [manager EXCEPT ![m] = [at |-> "unlink", id |-> i, query |-> q]]
    /\ unclean' = IF Registering(q) # {} THEN unclean \cup {q} ELSE unclean
    /\ UNCHANGED <<query_by_hash, ids_by_hash>>

\* Mutant of Unlink: the hash is removed with the first of its ids.
UnlinkAny(m) ==
    LET q == manager[m].query IN
    /\ manager[m].at = "unlink"
    /\ ids_by_hash' = [ids_by_hash EXCEPT ![q] = @ \ {manager[m].id}]
    /\ manager' = [manager EXCEPT ![m] =
          IF ids_by_hash[q] # {} THEN [@ EXCEPT !.at = "unhash"] ELSE Free]
    /\ UNCHANGED <<query_by_hash, query_by_id, unclean>>

\* The reverse lookup loses the id; when there was an entry and it is empty now, the
\* entry goes, and the hash with it.
Unlink(m) ==
    LET q == manager[m].query IN
    /\ manager[m].at = "unlink"
    /\ ids_by_hash' = [ids_by_hash EXCEPT ![q] = @ \ {manager[m].id}]
    /\ manager' = [manager EXCEPT ![m] =
          IF ids_by_hash[q] # {} /\ ids_by_hash'[q] = {} THEN [@ EXCEPT !.at = "unhash"]
          ELSE Free]
    /\ UNCHANGED <<query_by_hash, query_by_id, unclean>>

Unhash(m) ==
    /\ manager[m].at = "unhash"
    /\ query_by_hash' = query_by_hash \ {manager[m].query}
    /\ manager' = [manager EXCEPT ![m] = Free]
    /\ UNCHANGED <<query_by_id, ids_by_hash, unclean>>

WhitelistNext ==
    \E m \in Managers :
        \/ \E i \in OperationIds, q \in Documents : RegisterQuery(m, i, q)
        \/ \E i \in OperationIds : RemoveQueryId(m, i)
        \/ RegisterId(m) \/ RegisterReverse(m) \/ Unlink(m) \/ Unhash(m)

-----------------------------------------------------------------------------
WhitelistTypeOK ==
    /\ query_by_hash \subseteq Documents /\ unclean \subseteq Documents
    /\ query_by_id \in [OperationIds -> Documents \cup {NoQuery}]
    /\ ids_by_hash \in [Documents -> SUBSET OperationIds]
    /\ manager \in [Managers ->
          [at : {"id", "reverse", "unlink", "unhash"}, id : OperationIds, query : Documents]
              \cup {Free}]

\* validate_query: is_allowed_by_hash, is_allowed_by_id.
AllowedByHash(q) == q \in query_by_hash
AllowedById(i) == query_by_id[i] # NoQuery

\* Registrations and removals of ids that share a query interleave lock by lock, yet the
\* text of a query is allowed exactly while some id stands for it or is about to, or has
\* just ceased to, unless an id was given another query, or a registration and a removal
\* of the same query overlapped.
HashFollowsIds ==
    \A q \in Documents \ unclean :
        AllowedByHash(q) <=>
            \/ \E i \in OperationIds : AllowedById(i) /\ query_by_id[i] = q
            \/ Registering(q) # {} \/ Removing(q) # {}

=============================================================================
