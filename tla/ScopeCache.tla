----------------------------- MODULE ScopeCache -----------------------------
(***************************************************************************)
(* The scope cache that every write tool validates its references against  *)
(* (src/openitcockpit_mcp/api/scope/service.py), under the concurrency the *)
(* server really has: FastMCP runs each synchronous tool in a worker       *)
(* thread, all threads share one ScopeService, and the service's lock is   *)
(* held for the dictionary accesses only, never across the HTTP request.   *)
(*                                                                         *)
(* openITCOCKPIT's configuration is abstracted to a version number, db; a  *)
(* "bundle" of allowed elements is the version it was answered from and    *)
(* the user it was answered for.  What a name resolves to inside a bundle  *)
(* is the subject of other modules.                                        *)
(***************************************************************************)
EXTENDS Integers, Sequences

CONSTANTS
    Threads,      \* worker threads, each handling one tool call at a time
    Users,        \* cache partitions: one per user token, or the service account
    Keys,         \* cache keys below the partition, e.g. "host:1:0"
    CacheEnabled, \* OITC_SCOPE_CACHE_ENABLED
    TTL,          \* OITC_SCOPE_CACHE_TTL_SECONDS
    RequestTime,  \* assumed bound on the seconds from a request to its insertion
    MaxTime,      \* bound of the model: the clock stops here
    MaxVersion    \* bound of the model: number of configuration changes

ASSUME CacheEnabledAssumption == CacheEnabled \in BOOLEAN
ASSUME TTLAssumption == TTL \in Nat
ASSUME RequestTimeAssumption == RequestTime \in Nat
ASSUME BoundsAssumption == MaxTime \in Nat /\ MaxVersion \in Nat

VARIABLES
    now,      \* time.monotonic(), in seconds
    db,       \* version of the configuration openITCOCKPIT holds
    wroteAt,  \* wroteAt[v] is the time version v came into being
    cache,    \* cache[u][k]: the entry of partition u under key k, or None
    pc,       \* pc[t]: where the tool call handled by thread t is
    user,     \* user[t]: the user that call acts for
    bundle,   \* bundle[t]: the bundle the call fetches or holds, or None
    wrote,    \* wrote[t]: the version the call's own write made, 0 before it
    cleared   \* highest version whose write has invalidated the cache

vars == <<now, db, wroteAt, cache, pc, user, bundle, wrote, cleared>>

None == [tag |-> "none"]

(* A bundle, with what the properties need to know of its origin: who it   *)
(* was answered for, when its request was sent, which version it shows and *)
(* how far the cache had been cleared when the request was sent.           *)
Bundle == [tag : {"bundle"}, for : Users, key : Keys, sent : Nat, ver : Nat, floor : Nat]

(* A cache entry: the bundle, the time.monotonic() of its insertion, and   *)
(* how far the cache had been cleared at the insertion.                    *)
Entry == [tag : {"entry"}, b : Bundle, stamp : Nat, storedAfter : Nat]

InFlight(t) == pc[t] \in {"asking", "answered"}

PCs == {"idle", "ready", "asking", "answered", "written"}

TypeOK ==
    /\ now \in Nat
    /\ db \in Nat
    /\ wroteAt \in Seq(Nat)
    /\ Len(wroteAt) = db
    /\ cache \in [Users -> [Keys -> Entry \cup {None}]]
    /\ pc \in [Threads -> PCs]
    /\ user \in [Threads -> Users]
    /\ bundle \in [Threads -> Bundle \cup {None}]
    /\ wrote \in [Threads -> Nat]
    /\ cleared \in Nat

Init ==
    /\ now = 0
    /\ db = 0
    /\ wroteAt = <<>>
    /\ cache = [u \in Users |-> [k \in Keys |-> None]]
    /\ pc = [t \in Threads |-> "idle"]
    /\ user \in [Threads -> Users]
    /\ bundle = [t \in Threads |-> None]
    /\ wrote = [t \in Threads |-> 0]
    /\ cleared = 0

-----------------------------------------------------------------------------
(* A tool call starts on a free thread, for the user whose token the MCP   *)
(* request carries; the partition is derived from that token.              *)
StartCall(t, u) ==
    /\ pc[t] = "idle"
    /\ pc' = [pc EXCEPT ![t] = "ready"]
    /\ user' = [user EXCEPT ![t] = u]
    /\ UNCHANGED <<now, db, wroteAt, cache, bundle, wrote, cleared>>

(* Mutant of Usable: an entry is used at the age of the TTL as well.       *)
UsableAtTTL(e) == e # None /\ now - e.stamp <= TTL

Usable(e) == e # None /\ now - e.stamp < TTL

(* Mutant of Hit: the key is looked up without the partition.              *)
HitAnyPartition(t, k) ==
    /\ pc[t] = "ready"
    /\ CacheEnabled
    /\ \E u \in Users : Usable(cache[u][k]) /\ bundle' = [bundle EXCEPT ![t] = cache[u][k].b]
    /\ UNCHANGED <<now, db, wroteAt, cache, pc, user, wrote, cleared>>

(* _fetch_cached, the lookup under the lock: an entry younger than the TTL *)
(* is returned as it is.                                                   *)
Hit(t, k) ==
    /\ pc[t] = "ready"
    /\ CacheEnabled
    /\ Usable(cache[user[t]][k])
    /\ bundle' = [bundle EXCEPT ![t] = cache[user[t]][k].b]
    /\ UNCHANGED <<now, db, wroteAt, cache, pc, user, wrote, cleared>>

(* _fetch_cached, a miss: the lock is released and the request is sent.    *)
Ask(t, k) ==
    /\ pc[t] = "ready"
    /\ ~(CacheEnabled /\ Usable(cache[user[t]][k]))
    /\ pc' = [pc EXCEPT ![t] = "asking"]
    /\ bundle' = [bundle EXCEPT ![t] =
                    [tag |-> "bundle", for |-> user[t], key |-> k, sent |-> now,
                     ver |-> 0, floor |-> cleared]]
    /\ UNCHANGED <<now, db, wroteAt, cache, user, wrote, cleared>>

(* openITCOCKPIT answers with the bundle as its database shows it now.     *)
Answer(t) ==
    /\ pc[t] = "asking"
    /\ pc' = [pc EXCEPT ![t] = "answered"]
    /\ bundle' = [bundle EXCEPT ![t].ver = db]
    /\ UNCHANGED <<now, db, wroteAt, cache, user, wrote, cleared>>

(* The request times out, or its status is not 200: the tool call raises   *)
(* and nothing is cached.                                                  *)
FetchFails(t) ==
    /\ InFlight(t)
    /\ pc' = [pc EXCEPT ![t] = "idle"]
    /\ bundle' = [bundle EXCEPT ![t] = None]
    /\ UNCHANGED <<now, db, wroteAt, cache, user, wrote, cleared>>

(* Mutant of StoredEntry: the bundle is stored without its time.           *)
StoredBundle(t) == bundle[t]

StoredEntry(t) == [tag |-> "entry", b |-> bundle[t], stamp |-> now, storedAfter |-> cleared]

(* _fetch_cached, the insertion under the lock, stamped with the time of   *)
(* the insertion.                                                          *)
Store(t) ==
    /\ pc[t] = "answered"
    /\ pc' = [pc EXCEPT ![t] = "ready"]
    /\ cache' = IF CacheEnabled
                THEN [cache EXCEPT ![user[t]][bundle[t].key] = StoredEntry(t)]
                ELSE cache
    /\ UNCHANGED <<now, db, wroteAt, user, bundle, wrote, cleared>>

-----------------------------------------------------------------------------
ChangeConfiguration ==
    /\ db < MaxVersion
    /\ db' = db + 1
    /\ wroteAt' = Append(wroteAt, now)

(* A create_* or update_* tool posts its payload once the references are   *)
(* validated; openITCOCKPIT applies it and answers 200.                    *)
Write(t) ==
    /\ pc[t] = "ready"
    /\ ChangeConfiguration
    /\ pc' = [pc EXCEPT ![t] = "written"]
    /\ wrote' = [wrote EXCEPT ![t] = db + 1]
    /\ UNCHANGED <<now, cache, user, bundle, cleared>>

(* The same write is applied, but its answer does not arrive in time: the  *)
(* tool raises OITCUnreachableError and never reaches scope.invalidate().  *)
WriteUnanswered(t) ==
    /\ pc[t] = "ready"
    /\ ChangeConfiguration
    /\ pc' = [pc EXCEPT ![t] = "idle"]
    /\ bundle' = [bundle EXCEPT ![t] = None]
    /\ UNCHANGED <<now, cache, user, wrote, cleared>>

(* A tool call that ends without a write: get_allowed_elements_for_        *)
(* container, a rejected reference, a write openITCOCKPIT refuses.         *)
Return(t) ==
    /\ pc[t] = "ready"
    /\ pc' = [pc EXCEPT ![t] = "idle"]
    /\ bundle' = [bundle EXCEPT ![t] = None]
    /\ UNCHANGED <<now, db, wroteAt, cache, user, wrote, cleared>>

Maximum(a, b) == IF a >= b THEN a ELSE b

(* Mutant of Invalidate: only the caller's own partition is cleared.       *)
InvalidateOwn(t) ==
    /\ pc[t] = "written"
    /\ pc' = [pc EXCEPT ![t] = "idle"]
    /\ cache' = [cache EXCEPT ![user[t]] = [k \in Keys |-> None]]
    /\ cleared' = Maximum(cleared, wrote[t])
    /\ bundle' = [bundle EXCEPT ![t] = None]
    /\ wrote' = [wrote EXCEPT ![t] = 0]
    /\ UNCHANGED <<now, db, wroteAt, user>>

(* scope.invalidate() after the successful write, then the tool returns.   *)
Invalidate(t) ==
    /\ pc[t] = "written"
    /\ pc' = [pc EXCEPT ![t] = "idle"]
    /\ cache' = [u \in Users |-> [k \in Keys |-> None]]
    /\ cleared' = Maximum(cleared, wrote[t])
    /\ bundle' = [bundle EXCEPT ![t] = None]
    /\ wrote' = [wrote EXCEPT ![t] = 0]
    /\ UNCHANGED <<now, db, wroteAt, user>>

(* delete_object, stop_monitoring and resume_monitoring change the         *)
(* configuration too.  They look nothing up in the scope cache, and they   *)
(* return without invalidating it.                                         *)
Delete(t) ==
    /\ pc[t] = "ready"
    /\ bundle[t] = None
    /\ ChangeConfiguration
    /\ pc' = [pc EXCEPT ![t] = "idle"]
    /\ UNCHANGED <<now, cache, user, bundle, wrote, cleared>>

(* Someone changes the configuration in openITCOCKPIT itself.              *)
ExternalChange ==
    /\ ChangeConfiguration
    /\ UNCHANGED <<now, cache, pc, user, bundle, wrote, cleared>>

(* A second passes.  No fetch stays under way for longer than RequestTime: *)
(* by then it was answered and stored, or the client's timeout ended it.   *)
Tick ==
    /\ now < MaxTime
    /\ \A t \in Threads : InFlight(t) => now - bundle[t].sent < RequestTime
    /\ now' = now + 1
    /\ UNCHANGED <<db, wroteAt, cache, pc, user, bundle, wrote, cleared>>

Next ==
    \/ \E t \in Threads :
        \/ \E u \in Users : StartCall(t, u)
        \/ \E k \in Keys : Hit(t, k) \/ Ask(t, k)
        \/ Answer(t)
        \/ FetchFails(t)
        \/ Store(t)
        \/ Write(t)
        \/ WriteUnanswered(t)
        \/ Return(t)
        \/ Invalidate(t)
        \/ Delete(t)
    \/ ExternalChange
    \/ Tick

Spec == Init /\ [][Next]_vars

-----------------------------------------------------------------------------
Entries == {cache[u][k] : u \in Users, k \in Keys} \ {None}

(* service.py: "a bundle fetched for one user is never served to another". *)
(* Every entry a user's lookup can find, and every bundle a call holds,    *)
(* was answered for that user, however calls of several users interleave.  *)
PartitionsApart ==
    /\ \A u \in Users : \A k \in Keys :
        cache[u][k] # None => cache[u][k].b.for = u /\ cache[u][k].b.key = k
    /\ \A t \in Threads : bundle[t] # None => bundle[t].for = user[t]

(* What a lookup may return misses only configuration changes younger than *)
(* the TTL plus the time its request took: the entry is stamped when it is *)
(* stored, but it shows the configuration of when it was answered.  This   *)
(* bounds every staleness below, the unanswered write and the delete too.  *)
StalenessBounded ==
    \A e \in Entries : Usable(e) =>
        \A v \in (e.b.ver + 1)..db : now - wroteAt[v] < TTL + RequestTime

(* scope.invalidate() leaves no entry of before it.  An entry that still   *)
(* misses an invalidated write was stored after the invalidation, from a   *)
(* request sent before it: only an overlapping fetch can bring one back.   *)
StaleOnlyFromOverlap ==
    \A e \in Entries : e.b.ver < cleared =>
        /\ e.storedAfter = cleared
        /\ e.b.floor < cleared

(* A write that has invalidated the cache is visible to every later        *)
(* lookup.  Holds while one call runs at a time, fails with overlap.       *)
ReadYourWrites == \A e \in Entries : e.b.ver >= cleared
=============================================================================
