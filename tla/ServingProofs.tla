---------------------------- MODULE ServingProofs ----------------------------
(***************************************************************************)
(* What TLC checks of the five components of MCServing on their small      *)
(* instances, proved for every value of the constants: the scope cache,    *)
(* the start of the server, the throwaway instance, what a call knows of   *)
(* its user, and the evaluation; last, their composition.  Each section    *)
(* has an inductive invariant, that it begins, that every step keeps it,   *)
(* and the properties that follow from it.                                 *)
(***************************************************************************)
EXTENDS MCServing, FiniteSetTheorems, SequenceTheorems, TLAPS

(* The scope cache.  Its properties speak of the cache alone.  An entry is *)
(* only as good as the fetch it was stored from, so the invariant has to   *)
(* speak of the bundles on their way to the cache as well.                 *)

(* A bundle misses only the configuration changes made since its request   *)
(* was sent.                                                               *)
Current(b) ==
    /\ b.sent <= now
    /\ b.ver <= db
    /\ \A v \in (b.ver + 1)..db : wroteAt[v] >= b.sent

(* A call that is fetching has a bundle under way, for at most RequestTime *)
(* seconds, asked for when the cache had been cleared up to its floor.     *)
Fetching(t) ==
    /\ bundle[t] # None
    /\ bundle[t].sent <= now
    /\ now - bundle[t].sent <= RequestTime
    /\ bundle[t].floor <= cleared

(* The bundle a call was answered, until it is stored.                     *)
Answered(t) ==
    /\ Current(bundle[t])
    /\ bundle[t].floor <= bundle[t].ver

(* An entry was stored from a fetch that took at most RequestTime, after   *)
(* the last invalidation.                                                  *)
Sound(e) ==
    /\ Current(e.b)
    /\ e.b.floor <= e.b.ver
    /\ e.stamp <= now
    /\ e.stamp - e.b.sent <= RequestTime
    /\ e.storedAfter = cleared

Counters ==
    /\ cleared <= db
    /\ \A t \in Threads : wrote[t] <= db

(* The inductive invariant: none of its conjuncts is inductive alone.      *)
IInv ==
    /\ TypeOK
    /\ PartitionsApart
    /\ Counters
    /\ \A t \in Threads : pc[t] = "idle" => bundle[t] = None
    /\ \A t \in Threads : InFlight(t) => Fetching(t)
    /\ \A t \in Threads : pc[t] = "answered" => Answered(t)
    /\ \A u \in Users, k \in Keys : cache[u][k] # None => Sound(cache[u][k])

USE TTLAssumption, RequestTimeAssumption, BoundsAssumption, CacheEnabledAssumption

-----------------------------------------------------------------------------
(* Every step but one leaves the configuration alone or makes a new        *)
(* version of it, now; the bundles that were fresh stay fresh.             *)
LEMMA CurrentStays ==
    ASSUME TypeOK, NEW b \in Bundle, Current(b), now' = now,
           ChangeConfiguration \/ UNCHANGED <<db, wroteAt>>
    PROVE  Current(b)'
<1> USE DEF Current
<1>1. CASE UNCHANGED <<db, wroteAt>>
  BY <1>1
<1>2. CASE ChangeConfiguration
  <2>1. /\ db \in Nat /\ now \in Nat /\ b.sent \in Nat /\ b.ver \in Nat
        /\ wroteAt \in Seq(Nat) /\ Len(wroteAt) = db
    BY DEF TypeOK, Bundle
  <2>2. db' = db + 1 /\ wroteAt' = Append(wroteAt, now)
    BY <1>2 DEF ChangeConfiguration
  <2>3. ASSUME NEW v \in (b.ver + 1)..db' PROVE wroteAt'[v] >= b.sent
    <3>1. CASE v = db + 1
      BY <2>1, <2>2, <3>1
    <3>2. CASE v # db + 1
      <4>1. v \in (b.ver + 1)..db /\ v \in 1..Len(wroteAt)
        BY <2>1, <2>2, <3>2
      <4> QED
        BY <2>1, <2>2, <4>1
    <3> QED
      BY <3>1, <3>2
  <2> QED
    BY <2>1, <2>2, <2>3
<1> QED
  BY <1>1, <1>2

(* The inductive invariant holds at the start.                             *)
LEMMA InvariantInit == Init => IInv
<1> SUFFICES ASSUME Init PROVE IInv
  OBVIOUS
<1> USE DEF Init
<1>1. TypeOK
  BY DEF TypeOK, PCs
<1>2. \A u \in Users, k \in Keys : cache[u][k] = None
  OBVIOUS
<1>3. \A t \in Threads : bundle[t] = None /\ pc[t] = "idle" /\ wrote[t] = 0
  OBVIOUS
<1>4. PartitionsApart /\ Counters
  BY <1>2, <1>3 DEF PartitionsApart, Counters
<1> QED
  BY <1>1, <1>2, <1>3, <1>4 DEF IInv, InFlight

(* An action that leaves cache, cleared and the fetches of other threads   *)
(* alone and makes at most a new version: thread t is idle, ready or       *)
(* written afterwards, with a bundle it may hold for its user.             *)
LEMMA QuietStep ==
    ASSUME IInv, TypeOK', NEW t \in Threads,
           now' = now, cache' = cache, cleared' = cleared,
           ChangeConfiguration \/ UNCHANGED <<db, wroteAt>>,
           ~InFlight(t)',
           pc'[t] = "idle" => bundle'[t] = None,
           bundle'[t] # None => bundle'[t].for = user'[t],
           wrote'[t] <= db',
           \A s \in Threads \ {t} :
              pc'[s] = pc[s] /\ bundle'[s] = bundle[s] /\ user'[s] = user[s] /\ wrote'[s] = wrote[s]
    PROVE  IInv'
<1> USE DEF IInv
<1>1. PartitionsApart'
  BY DEF PartitionsApart
<1>2. db \in Nat /\ db' \in Nat /\ db <= db'
  BY DEF TypeOK, ChangeConfiguration
<1>3. Counters'
  <2>1. ASSUME NEW s \in Threads PROVE wrote'[s] <= db'
    <3>1. wrote[s] \in Nat /\ wrote[s] <= db
      BY DEF Counters, TypeOK
    <3> QED
      BY <1>2, <3>1
  <2>2. cleared \in Nat /\ cleared <= db
    BY DEF Counters, TypeOK
  <2> QED
    BY <1>2, <2>1, <2>2 DEF Counters
<1>4. \A s \in Threads : InFlight(s)' => Fetching(s)'
  BY DEF InFlight, Fetching
<1>5. ASSUME NEW s \in Threads, pc'[s] = "answered" PROVE Answered(s)'
  <2>1. s # t /\ pc[s] = "answered" /\ bundle'[s] = bundle[s]
    BY <1>5 DEF InFlight
  <2>2. bundle[s] \in Bundle /\ Answered(s)
    BY <2>1 DEF InFlight, Fetching, TypeOK
  <2>3. Current(bundle[s])'
    BY <2>1, <2>2, CurrentStays DEF Answered, Current
  <2> QED
    BY <2>1, <2>2, <2>3 DEF Answered, Current
<1>6. ASSUME NEW u \in Users, NEW k \in Keys, cache'[u][k] # None
      PROVE  Sound(cache[u][k])'
  <2>1. cache[u][k] \in Entry /\ cache[u][k].b \in Bundle /\ Sound(cache[u][k])
    BY <1>6 DEF TypeOK, Entry
  <2>2. Current(cache[u][k].b)'
    BY <2>1, CurrentStays DEF Sound, Current
  <2> QED
    BY <2>1, <2>2 DEF Sound, Current
<1> QED
  BY <1>1, <1>3, <1>4, <1>5, <1>6 DEF Sound, Current

(* The steps of one action each.  All but three of a call's actions are    *)
(* quiet.                                                                  *)
LEMMA InvariantNext == IInv /\ [Next]_vars => IInv'
<1> SUFFICES ASSUME IInv, [Next]_vars PROVE IInv'
  OBVIOUS
<1> USE DEF IInv
<1>0. TypeOK
  OBVIOUS
<1>1. CASE UNCHANGED vars
  BY <1>1 DEF vars, TypeOK, PCs, PartitionsApart, Counters, InFlight, Fetching, Answered, Sound, Current
<1>2. ASSUME NEW t \in Threads, NEW u \in Users, StartCall(t, u) PROVE IInv'
  <2>1. TypeOK'
    BY <1>2 DEF StartCall, TypeOK, PCs
  <2> QED
    BY <1>2, <2>1, QuietStep DEF StartCall, TypeOK, InFlight, Counters
<1>3. ASSUME NEW t \in Threads, NEW k \in Keys, Hit(t, k) PROVE IInv'
  <2>1. user[t] \in Users /\ cache[user[t]][k] \in Entry /\ cache[user[t]][k].b \in Bundle
    BY <1>3 DEF Hit, Usable, TypeOK, Entry
  <2>2. TypeOK'
    BY <1>3, <2>1 DEF Hit, TypeOK
  <2>3. cache[user[t]][k].b.for = user[t]
    BY <1>3, <2>1 DEF Hit, Usable, PartitionsApart
  <2> QED
    BY <1>3, <2>2, <2>3, QuietStep DEF Hit, TypeOK, InFlight, Counters
<1>4. ASSUME NEW t \in Threads, NEW k \in Keys, Ask(t, k) PROVE IInv'
  <2>1. TypeOK'
    BY <1>4 DEF Ask, TypeOK, PCs, Bundle
  <2>2. PartitionsApart'
    BY <1>4 DEF Ask, TypeOK, PartitionsApart
  <2>3. Counters'
    BY <1>4 DEF Ask, Counters
  <2>4. \A s \in Threads : InFlight(s)' => Fetching(s)'
    BY <1>4 DEF Ask, TypeOK, InFlight, Fetching, None
  <2>5. \A s \in Threads : pc'[s] = "answered" => Answered(s)'
    BY <1>4 DEF Ask, TypeOK, Answered, Current
  <2>6. \A v \in Users, l \in Keys : cache'[v][l] # None => Sound(cache[v][l])'
    BY <1>4 DEF Ask, Sound, Current
  <2> QED
    BY <1>4, <2>1, <2>2, <2>3, <2>4, <2>5, <2>6 DEF Ask, TypeOK
<1>5. ASSUME NEW t \in Threads, Answer(t) PROVE IInv'
  <2>0. bundle[t] \in Bundle /\ Fetching(t)
    BY <1>5 DEF Answer, TypeOK, InFlight, Fetching
  <2>1. TypeOK'
    BY <1>5, <2>0 DEF Answer, TypeOK, PCs, Bundle
  <2>2. PartitionsApart'
    <3>1. bundle'[t].for = user[t]
      <4>1. bundle[t].for = user[t]
        BY <2>0 DEF PartitionsApart, Fetching
      <4>2. bundle' = [bundle EXCEPT ![t] = [bundle[t] EXCEPT !.ver = db]]
        BY <1>5 DEF Answer
      <4>3. bundle'[t] = [bundle[t] EXCEPT !.ver = db]
        BY <4>2 DEF TypeOK
      <4> QED
        BY <2>0, <4>1, <4>3 DEF Bundle
    <3>2. ASSUME NEW s \in Threads, s # t PROVE bundle'[s] = bundle[s]
      BY <1>5, <3>2 DEF Answer, TypeOK
    <3> QED
      BY <1>5, <3>1, <3>2 DEF Answer, PartitionsApart
  <2>3. Counters'
    BY <1>5 DEF Answer, Counters
  <2>4. \A s \in Threads : InFlight(s)' => Fetching(s)'
    BY <1>5, <2>0 DEF Answer, TypeOK, InFlight, Fetching, None, Bundle
  <2>5. \A s \in Threads : pc'[s] = "answered" => Answered(s)'
    <3>1. ASSUME NEW s \in Threads, pc'[s] = "answered", s # t PROVE Answered(s)'
      BY <1>5, <3>1 DEF Answer, TypeOK, Answered, Current
    <3>2. Answered(t)'
      BY <1>5, <2>0 DEF Answer, TypeOK, Answered, Current, Fetching, Counters, Bundle
    <3> QED
      BY <3>1, <3>2
  <2>6. \A v \in Users, l \in Keys : cache'[v][l] # None => Sound(cache[v][l])'
    BY <1>5 DEF Answer, Sound, Current
  <2> QED
    BY <1>5, <2>1, <2>2, <2>3, <2>4, <2>5, <2>6 DEF Answer, TypeOK
<1>6. ASSUME NEW t \in Threads, FetchFails(t) PROVE IInv'
  <2>1. TypeOK'
    BY <1>6 DEF FetchFails, TypeOK, PCs
  <2> QED
    BY <1>6, <2>1, QuietStep DEF FetchFails, TypeOK, InFlight, Counters
<1>7. ASSUME NEW t \in Threads, Store(t) PROVE IInv'
  <2>0. /\ bundle[t] \in Bundle /\ Fetching(t) /\ Answered(t)
        /\ user[t] \in Users /\ bundle[t].for = user[t] /\ bundle[t].key \in Keys
    BY <1>7 DEF Store, TypeOK, InFlight, Fetching, PartitionsApart, Bundle
  <2>1. StoredEntry(t) \in Entry
    BY <2>0 DEF StoredEntry, Entry, TypeOK
  <2>2. ASSUME NEW v \in Users, NEW l \in Keys
        PROVE  \/ cache'[v][l] = cache[v][l]
               \/ v = user[t] /\ l = bundle[t].key /\ cache'[v][l] = StoredEntry(t)
    BY <1>7, <2>0 DEF Store, TypeOK
  <2>3. TypeOK'
    BY <1>7, <2>0, <2>1 DEF Store, TypeOK, PCs
  <2>4. PartitionsApart'
    BY <1>7, <2>0, <2>2 DEF Store, PartitionsApart, StoredEntry
  <2>5. Counters'
    BY <1>7 DEF Store, Counters
  <2>6. \A s \in Threads : InFlight(s)' => Fetching(s)'
    BY <1>7 DEF Store, TypeOK, InFlight, Fetching
  <2>7. \A s \in Threads : pc'[s] = "answered" => Answered(s)'
    BY <1>7 DEF Store, TypeOK, Answered, Current
  <2>8. ASSUME NEW v \in Users, NEW l \in Keys, cache'[v][l] # None PROVE Sound(cache[v][l])'
    <3>1. Sound(StoredEntry(t))
      BY <2>0 DEF Sound, StoredEntry, Answered, Fetching, TypeOK
    <3>2. Sound(cache'[v][l])
      BY <2>2, <2>8, <3>1
    <3> QED
      BY <1>7, <3>2 DEF Store, Sound, Current
  <2> QED
    BY <1>7, <2>3, <2>4, <2>5, <2>6, <2>7, <2>8 DEF Store, TypeOK
<1>8. ASSUME NEW t \in Threads, Write(t) PROVE IInv'
  <2>1. TypeOK'
    BY <1>8 DEF Write, ChangeConfiguration, TypeOK, PCs
  <2>2. wrote'[t] <= db'
    BY <1>8 DEF Write, ChangeConfiguration, TypeOK
  <2> QED
    BY <1>8, <2>1, <2>2, QuietStep DEF Write, TypeOK, InFlight, PartitionsApart
<1>9. ASSUME NEW t \in Threads, WriteUnanswered(t) PROVE IInv'
  <2>1. TypeOK'
    BY <1>9 DEF WriteUnanswered, ChangeConfiguration, TypeOK, PCs
  <2>2. wrote'[t] <= db'
    BY <1>9 DEF WriteUnanswered, ChangeConfiguration, TypeOK, Counters
  <2> QED
    BY <1>9, <2>1, <2>2, QuietStep DEF WriteUnanswered, TypeOK, InFlight
<1>10. ASSUME NEW t \in Threads, Return(t) PROVE IInv'
  <2>1. TypeOK'
    BY <1>10 DEF Return, TypeOK, PCs
  <2> QED
    BY <1>10, <2>1, QuietStep DEF Return, TypeOK, InFlight, Counters
<1>11. ASSUME NEW t \in Threads, Invalidate(t) PROVE IInv'
  <2>0. /\ cleared \in Nat /\ cleared' \in Nat /\ wrote[t] \in Nat
        /\ cleared <= cleared' /\ cleared' <= db
    BY <1>11 DEF Invalidate, Maximum, TypeOK, Counters
  <2>1. TypeOK'
    BY <1>11 DEF Invalidate, Maximum, TypeOK, PCs
  <2>2. \A u \in Users, k \in Keys : cache'[u][k] = None
    BY <1>11 DEF Invalidate
  <2>3. PartitionsApart'
    BY <1>11, <2>2 DEF Invalidate, PartitionsApart, TypeOK
  <2>4. Counters'
    BY <1>11, <2>0 DEF Invalidate, Counters, TypeOK
  <2>5. \A s \in Threads : InFlight(s)' => Fetching(s)'
    <3>1. ASSUME NEW s \in Threads, InFlight(s)' PROVE Fetching(s)'
      <4>1. s # t /\ InFlight(s) /\ bundle'[s] = bundle[s]
        BY <1>11, <3>1 DEF Invalidate, TypeOK, InFlight
      <4>2. bundle[s] \in Bundle /\ bundle[s].floor \in Nat /\ Fetching(s)
        BY <4>1 DEF TypeOK, Fetching, Bundle
      <4> QED
        <5>1. bundle[s].floor <= cleared'
          BY <2>0, <4>2 DEF Fetching
        <5> QED
          BY <1>11, <4>1, <4>2, <5>1 DEF Invalidate, Fetching
    <3> QED
      BY <3>1
  <2>6. \A s \in Threads : pc'[s] = "answered" => Answered(s)'
    BY <1>11 DEF Invalidate, TypeOK, Answered, Current
  <2>7. \A s \in Threads : pc'[s] = "idle" => bundle'[s] = None
    BY <1>11 DEF Invalidate, TypeOK
  <2> QED
    BY <2>1, <2>2, <2>3, <2>4, <2>5, <2>6, <2>7
<1>12. ASSUME NEW t \in Threads, Delete(t) PROVE IInv'
  <2>1. TypeOK'
    BY <1>12 DEF Delete, ChangeConfiguration, TypeOK, PCs
  <2>2. wrote'[t] <= db'
    BY <1>12 DEF Delete, ChangeConfiguration, TypeOK, Counters
  <2> QED
    BY <1>12, <2>1, <2>2, QuietStep DEF Delete, TypeOK, InFlight, PartitionsApart
<1>13. CASE ExternalChange
  <2>0. db' = db + 1 /\ db \in Nat
    BY <1>13 DEF ExternalChange, ChangeConfiguration, TypeOK
  <2>1. TypeOK'
    BY <1>13 DEF ExternalChange, ChangeConfiguration, TypeOK
  <2>2. PartitionsApart'
    BY <1>13 DEF ExternalChange, PartitionsApart
  <2>3. Counters'
    BY <1>13, <2>0 DEF ExternalChange, Counters, TypeOK
  <2>4. \A s \in Threads : InFlight(s)' => Fetching(s)'
    BY <1>13 DEF ExternalChange, InFlight, Fetching
  <2>5. ASSUME NEW s \in Threads, pc'[s] = "answered" PROVE Answered(s)'
    <3>1. bundle[s] \in Bundle /\ Answered(s) /\ bundle'[s] = bundle[s]
      BY <1>13, <2>5 DEF ExternalChange, InFlight, Fetching, TypeOK
    <3>2. Current(bundle[s])'
      BY <1>13, <3>1, <1>0, CurrentStays DEF ExternalChange, Answered, Current
    <3> QED
      BY <3>1, <3>2 DEF Answered, Current
  <2>6. ASSUME NEW u \in Users, NEW k \in Keys, cache'[u][k] # None PROVE Sound(cache[u][k])'
    <3>1. cache'[u][k] = cache[u][k] /\ cache[u][k].b \in Bundle /\ Sound(cache[u][k])
      BY <1>13, <2>6 DEF ExternalChange, TypeOK, Entry
    <3>2. Current(cache[u][k].b)'
      BY <1>13, <3>1, <1>0, CurrentStays DEF ExternalChange, Sound, Current
    <3> QED
      BY <1>13, <3>1, <3>2 DEF ExternalChange, Sound, Current
  <2> QED
    BY <1>13, <2>1, <2>2, <2>3, <2>4, <2>5, <2>6 DEF ExternalChange
<1>14. CASE Tick
  <2>0. now' = now + 1 /\ now \in Nat
    BY <1>14 DEF Tick, TypeOK
  <2>1. TypeOK'
    BY <1>14, <2>0 DEF Tick, TypeOK
  <2>2. PartitionsApart' /\ Counters'
    BY <1>14 DEF Tick, PartitionsApart, Counters
  <2>3. ASSUME NEW s \in Threads, InFlight(s)' PROVE Fetching(s)'
    <3>1. InFlight(s) /\ bundle[s] \in Bundle /\ now - bundle[s].sent < RequestTime
      BY <1>14, <2>3 DEF Tick, InFlight, TypeOK, Fetching
    <3> QED
      BY <1>14, <2>0, <3>1 DEF Tick, Fetching, Bundle
  <2>4. ASSUME NEW s \in Threads, pc'[s] = "answered" PROVE Answered(s)'
    <3>1. bundle[s] \in Bundle /\ Answered(s)
      BY <1>14, <2>4 DEF Tick, InFlight, TypeOK, Fetching
    <3> QED
      BY <1>14, <2>0, <3>1 DEF Tick, Answered, Current, Bundle
  <2>5. ASSUME NEW u \in Users, NEW k \in Keys, cache'[u][k] # None PROVE Sound(cache[u][k])'
    <3>1. cache[u][k] \in Entry /\ cache[u][k].b \in Bundle /\ Sound(cache[u][k])
      BY <1>14, <2>5 DEF Tick, TypeOK, Entry
    <3> QED
      BY <1>14, <2>0, <3>1 DEF Tick, Sound, Current, Entry, Bundle
  <2> QED
    BY <1>14, <2>1, <2>2, <2>3, <2>4, <2>5 DEF Tick
<1> QED
  BY <1>1, <1>2, <1>3, <1>4, <1>5, <1>6, <1>7, <1>8, <1>9, <1>10, <1>11, <1>12, <1>13, <1>14 DEF Next

(* IInv holds of every reachable state.                                    *)
THEOREM Invariance == Spec => []IInv
  BY InvariantInit, InvariantNext, PTL DEF Spec

-----------------------------------------------------------------------------
(* Every value a call sees in the shared state has its type.               *)
THEOREM TypeCorrect == Spec => []TypeOK
  BY Invariance, PTL DEF IInv

(* service.py's docstring: "a bundle fetched for one user is never served  *)
(* to another", for every number of users, threads and cache keys.         *)
THEOREM PartitionsStayApart == Spec => []PartitionsApart
  BY Invariance, PTL DEF IInv

(* No lookup misses a change that is older than TTL + RequestTime.  The    *)
(* entry's age counts from its insertion and what it misses from its       *)
(* request, so the request's own time has to be added to the TTL.          *)
THEOREM StalenessIsBounded == Spec => []StalenessBounded
<1>1. IInv => StalenessBounded
  <2> SUFFICES ASSUME IInv, NEW u \in Users, NEW k \in Keys,
                      cache[u][k] # None, Usable(cache[u][k]),
                      NEW v \in (cache[u][k].b.ver + 1)..db
               PROVE  now - wroteAt[v] < TTL + RequestTime
    BY DEF StalenessBounded, Entries
  <2> DEFINE e == cache[u][k]
  <2>1. /\ e \in Entry /\ Sound(e) /\ now \in Nat /\ db \in Nat
        /\ wroteAt \in Seq(Nat) /\ Len(wroteAt) = db
    BY DEF IInv, TypeOK
  <2>2. e.b.sent \in Nat /\ e.stamp \in Nat /\ e.b.ver \in Nat
    BY <2>1 DEF Entry, Bundle
  <2>3. wroteAt[v] \in Nat /\ e.b.sent <= wroteAt[v]
    BY <2>1, <2>2 DEF Sound, Current
  <2>4. now - e.stamp < TTL /\ e.stamp - e.b.sent <= RequestTime
    BY <2>1 DEF Usable, Sound
  <2> HIDE DEF e
  <2> QED
    BY <2>1, <2>2, <2>3, <2>4
<1> QED
  BY <1>1, Invariance, PTL

(* scope.invalidate() works: an entry that misses an invalidated write was *)
(* asked for before the invalidation and stored after it.                  *)
THEOREM StalenessNeedsOverlap == Spec => []StaleOnlyFromOverlap
<1>1. IInv => StaleOnlyFromOverlap
  <2> SUFFICES ASSUME IInv, NEW u \in Users, NEW k \in Keys,
                      cache[u][k] # None, cache[u][k].b.ver < cleared
               PROVE  cache[u][k].storedAfter = cleared /\ cache[u][k].b.floor < cleared
    BY DEF StaleOnlyFromOverlap, Entries
  <2>1. cache[u][k] \in Entry /\ Sound(cache[u][k]) /\ cleared \in Nat
    BY DEF IInv, TypeOK
  <2> QED
    BY <2>1 DEF Sound, Entry, Bundle
<1> QED
  BY <1>1, Invariance, PTL

-----------------------------------------------------------------------------
(* One call at a time: a fetch cannot be overtaken by an invalidation.     *)
OneAtATime == \A s, t \in Threads : s = t

(* What one thread can rely on: its fetch was sent after every             *)
(* invalidation so far, and no entry is older than the last one.           *)
UpToDate ==
    /\ \A t \in Threads : InFlight(t) => bundle[t].floor = cleared
    /\ ReadYourWrites

(* With one thread every step keeps the cache up to date.                  *)
LEMMA UpToDateNext == OneAtATime /\ IInv /\ UpToDate /\ [Next]_vars => UpToDate'
<1> SUFFICES ASSUME OneAtATime, IInv, UpToDate, [Next]_vars PROVE UpToDate'
  OBVIOUS
<1> USE DEF OneAtATime, UpToDate
<1>0. TypeOK
  BY DEF IInv
<1> USE DEF TypeOK
<1> DEFINE Sees == \A u \in Users, k \in Keys : cache[u][k] # None => cache[u][k].b.ver >= cleared
<1>e. ReadYourWrites <=> Sees
  BY DEF ReadYourWrites, Entries
<1>p. ReadYourWrites' <=> Sees'
  BY DEF ReadYourWrites, Entries
<1>1. CASE UNCHANGED vars
  BY <1>0, <1>1, <1>e, <1>p DEF vars, InFlight
<1>2. ASSUME NEW t \in Threads, NEW u \in Users, StartCall(t, u) PROVE UpToDate'
  BY <1>0, <1>2, <1>e, <1>p DEF StartCall, InFlight
<1>3. ASSUME NEW t \in Threads, NEW k \in Keys, Hit(t, k) PROVE UpToDate'
  BY <1>0, <1>3, <1>e, <1>p DEF Hit, InFlight
<1>4. ASSUME NEW t \in Threads, NEW k \in Keys, Ask(t, k) PROVE UpToDate'
  BY <1>0, <1>4, <1>e, <1>p DEF Ask, InFlight
<1>5. ASSUME NEW t \in Threads, Answer(t) PROVE UpToDate'
  <2>1. bundle[t] \in Bundle /\ bundle[t].floor = cleared
    BY <1>0, <1>5 DEF Answer, InFlight, IInv, Fetching
  <2>2. bundle' = [bundle EXCEPT ![t] = [bundle[t] EXCEPT !.ver = db]]
    BY <1>5 DEF Answer
  <2>3. bundle'[t].floor = cleared
    BY <1>0, <2>1, <2>2 DEF Bundle
  <2>4. \A s \in Threads : bundle'[s].floor = cleared'
    BY <1>5, <2>3 DEF Answer
  <2> QED
    BY <1>5, <2>4, <1>e, <1>p DEF Answer
<1>6. ASSUME NEW t \in Threads, FetchFails(t) PROVE UpToDate'
  BY <1>0, <1>6, <1>e, <1>p DEF FetchFails, InFlight
<1>7. ASSUME NEW t \in Threads, Store(t) PROVE UpToDate'
  <2>1. bundle[t].ver >= cleared
    BY <1>0, <1>7 DEF Store, InFlight, IInv, Answered, Bundle
  <2>2. \A s \in Threads : ~InFlight(s)'
    BY <1>0, <1>7 DEF Store, InFlight
  <2>3. user[t] \in Users /\ cleared' = cleared
    BY <1>0, <1>7 DEF Store
  <2>4. ASSUME NEW v \in Users, NEW l \in Keys
        PROVE  cache'[v][l] = cache[v][l] \/ cache'[v][l] = StoredEntry(t)
    BY <1>0, <1>7, <2>3 DEF Store
  <2>5. StoredEntry(t).b.ver >= cleared
    BY <2>1 DEF StoredEntry
  <2> QED
    BY <2>2, <2>3, <2>4, <2>5, <1>e, <1>p
<1>8. ASSUME NEW t \in Threads, Write(t) PROVE UpToDate'
  BY <1>0, <1>8, <1>e, <1>p DEF Write, InFlight
<1>9. ASSUME NEW t \in Threads, WriteUnanswered(t) PROVE UpToDate'
  BY <1>0, <1>9, <1>e, <1>p DEF WriteUnanswered, InFlight
<1>10. ASSUME NEW t \in Threads, Return(t) PROVE UpToDate'
  BY <1>0, <1>10, <1>e, <1>p DEF Return, InFlight
<1>11. ASSUME NEW t \in Threads, Invalidate(t) PROVE UpToDate'
  <2>1. \A s \in Threads : ~InFlight(s)'
    BY <1>0, <1>11 DEF Invalidate, InFlight
  <2>2. \A u \in Users, k \in Keys : cache'[u][k] = None
    BY <1>11 DEF Invalidate
  <2> QED
    BY <2>1, <2>2, <1>p
<1>12. ASSUME NEW t \in Threads, Delete(t) PROVE UpToDate'
  BY <1>0, <1>12, <1>e, <1>p DEF Delete, InFlight
<1>13. CASE ExternalChange
  BY <1>0, <1>13, <1>e, <1>p DEF ExternalChange, InFlight
<1>14. CASE Tick
  BY <1>0, <1>14, <1>e, <1>p DEF Tick, InFlight
<1> QED
  BY <1>1, <1>2, <1>3, <1>4, <1>5, <1>6, <1>7, <1>8, <1>9, <1>10, <1>11, <1>12, <1>13, <1>14 DEF Next

(* With one worker thread, a write that invalidated the cache is seen by   *)
(* every later lookup, of every user.  The server has more than one.       *)
THEOREM SerialReadsItsWrites == OneAtATime => (Spec => []ReadYourWrites)
<1> SUFFICES ASSUME OneAtATime PROVE Spec => []ReadYourWrites
  OBVIOUS
<1>1. Init => UpToDate
  <2> SUFFICES ASSUME Init PROVE UpToDate
    OBVIOUS
  <2>1. \A u \in Users, k \in Keys : cache[u][k] = None
    BY DEF Init
  <2> QED
    BY <2>1 DEF Init, UpToDate, InFlight, ReadYourWrites, Entries
<1>2. IInv /\ UpToDate /\ [Next]_vars => UpToDate'
  BY UpToDateNext
<1>3. UpToDate => ReadYourWrites
  BY DEF UpToDate
<1> QED
  BY <1>1, <1>2, <1>3, Invariance, PTL DEF Spec


-----------------------------------------------------------------------------
(* ServerStart.  Whatever is edited meanwhile, what is registered stays     *)
(* behind the gate; and what was read from the files still stands there    *)
(* unless they were edited.                                                 *)

Files == [sets : Readable \cup {NoSets}, open : BOOLEAN, own : BOOLEAN, style : Styles]
Passes == IF conf.gate THEN Tools ELSE ReadTools
Resolved == {"register", "guides", "narrow", "count", "serving"}

(* The names a selection may be of once it was checked.                     *)
Known(names) == conf.selection \subseteq {All} \cup names \cup Tools

StartShape ==
    /\ StartTypeOK /\ disk \in Files
    /\ at \in Resolved \cup {"resolve"} => Known(SetNames)
    /\ at \in {"guides", "narrow", "count", "serving"} => tools \subseteq Passes
    /\ at \in {"narrow", "count", "serving"} =>
          Always \subseteq guides /\ (guides \cap NeedsWriteTools # {} => conf.gate)
    /\ at = "serving" => tools # {}

(* What the steps so far found, as long as nobody edits.                    *)
AsRead ==
    /\ at = "validate" \/ at = "probe" => sets = disk.sets
    /\ at \in Resolved \cup {"probe", "validate", "resolve"} => Loads
    /\ at \in Resolved \cup {"validate", "resolve"} => disk.style \in {"unset", "there"}
    /\ at \in Resolved \cup {"resolve"} => Known(DOMAIN disk.sets)
    /\ at \in Resolved => keep = Selected(disk.sets)
    /\ at \in {"guides", "narrow"} => tools = Passes
    /\ at \in {"count", "serving"} => tools = (IF keep = {All} THEN Passes ELSE Passes \cap keep)
    /\ at = "traceback" =>
          ~disk.open \/ disk.style = "locked" \/ (~disk.own /\ OwnGuide \in Wanted(disk.sets))

(* The inductive invariant.                                                 *)
StartInv == StartShape /\ (edits = 0 => AsRead)

(* What a toolsets file holds.                                              *)
LEMMA FileIs ==
    ASSUME NEW file \in Readable \cup {NoSets}
    PROVE  /\ DOMAIN file \subseteq SetNames
           /\ \A s \in DOMAIN file : /\ file[s].tools \subseteq Tools \cup {Typo}
                                     /\ file[s].guides \subseteq Shipped \cup {OwnGuide}
<1>1. CASE file = Packaged
  BY <1>1 DEF Packaged, Shipped
<1>2. CASE file = NoSets
  BY <1>2 DEF NoSets
<1>3. CASE file \in UNION {[{s} -> Toolset] : s \in SetNames}
  <2>1. PICK s \in SetNames : file \in [{s} -> Toolset]
    BY <1>3
  <2>2. DOMAIN file = {s} /\ file[s] \in Toolset
    BY <2>1
  <2>3. file[s].tools \subseteq Tools \cup {Typo} /\ file[s].guides \in {NeedsWriteTools, {"role", OwnGuide}}
    BY <2>2 DEF Toolset
  <2> QED
    BY <2>2, <2>3 DEF Shipped, Roles
<1> QED
  BY <1>1, <1>2, <1>3 DEF Readable

(* What is wanted of a file is a guide, the capabilities among it.          *)
LEMMA WantedIs ==
    ASSUME NEW file \in Readable \cup {NoSets}
    PROVE  Wanted(file) \subseteq Shipped \cup {OwnGuide} /\ Always \subseteq Wanted(file)
BY FileIs DEF Wanted, Active, Shipped, Roles, Always

(* What is selected by a selection that was checked.                        *)
LEMMA SelectedIs ==
    ASSUME NEW file \in Readable \cup {NoSets}, Known(SetNames)
    PROVE  /\ Selected(file) \subseteq Tools \cup {All, Typo} \cup SetNames
           /\ (Selected(file) = {All}) \/ (All \notin Selected(file))
           /\ \A t \in Tools : (Selected(file) = {All} \/ t \in Selected(file)) <=>
                 \/ {All, t} \cap conf.selection # {}
                 \/ \E s \in DOMAIN file \cap conf.selection : t \in file[s].tools
<1>1. /\ DOMAIN file \subseteq SetNames
      /\ \A s \in DOMAIN file : file[s].tools \subseteq Tools \cup {Typo}
  BY FileIs
<1>2. CASE All \in conf.selection
  BY <1>2 DEF Selected
<1>3. CASE All \notin conf.selection
  <2>1. Selected(file) = UNION {IF p \in DOMAIN file THEN file[p].tools ELSE {p} : p \in conf.selection}
    BY <1>3 DEF Selected
  <2>2. All \notin Tools /\ All # Typo
    BY KeywordsAssumption DEF All, Typo
  <2>3. ASSUME NEW x
        PROVE  x \in Selected(file) <=> \E p \in conf.selection : IF p \in DOMAIN file THEN x \in file[p].tools ELSE x = p
    BY <2>1
  <2>4. All \notin Selected(file) /\ Selected(file) \subseteq Tools \cup {All, Typo} \cup SetNames
    BY <1>1, <1>3, <2>2, <2>3 DEF Known
  <2>5. ASSUME NEW t \in Tools
        PROVE  t \in Selected(file) <=> \/ t \in conf.selection
                                        \/ \E s \in DOMAIN file \cap conf.selection : t \in file[s].tools
    <3>1. t \notin DOMAIN file
      BY <1>1, ToolsAssumption
    <3> QED
      BY <2>3, <3>1
  <2> QED
    BY <1>3, <2>4, <2>5
<1> QED
  BY <1>2, <1>3

(* A start begins with nothing read and nothing registered.                *)
LEMMA StartBegins == StartInit => StartInv
<1> SUFFICES ASSUME StartInit PROVE StartInv
  OBVIOUS
<1>1. StartTypeOK /\ disk \in Files
  BY SelectionsAssumption DEF StartInit, StartTypeOK, Files
<1> QED
  BY <1>1 DEF StartInit, StartInv, StartShape, AsRead, Resolved

(* The operator edits: nothing but the files changes.                       *)
LEMMA EditKeeps == StartInv /\ Edit => StartInv'
<1> SUFFICES ASSUME StartInv, Edit PROVE StartInv'
  OBVIOUS
<1>1. UNCHANGED <<at, conf, sets, keep, tools, guides>> /\ edits' = edits + 1 /\ edits' \in 0..MaxEdits /\ edits' # 0
  BY SelectionsAssumption DEF Edit, StartInv, StartShape, StartTypeOK
<1>2. disk' \in Files
  <2>1. CASE \E s \in SetNames, body \in Toolset : disk' = [disk EXCEPT !.sets = [n \in {s} |-> body]]
    <3>1. PICK s \in SetNames, body \in Toolset : disk' = [disk EXCEPT !.sets = [n \in {s} |-> body]]
      BY <2>1
    <3>2. [n \in {s} |-> body] \in Readable
      BY DEF Readable
    <3> QED
      BY <3>1, <3>2 DEF StartInv, StartShape, Files
  <2>2. CASE disk' = [disk EXCEPT !.sets = NoSets] \/ disk' = [disk EXCEPT !.own = FALSE]
             \/ disk' = [disk EXCEPT !.open = FALSE]
    BY <2>2 DEF StartInv, StartShape, Files
  <2>3. CASE \E s \in {"gone", "locked"} : disk' = [disk EXCEPT !.style = s]
    BY <2>3 DEF StartInv, StartShape, Files, Styles
  <2> QED
    BY <2>1, <2>2, <2>3 DEF Edit
<1> QED
  BY <1>1, <1>2 DEF StartInv, StartShape, StartTypeOK, Files, Known, Passes, Resolved

(* Every step of a start keeps the invariant.                              *)
LEMMA StartKeeps == StartInv /\ [StartNext]_startVars => StartInv'
<1> SUFFICES ASSUME StartInv, [StartNext]_startVars PROVE StartInv'
  OBVIOUS
<1> USE DEF StartInv, StartShape, StartTypeOK, Resolved, Known, Passes, Loads, Misshapen, Styles, GoOn, Exit
<1>0. UNCHANGED <<conf, disk>> => /\ Selected(disk.sets)' = Selected(disk.sets)
                                   /\ Wanted(disk.sets)' = Wanted(disk.sets)
  BY DEF Selected, Wanted, Active
<1>1. CASE Edit
  BY <1>1, EditKeeps
<1>2. ASSUME NEW c \in Credentials, LoadSettings(c) PROVE StartInv'
  BY <1>2 DEF LoadSettings, AsRead
<1>3. CASE LoadFile
  BY <1>3 DEF LoadFile, AsRead, Files
<1>4. CASE Probe
  BY <1>4 DEF Probe, AsRead
<1>5. CASE Validate
  <2>1. Known(DOMAIN sets) => Known(SetNames)
    BY FileIs
  <2> QED
    BY <1>5, <2>1 DEF Validate, AsRead, NoSets
<1>6. CASE Resolve
  <2>1. disk.sets \in Readable \cup {NoSets}
    BY DEF Files
  <2>2. Known(SetNames) => Selected(disk.sets) \subseteq Tools \cup {All, Typo} \cup SetNames
    BY <2>1, SelectedIs
  <2> QED
    BY <1>0, <1>6, <2>2 DEF Resolve, AsRead
<1>7. CASE Register
  BY <1>0, <1>7 DEF Register, Registered, AsRead, Tools
<1>8. CASE RegisterGuides
  <2>1. disk.sets \in Readable \cup {NoSets} /\ Wanted(disk.sets) \subseteq Shipped \cup {OwnGuide}
        /\ Always \subseteq Wanted(disk.sets)
    BY WantedIs DEF Files
  <2>2. Always \cap NeedsWriteTools = {}
    BY DEF Always, NeedsWriteTools
  <2> QED
    BY <1>0, <1>8, <2>1, <2>2 DEF RegisterGuides, AsRead
<1>9. CASE Narrow
  BY <1>0, <1>9 DEF Narrow, AsRead
<1>10. CASE Count
  BY <1>0, <1>10 DEF Count, AsRead
<1>11. CASE Stop
  BY <1>11 DEF Stop, AsRead
<1>12. CASE UNCHANGED startVars
  BY <1>12 DEF startVars, AsRead, Selected, Wanted, Active, Files
<1> QED
  BY <1>1, <1>2, <1>3, <1>4, <1>5, <1>6, <1>7, <1>8, <1>9, <1>10, <1>11, <1>12 DEF StartNext, Ended

(* The invariant holds throughout a start.                                 *)
LEMMA StartInvariant == StartSpec => []StartInv
BY StartBegins, StartKeeps, PTL DEF StartSpec

(* What serves is what was selected and nothing behind a closed gate: the  *)
(* write tools and the guides that need them are there only with           *)
(* enable_write_tools, whatever the operator edits between two reads of    *)
(* the toolsets file (registry.py's register and guides.py).               *)
THEOREM SelectionServed == StartSpec => []ServesSelection
<1>1. StartInv => ServesSelection
  <2> SUFFICES ASSUME StartInv, at = "serving" PROVE ServesSelection
    BY DEF ServesSelection
  <2>1. tools # {} /\ Always \subseteq guides /\ tools \subseteq Passes
        /\ (guides \cap NeedsWriteTools # {} => conf.gate)
    BY DEF StartInv, StartShape
  <2>2. tools \cap WriteTools # {} => conf.gate
    BY <2>1, ToolsAssumption DEF Passes
  <2>3. ASSUME edits = 0
        PROVE  /\ conf.selection \subseteq {All} \cup DOMAIN disk.sets \cup Tools
               /\ \A t \in Tools : t \in tools <=>
                    /\ t \in ReadTools \/ conf.gate
                    /\ \/ {All, t} \cap conf.selection # {}
                       \/ \E s \in DOMAIN disk.sets \cap conf.selection : t \in disk.sets[s].tools
    <3>1. /\ Known(DOMAIN disk.sets) /\ keep = Selected(disk.sets) /\ Known(SetNames)
          /\ tools = (IF keep = {All} THEN Passes ELSE Passes \cap keep)
          /\ disk.sets \in Readable \cup {NoSets}
      BY <2>3 DEF StartInv, StartShape, AsRead, Resolved, Files
    <3>2. \A t \in Tools : t \in Passes <=> (t \in ReadTools \/ conf.gate)
      BY DEF Passes, Tools
    <3> QED
      BY <3>1, <3>2, SelectedIs DEF Known
  <2> QED
    BY <2>1, <2>2, <2>3 DEF ServesSelection
<1> QED
  BY <1>1, StartInvariant, PTL

(* A start that nobody edits under ends in a traceback only because of a   *)
(* file that cannot be opened, which cli.main does not catch, or of a      *)
(* guide of the operator's own that cannot be read (guides.py).            *)
THEOREM TracebackIsOfFiles == StartSpec => []TracebackOnlyForFiles
<1>1. StartInv => TracebackOnlyForFiles
  BY DEF StartInv, AsRead, TracebackOnlyForFiles
<1> QED
  BY <1>1, StartInvariant, PTL

-----------------------------------------------------------------------------
(* Throwaway.  Between two starts an instance is empty, full, or one of     *)
(* which a fill broke off; within a fill all is there that the steps       *)
(* before added.                                                           *)

Outside == {"off", "starting", "probing", "evaluating"}
FromTenants == FillSteps \ {"templates"}
FromSwitches == FromTenants \ {"tenants"}
FromServers == FromSwitches \ {"switches"}
FromCorrections == FromServers \ {"servers"}
FromGroups == {"groups", "downtimes", "acknowledgements"}
FromDowntimes == {"downtimes", "acknowledgements"}

FilledSoFar ==
    /\ doing \in FromTenants => Templates \subseteq data
    /\ doing \in FromSwitches => Tenants \subseteq data
    /\ doing \in FromServers => Switches \subseteq data
    /\ doing \in FromCorrections => Servers \subseteq data
    /\ doing \in FromGroups => Services \subseteq data
    /\ doing \in FromDowntimes => Groups \subseteq data

ThrowawayInv ==
    /\ ThrowawayTypeOK
    /\ FilledSoFar
    /\ doing \in Outside => data = {} \/ Object \subseteq data \/ halfDone
    /\ AskedOnWholeData

(* The object under test is made by the six steps that add something.      *)
LEMMA ObjectIs == Object = UNION {Templates, Tenants, Switches, Servers, Services, Groups}
BY DEF Object, Templates, Tenants, Switches, Servers, Services, Groups

(* What each step of a fill adds, all of it of the object.                 *)
LEMMA AddsAre ==
    /\ \A step \in FillSteps : Adds(step) \subseteq Object
    /\ Adds("templates") = Templates /\ Adds("tenants") = Tenants /\ Adds("switches") = Switches
    /\ Adds("servers") = Servers /\ Adds("services") = Services /\ Adds("groups") = Groups
BY ObjectIs DEF Adds, FillSteps

(* Every step around the instance keeps the invariant.                     *)
LEMMA ThrowawayKeeps == ThrowawayInv /\ [ThrowawayNext]_throwawayVars => ThrowawayInv'
<1> SUFFICES ASSUME ThrowawayInv, [ThrowawayNext]_throwawayVars PROVE ThrowawayInv'
  OBVIOUS
<1> USE NServersAssumption, MaxStartsAssumption DEF ThrowawayInv, ThrowawayTypeOK, Outside
<1>1. CASE StartInstance
  BY <1>1 DEF StartInstance, FilledSoFar, FillSteps, FromTenants, FromSwitches, FromServers, FromCorrections, FromGroups, FromDowntimes, AskedOnWholeData
<1>2. CASE InstanceAnswers
  BY <1>2 DEF InstanceAnswers, FilledSoFar, FillSteps, FromTenants, FromSwitches, FromServers, FromCorrections, FromGroups, FromDowntimes, AskedOnWholeData
<1>3. CASE NoKey \/ Leaves
  BY <1>3 DEF NoKey, Leaves, CleanUp, FilledSoFar, FillSteps, FromTenants, FromSwitches, FromServers, FromCorrections, FromGroups, FromDowntimes, AskedOnWholeData
<1>4. CASE ProbeData
  BY <1>4 DEF ProbeData, Monitored, FilledSoFar, FillSteps, FromTenants, FromSwitches, FromServers, FromCorrections, FromGroups, FromDowntimes, AskedOnWholeData
<1>5. CASE FillStep
  <2>1. data' = data \cup Adds(doing) /\ doing' = After[doing] /\ doing \in FillSteps /\ data' \subseteq Object
    BY <1>5, AddsAre DEF FillStep
  <2>2. FilledSoFar'
    BY <2>1, AddsAre DEF FilledSoFar, After, FillSteps, FromTenants, FromSwitches, FromServers, FromCorrections, FromGroups, FromDowntimes
  <2>3. doing' \in FillSteps \cup {"evaluating"} /\ (doing' = "evaluating" => doing = "acknowledgements")
    BY <2>1 DEF After, FillSteps
  <2>4. doing' = "evaluating" => Object \subseteq data' /\ known' # {}
    BY <1>5, <2>1, <2>3, ObjectIs DEF FillStep, Possible, Monitored, FilledSoFar, FillSteps,
       FromTenants, FromSwitches, FromServers, FromCorrections, FromGroups, FromDowntimes
  <2> QED
    BY <1>5, <2>1, <2>2, <2>3, <2>4 DEF FillStep, AskedOnWholeData, FillSteps
<1>6. CASE FillBreaksOff
  BY <1>6, AddsAre DEF FillBreaksOff, FilledSoFar, FillSteps, FromTenants, FromSwitches, FromServers, FromCorrections, FromGroups, FromDowntimes, AskedOnWholeData
<1>7. CASE Exported
  BY <1>7 DEF Exported, FilledSoFar, AskedOnWholeData
<1>8. CASE UNCHANGED throwawayVars
  BY <1>8 DEF throwawayVars, FilledSoFar, AskedOnWholeData
<1> QED
  BY <1>1, <1>2, <1>3, <1>4, <1>5, <1>6, <1>7, <1>8 DEF ThrowawayNext, NotRunning

(* There is no instance at first, and nothing in it.                       *)
LEMMA ThrowawayBegins == ThrowawayInit => ThrowawayInv
<1> SUFFICES ASSUME ThrowawayInit PROVE ThrowawayInv
  OBVIOUS
<1>1. doing = "off" /\ data = {}
  BY DEF ThrowawayInit
<1>2. ThrowawayTypeOK
  <2>1. starts \in 0..MaxStarts
    BY MaxStartsAssumption DEF ThrowawayInit
  <2> QED
    BY <2>1 DEF ThrowawayInit, ThrowawayTypeOK
<1>3. FilledSoFar
  BY <1>1 DEF FilledSoFar, FillSteps, FromTenants, FromSwitches, FromServers, FromCorrections,
     FromGroups, FromDowntimes
<1> QED
  BY <1>1, <1>2, <1>3 DEF ThrowawayInv, AskedOnWholeData

(* The invariant holds of an instance however often it is started.         *)
LEMMA ThrowawayInvariant == ThrowawaySpec => []ThrowawayInv
BY ThrowawayBegins, ThrowawayKeeps, PTL DEF ThrowawaySpec

(* The models are asked only on an instance that has all of its data, or   *)
(* one of which a fill broke off: probe() takes any data for all of it.    *)
THEOREM WholeDataAsked == ThrowawaySpec => []AskedOnWholeData
<1>1. ThrowawayInv => AskedOnWholeData
  BY DEF ThrowawayInv
<1> QED
  BY <1>1, ThrowawayInvariant, PTL

-----------------------------------------------------------------------------
(* CallContext.  The clock a reply is written in is of an entry or of an   *)
(* answer, and both are as old as what the user last changed: the          *)
(* invariant follows each from the request it was asked for by.            *)

(* The times are positive: the code has no entry that is never used.       *)
LEMMA TimesAre == ZoneTTL \in Nat /\ ZoneTTL > 0 /\ HintTTL \in Nat /\ HintTTL > 0 /\ AnswerTime \in Nat
BY TimesAssumption

(* An answer may come at once.                                             *)
LEMMA InTime == \A c \in Nat : c <= c /\ c <= c + AnswerTime
BY TimesAre

USE TimesAre

(* What was said of the changes w when there were k of them: the next one  *)
(* was made at t at the earliest, or up to d seconds before.               *)
NoneBefore(w, k, t, d) ==
    k <= Len(w) /\ (k < Len(w) => t <= w[k + 1] + d)

(* An answer that was right when it was asked for.                         *)
WasRight(z) == z.sent <= clock /\ NoneBefore(changed[z.for], z.says, z.sent, 0)

(* What a call has asked for is its own user's, and not asked for long.    *)
AskedFor(m) ==
    /\ asked[m] # Nothing
    /\ asked[m].for = acts[m] /\ asked[m].sent <= clock
    /\ clock <= asked[m].sent + AnswerTime

(* The zone cached for a user is the user's own.                           *)
ZoneKept(u) ==
    /\ zones[u].of.for = u
    /\ WasRight(zones[u].of)
    /\ zones[u].stamp <= zones[u].of.sent + AnswerTime

HostsKept ==
    /\ hosts.stamp <= hosts.of.sent + AnswerTime
    /\ delegated \/ hosts.of.for = account

(* A zone as a call read it: changed since at most as long as an entry and *)
(* a request last.                                                         *)
ReadRight(u, r) ==
    /\ r.of.for = u
    /\ r.seen <= clock
    /\ NoneBefore(changed[u], r.of.says, r.seen + 1, ZoneTTL + AnswerTime)

Asking == {"asking names", "names", "asking zone", "zone"}

(* What holds of a call at the step it is at.                              *)
CallAt(m) ==
    /\ delegated \/ acts[m] = account
    /\ place[m] \in Asking => AskedFor(m)
    /\ place[m] \notin Asking => asked[m] = Nothing
    /\ place[m] = "zone" => WasRight(asked[m])
    /\ place[m] \notin {"zones", "asking zone", "zone", "answer"} => read[m] = << >>
    /\ place[m] \in {"zones", "asking zone", "zone"} => Len(read[m]) <= 1
    /\ place[m] # "returned" => reply[m] = Open
    /\ \A i \in 1..Len(read[m]) : ReadRight(acts[m], read[m][i])

HintRight(m) ==
    /\ reply[m].kind = "hosts" =>
        /\ reply[m].names.seen < reply[m].names.of.sent + HintTTL + AnswerTime
        /\ reply[m].names.of.for # acts[m] => delegated
    /\ reply[m].kind = "finders" => reply[m].tools \subseteq offered

(* The types with the functions they are of.                               *)
ContextShape ==
    /\ ContextTypeOK
    /\ zones \in [People -> Cached \cup {Nothing}]
    /\ asked \in [Messages -> Reading \cup {Nothing}]
    /\ read \in [Messages -> Seq(Used)]

ContextInv ==
    /\ ContextShape
    /\ \A m \in Messages : CallAt(m) /\ HintRight(m)
    /\ \A u \in People : zones[u] # Nothing => ZoneKept(u)
    /\ hosts # Nothing => HostsKept

(* Nothing is told from every answer and every cached one by its tag.      *)
LEMMA NothingIs == Nothing \notin Reading /\ Nothing \notin Cached
BY DEF Nothing, Reading, Cached

(* What is used of an answer, now.                                         *)
LEMMA UsedIs == ASSUME NEW z \in Reading, clock \in Nat
                PROVE  [of |-> z, seen |-> clock] \in Used
BY DEF Used

(* The replies a call may be given.                                        *)
LEMMA RepliesAre ==
    /\ Open \in Replies
    /\ \A k \in {"raised", "done", "summary"} : [kind |-> k] \in Replies
    /\ \A n \in Used : [kind |-> "hosts", names |-> n] \in Replies
    /\ \A f \in SUBSET Finders : [kind |-> "finders", tools |-> f] \in Replies
BY DEF Replies

(* A change made now leaves that as it is.                                 *)
LEMMA NoneBeforeStays ==
    ASSUME NEW w \in Seq(Nat), NEW k \in Nat, NEW t \in Nat, NEW d \in Nat, NEW c \in Nat,
           NoneBefore(w, k, t, d), t <= c + d
    PROVE  NoneBefore(Append(w, c), k, t, d)
<1>1. Len(w) \in Nat /\ Len(Append(w, c)) = Len(w) + 1
  OBVIOUS
<1>2. CASE k < Len(w)
  <2>1. Append(w, c)[k + 1] = w[k + 1]
    BY <1>1, <1>2
  <2> QED
    BY <1>1, <1>2, <2>1 DEF NoneBefore
<1>3. CASE k = Len(w)
  <2>1. Append(w, c)[k + 1] = c
    BY <1>1, <1>3
  <2> QED
    BY <1>1, <1>3, <2>1 DEF NoneBefore
<1> QED
  BY <1>1, <1>2, <1>3 DEF NoneBefore

(* What was changed at t - d at the earliest was so at s - e.              *)
LEMMA NoneBeforeLater ==
    ASSUME NEW w \in Seq(Nat), NEW k \in Nat, NEW t \in Nat, NEW d \in Nat, NEW s \in Nat, NEW e \in Nat,
           NoneBefore(w, k, t, d), s + d <= t + e
    PROVE  NoneBefore(w, k, s, e)
<1>1. k < Len(w) => w[k + 1] \in Nat
  OBVIOUS
<1> QED
  BY <1>1 DEF NoneBefore

(* Of changes that are all known there is no next one.                     *)
LEMMA NoneYet == ASSUME NEW w \in Seq(Nat), NEW t PROVE NoneBefore(w, Len(w), t, 0)
<1>1. Len(w) \in Nat
  OBVIOUS
<1> QED
  BY <1>1 DEF NoneBefore

(* The changes of a user are left alone or one is made now.                *)
LEMMA ChangesOf ==
    ASSUME ContextShape, NEW u \in People,
           \/ UNCHANGED changed
           \/ \E v \in People : changed' = [changed EXCEPT ![v] = Append(@, clock)]
    PROVE  /\ changed[u] \in Seq(Nat) /\ clock \in Nat
           /\ changed'[u] = changed[u] \/ changed'[u] = Append(changed[u], clock)
BY DEF ContextShape, ContextTypeOK

(* An answer that was right stays so when time passes or a zone is changed.*)
LEMMA RightStays ==
    ASSUME ContextShape, NEW z \in Reading, WasRight(z),
           clock' \in Nat, clock <= clock',
           \/ UNCHANGED changed
           \/ \E v \in People : changed' = [changed EXCEPT ![v] = Append(@, clock)]
    PROVE  WasRight(z)'
<1>1. z.for \in People /\ z.sent \in Nat /\ z.says \in Nat /\ z.sent <= clock /\ clock \in Nat
  BY DEF Reading, WasRight, ContextShape, ContextTypeOK
<1>2. NoneBefore(changed[z.for], z.says, z.sent, 0)
  BY DEF WasRight
<1>3. NoneBefore(Append(changed[z.for], clock), z.says, z.sent, 0)
  BY <1>1, <1>2, ChangesOf, NoneBeforeStays
<1>4. NoneBefore(changed'[z.for], z.says, z.sent, 0)
  BY <1>1, <1>2, <1>3, ChangesOf
<1> QED
  BY <1>1, <1>4 DEF WasRight, NoneBefore

(* So does what a call has read.                                           *)
LEMMA ReadStays ==
    ASSUME ContextShape, NEW u \in People, NEW r \in Used, ReadRight(u, r),
           clock' \in Nat, clock <= clock',
           \/ UNCHANGED changed
           \/ \E v \in People : changed' = [changed EXCEPT ![v] = Append(@, clock)]
    PROVE  ReadRight(u, r)'
<1>1. r.seen \in Nat /\ r.of.says \in Nat /\ r.seen <= clock /\ clock \in Nat
  BY DEF Used, Reading, ReadRight, ContextShape, ContextTypeOK
<1>2. NoneBefore(changed[u], r.of.says, r.seen + 1, ZoneTTL + AnswerTime)
  BY DEF ReadRight
<1>6. ZoneTTL + AnswerTime \in Nat /\ r.seen + 1 \in Nat /\ r.seen + 1 <= clock + (ZoneTTL + AnswerTime)
  BY <1>1
<1>3. NoneBefore(Append(changed[u], clock), r.of.says, r.seen + 1, ZoneTTL + AnswerTime)
  BY <1>6, <1>1, <1>2, ChangesOf, NoneBeforeStays
<1>4. NoneBefore(changed'[u], r.of.says, r.seen + 1, ZoneTTL + AnswerTime)
  BY <1>2, <1>3, ChangesOf
<1>5. r.of.for = u /\ r.seen <= clock'
  BY <1>1 DEF ReadRight
<1> QED
  BY <1>4, <1>5 DEF ReadRight, NoneBefore

(* What is used while an answer or an entry of it still counts.            *)
LEMMA UsedInTime ==
    ASSUME ContextShape, NEW z \in Reading, WasRight(z),
           clock < z.sent + AnswerTime + ZoneTTL
    PROVE  ReadRight(z.for, [of |-> z, seen |-> clock])
<1>1. /\ z.sent \in Nat /\ z.says \in Nat /\ clock \in Nat /\ changed[z.for] \in Seq(Nat)
  BY DEF Reading, ContextShape, ContextTypeOK
<1>2. ZoneTTL + AnswerTime \in Nat /\ clock + 1 \in Nat /\ (clock + 1) + 0 <= z.sent + (ZoneTTL + AnswerTime)
  BY <1>1
<1>4. NoneBefore(changed[z.for], z.says, z.sent, 0)
  BY DEF WasRight
<1>3. NoneBefore(changed[z.for], z.says, clock + 1, ZoneTTL + AnswerTime)
  BY <1>1, <1>2, <1>4, NoneBeforeLater
<1> QED
  BY <1>1, <1>3 DEF ReadRight

(* A step of one call that leaves clock, changes and caches alone leaves   *)
(* what holds of the other calls alone.                                    *)
LEMMA OthersKeep ==
    ASSUME ContextInv, NEW m \in Messages, NEW n \in Messages, n # m,
           UNCHANGED <<clock, Settings, changed>>,
           place'[n] = place[n], asked'[n] = asked[n], read'[n] = read[n],
           acts'[n] = acts[n], reply'[n] = reply[n]
    PROVE  (CallAt(n) /\ HintRight(n))'
<1>1. CallAt(n) /\ HintRight(n)
  BY DEF ContextInv
<1>2. UNCHANGED <<clock, changed, delegated, account, offered>>
  BY DEF Settings
<1> QED
  BY <1>1, <1>2 DEF CallAt, HintRight, AskedFor, WasRight, ReadRight, NoneBefore

(* A step of one call keeps the invariant if it keeps what it touches.     *)
LEMMA CallStep ==
    ASSUME ContextInv, NEW m \in Messages,
           UNCHANGED <<clock, Settings, changed>>,
           \A n \in Messages \ {m} :
              /\ place'[n] = place[n] /\ asked'[n] = asked[n] /\ read'[n] = read[n]
              /\ acts'[n] = acts[n] /\ reply'[n] = reply[n],
           ContextShape', CallAt(m)', HintRight(m)',
           zones' = zones \/ (\A u \in People : zones'[u] # Nothing => ZoneKept(u)'),
           hosts' = hosts \/ HostsKept'
    PROVE  ContextInv'
<1>1. \A n \in Messages : (CallAt(n) /\ HintRight(n))'
  BY OthersKeep
<1>2. UNCHANGED <<clock, changed, delegated, account, offered>>
  BY DEF Settings
<1>3. ASSUME NEW u \in People, zones'[u] # Nothing PROVE ZoneKept(u)'
  BY <1>2, <1>3 DEF ContextInv, ZoneKept, WasRight, NoneBefore
<1>4. hosts' # Nothing => HostsKept'
  BY <1>2 DEF ContextInv, HostsKept
<1> QED
  BY <1>1, <1>3, <1>4 DEF ContextInv

(* The call ends: what it read is dropped, and it is answered.             *)
LEMMA CallEnds ==
    ASSUME ContextInv, NEW m \in Messages, NEW r \in Replies, End(m, r), acts' = acts,
           UNCHANGED <<clock, Settings, changed, zones>>,
           hosts' = hosts \/ (hosts' \in Cached /\ HostsKept'),
           r.kind = "hosts" =>
              /\ r.names.seen < r.names.of.sent + HintTTL + AnswerTime
              /\ r.names.of.for # acts[m] => delegated,
           r.kind = "finders" => r.tools \subseteq offered
    PROVE  ContextInv'
<1>1. UNCHANGED <<clock, changed, delegated, account, offered, zones, acts>>
  BY DEF Settings
<1>2. ContextShape
  BY DEF ContextInv
<1>3. /\ place' = [place EXCEPT ![m] = "returned"]
      /\ reply' = [reply EXCEPT ![m] = r]
      /\ asked' = [asked EXCEPT ![m] = Nothing]
      /\ read' = [read EXCEPT ![m] = << >>]
      /\ loop' = loop \ {m}
  BY DEF End
<1>4. ContextShape'
  <2>1. /\ place' \in [Messages -> {"idle", "hint", "asking names", "names", "zones",
                               "asking zone", "zone", "answer", "returned"}]
        /\ asked' \in [Messages -> Reading \cup {Nothing}]
        /\ reply' \in [Messages -> Replies] /\ loop' \subseteq Messages
        /\ hosts' \in Cached \cup {Nothing}
    BY <1>2, <1>3 DEF ContextShape, ContextTypeOK
  <2>2. read' \in [Messages -> Seq(Used)]
    BY <1>2, <1>3 DEF ContextShape
  <2>3. \A n \in Messages : Len(read'[n]) <= 2
    <3>1. \A n \in Messages : read'[n] = read[n] \/ Len(read'[n]) = 0
      BY <1>2, <1>3 DEF ContextShape
    <3>2. \A n \in Messages : Len(read[n]) <= 2
      BY <1>2 DEF ContextShape, ContextTypeOK
    <3> QED
      BY <3>1, <3>2
  <2> QED
    BY <1>1, <1>2, <2>1, <2>2, <2>3 DEF ContextShape, ContextTypeOK
<1>5. /\ place'[m] = "returned" /\ asked'[m] = Nothing /\ read'[m] = << >> /\ reply'[m] = r
      /\ Len(read'[m]) = 0
  BY <1>2, <1>3 DEF ContextShape, ContextTypeOK
<1>6. CallAt(m)'
  <2>1. delegated \/ acts[m] = account
    BY DEF ContextInv, CallAt
  <2> QED
    BY <1>1, <1>5, <2>1 DEF CallAt, Asking
<1>7. HintRight(m)'
  BY <1>1, <1>5 DEF HintRight
<1> QED
  BY <1>1, <1>2, <1>3, <1>4, <1>6, <1>7, CallStep DEF ContextShape, ContextTypeOK

(* The call asks for its user, now.                                        *)
LEMMA CallAsks ==
    ASSUME ContextInv, NEW m \in Messages, NEW s \in {"asking names", "asking zone"}, AskFor(m, s),
           s = "asking zone" => place[m] = "zones",
           s = "asking names" => place[m] = "hint",
           UNCHANGED <<clock, Settings, changed, zones, hosts, loop, acts, read, reply>>
    PROVE  ContextInv'
<1>1. UNCHANGED <<clock, changed, delegated, account, offered, zones, acts>>
  BY DEF Settings
<1>2. ContextShape /\ CallAt(m) /\ HintRight(m)
  BY DEF ContextInv
<1> DEFINE q == [tag |-> "reading", for |-> acts[m], sent |-> clock, says |-> 0]
<1>3. q \in Reading
  BY <1>2 DEF Reading, ContextShape, ContextTypeOK
<1>4. /\ place' = [place EXCEPT ![m] = s]
      /\ asked' = [asked EXCEPT ![m] = q]
  BY DEF AskFor
<1>5. ContextShape'
  BY <1>1, <1>2, <1>3, <1>4 DEF ContextShape, ContextTypeOK
<1>6. AskedFor(m)'
  <2>1. asked'[m] = q /\ q # Nothing /\ clock \in Nat
    BY <1>2, <1>3, <1>4, NothingIs DEF ContextShape, ContextTypeOK
  <2>2. q.for = acts[m] /\ q.sent = clock
    OBVIOUS
  <2> HIDE DEF q
  <2>3. asked'[m].for = acts'[m] /\ asked'[m].sent = clock'
    BY <1>1, <2>1, <2>2
  <2>4. clock' <= clock' + AnswerTime /\ clock' <= clock'
    BY <1>1, <2>1, InTime
  <2>5. asked'[m] # Nothing
    BY <2>1
  <2> QED
    BY <2>3, <2>4, <2>5 DEF AskedFor
<1>7. place[m] # "returned" /\ place'[m] = s /\ clock \in Nat /\ read' = read /\ reply' = reply
  BY <1>2, <1>4 DEF ContextShape, ContextTypeOK
<1>8. CallAt(m)'
  BY <1>1, <1>2, <1>6, <1>7 DEF CallAt, Asking, ReadRight, NoneBefore
<1>9. HintRight(m)'
  BY <1>1, <1>2, <1>7 DEF HintRight
<1> QED
  BY <1>1, <1>4, <1>5, <1>8, <1>9, CallStep DEF ContextShape, ContextTypeOK

(* The call reads a zone.                                                  *)
LEMMA CallTakes ==
    ASSUME ContextInv, NEW m \in Messages, NEW z \in Reading, Take(m, z),
           place[m] \in {"zones", "zone"},
           ReadRight(acts[m], [of |-> z, seen |-> clock]),
           asked' = [asked EXCEPT ![m] = Nothing],
           UNCHANGED <<clock, Settings, changed, hosts, loop, acts, reply>>,
           \/ zones' = zones
           \/ /\ zones' \in [People -> Cached \cup {Nothing}]
              /\ \A u \in People : zones'[u] # Nothing => ZoneKept(u)'
    PROVE  ContextInv'
<1>1. UNCHANGED <<clock, changed, delegated, account, offered, hosts, loop, acts, reply>>
  BY DEF Settings
<1>2. ContextShape /\ CallAt(m) /\ HintRight(m)
  BY DEF ContextInv
<1> DEFINE r == [of |-> z, seen |-> clock]
<1>3. r \in Used
  BY <1>2, UsedIs DEF ContextShape, ContextTypeOK
<1>4. /\ read' = [read EXCEPT ![m] = Append(read[m], r)]
      /\ place' = [place EXCEPT ![m] = IF read[m] = << >> THEN "zones" ELSE "answer"]
  BY DEF Take
<1>5. ReadRight(acts[m], r) /\ read[m] \in Seq(Used) /\ Len(read[m]) <= 1
  BY <1>2 DEF ContextShape, CallAt
<1> HIDE DEF r
<1>6. /\ place'[m] \in {"zones", "answer"} /\ place[m] # "returned" /\ place[m] \notin {"idle", "hint"}
      /\ read'[m] = Append(read[m], r) /\ asked'[m] = Nothing /\ reply'[m] = reply[m]
      /\ place'[m] = "zones" => read[m] = << >>
  BY <1>1, <1>2, <1>4 DEF ContextShape, ContextTypeOK
<1>7. Append(read[m], r) \in Seq(Used) /\ Len(Append(read[m], r)) = Len(read[m]) + 1 /\ Len(read[m]) \in Nat
  BY <1>3, <1>5
<1>8. ContextShape'
  <2>1. /\ place' \in [Messages -> {"idle", "hint", "asking names", "names", "zones",
                               "asking zone", "zone", "answer", "returned"}]
        /\ asked' \in [Messages -> Reading \cup {Nothing}]
    BY <1>2, <1>4 DEF ContextShape, ContextTypeOK
  <2>2. read' \in [Messages -> Seq(Used)]
    BY <1>2, <1>4, <1>7 DEF ContextShape
  <2>3. \A n \in Messages : Len(read'[n]) <= 2
    <3>1. \A n \in Messages : read'[n] = read[n] \/ (n = m /\ Len(read'[n]) <= 2)
      BY <1>2, <1>4, <1>5, <1>7 DEF ContextShape
    <3>2. \A n \in Messages : Len(read[n]) <= 2
      BY <1>2 DEF ContextShape, ContextTypeOK
    <3> QED
      BY <3>1, <3>2
  <2> QED
    BY <1>1, <1>2, <2>1, <2>2, <2>3 DEF ContextShape, ContextTypeOK
<1>9. ASSUME NEW i \in 1..Len(read'[m]) PROVE ReadRight(acts[m], read[m][i])'
  <2>1. ReadRight(acts[m], read'[m][i])
    <3>1. CASE i = Len(read[m]) + 1
      <4>1. read'[m][i] = r
        BY <1>5, <1>6, <1>7, <3>1
      <4> QED
        BY <1>5, <4>1
    <3>2. CASE i # Len(read[m]) + 1
      <4>1. i \in 1..Len(read[m]) /\ read'[m][i] = read[m][i]
        BY <1>5, <1>6, <1>7, <3>2
      <4> QED
        BY <1>2, <4>1 DEF CallAt
    <3> QED
      BY <3>1, <3>2
  <2> QED
    BY <1>1, <2>1 DEF ReadRight, NoneBefore
<1>10. CallAt(m)'
  <2>1. place'[m] = "zones" => Len(read'[m]) <= 1
    BY <1>6, <1>7
  <2> QED
    BY <1>1, <1>2, <1>6, <1>9, <2>1 DEF CallAt, Asking
<1>11. HintRight(m)'
  BY <1>1, <1>2, <1>6 DEF HintRight
<1>12. \A n \in Messages \ {m} :
         /\ place'[n] = place[n] /\ asked'[n] = asked[n] /\ read'[n] = read[n]
         /\ acts'[n] = acts[n] /\ reply'[n] = reply[n]
  BY <1>1, <1>2, <1>4 DEF ContextShape, ContextTypeOK
<1> QED
  BY <1>1, <1>8, <1>10, <1>11, <1>12, CallStep

(* The call is answered what it asked for.                                 *)
LEMMA CallAnswered ==
    ASSUME ContextInv, NEW m \in Messages, NEW n \in Nat, NEW s \in {"names", "zone"},
           place[m] = IF s = "zone" THEN "asking zone" ELSE "asking names",
           place' = [place EXCEPT ![m] = s],
           asked' = [asked EXCEPT ![m].says = n] \/ (s = "names" /\ UNCHANGED asked),
           s = "zone" => n = Len(changed[acts[m]]),
           UNCHANGED <<clock, Settings, changed, zones, hosts, loop, acts, read, reply>>
    PROVE  ContextInv'
<1>1. UNCHANGED <<clock, changed, delegated, account, offered, zones, hosts, loop, acts, read, reply>>
  BY DEF Settings
<1>2. ContextShape /\ CallAt(m) /\ HintRight(m)
  BY DEF ContextInv
<1>3. place[m] \in Asking /\ AskedFor(m) /\ asked[m] \in Reading
  BY <1>2 DEF CallAt, Asking, AskedFor, ContextShape
<1>4. asked'[m] = asked[m] \/ asked'[m] = [asked[m] EXCEPT !.says = n]
  BY <1>2 DEF ContextShape
<1>5. /\ asked'[m] \in Reading /\ asked'[m].for = asked[m].for /\ asked'[m].sent = asked[m].sent
      /\ s = "zone" => asked'[m].says = n
  <2>1. CASE asked' = [asked EXCEPT ![m].says = n]
    <3>1. asked'[m] = [asked[m] EXCEPT !.says = n]
      BY <1>2, <2>1 DEF ContextShape
    <3> QED
      BY <1>3, <3>1 DEF Reading
  <2>2. CASE s = "names" /\ UNCHANGED asked
    BY <1>3, <2>2
  <2> QED
    BY <2>1, <2>2
<1>6. /\ place'[m] = s /\ place[m] # "returned" /\ s \in Asking
      /\ \A k \in Messages \ {m} : place'[k] = place[k] /\ asked'[k] = asked[k]
  BY <1>2 DEF ContextShape, ContextTypeOK, Asking
<1>7. ContextShape'
  <2>1. /\ place' \in [Messages -> {"idle", "hint", "asking names", "names", "zones",
                               "asking zone", "zone", "answer", "returned"}]
    BY <1>2 DEF ContextShape, ContextTypeOK
  <2>2. asked' \in [Messages -> Reading \cup {Nothing}]
    BY <1>2, <1>5, <1>6 DEF ContextShape
  <2> QED
    BY <1>1, <1>2, <2>1, <2>2 DEF ContextShape, ContextTypeOK
<1>8. AskedFor(m)'
  <2>1. asked'[m] # Nothing
    BY <1>5, NothingIs
  <2> QED
    BY <1>1, <1>3, <1>5, <2>1 DEF AskedFor
<1>9. s = "zone" => WasRight(asked[m])'
  <2> SUFFICES ASSUME s = "zone" PROVE WasRight(asked[m])'
    OBVIOUS
  <2>1. /\ asked'[m].for = acts[m] /\ asked'[m].says = Len(changed[acts[m]])
        /\ asked'[m].sent <= clock /\ changed[acts[m]] \in Seq(Nat)
    BY <1>2, <1>3, <1>5 DEF AskedFor, ContextShape, ContextTypeOK
  <2>2. NoneBefore(changed[acts[m]], Len(changed[acts[m]]), asked'[m].sent, 0)
    BY <2>1, NoneYet
  <2> QED
    BY <1>1, <2>1, <2>2 DEF WasRight, NoneBefore
<1>10. CallAt(m)'
  BY <1>1, <1>2, <1>6, <1>8, <1>9 DEF CallAt, Asking, ReadRight, NoneBefore
<1>11. HintRight(m)'
  BY <1>1, <1>2 DEF HintRight
<1> QED
  BY <1>1, <1>6, <1>7, <1>10, <1>11, CallStep

(* What is cached or asked for stays right as long as PassTime and         *)
(* ChangeZone let it.                                                      *)
LEMMA WorldKeeps ==
    ASSUME ContextInv,
           \/ PassTime
           \/ \E u \in People : ChangeZone(u)
    PROVE  ContextInv'
<1>1. /\ ContextShape /\ clock \in Nat /\ clock' \in Nat /\ clock <= clock'
      /\ UNCHANGED <<delegated, account, offered, zones, hosts, loop, place, acts, asked, read, reply>>
  <2>1. ContextShape /\ clock \in Nat
    BY DEF ContextInv, ContextShape, ContextTypeOK
  <2>2. clock' = clock + 1 \/ clock' = clock
    BY DEF PassTime, ChangeZone
  <2>3. UNCHANGED <<delegated, account, offered, zones, hosts, loop, place, acts, asked, read, reply>>
    BY DEF PassTime, ChangeZone, Settings
  <2> QED
    BY <2>1, <2>2, <2>3
<1>2. \/ UNCHANGED changed
      \/ \E v \in People : changed' = [changed EXCEPT ![v] = Append(@, clock)]
  BY DEF PassTime, ChangeZone
<1>3. changed' \in [People -> Seq(Nat)]
  <2>1. changed \in [People -> Seq(Nat)]
    BY <1>1 DEF ContextShape, ContextTypeOK
  <2>2. \A v \in People : Append(changed[v], clock) \in Seq(Nat)
    BY <1>1, <2>1
  <2> QED
    BY <1>2, <2>1, <2>2
<1>4. ContextShape'
  BY <1>1, <1>3 DEF ContextShape, ContextTypeOK
<1>5. ASSUME NEW m \in Messages PROVE CallAt(m)' /\ HintRight(m)'
  <2>1. CallAt(m) /\ HintRight(m)
    BY DEF ContextInv
  <2>2. ASSUME place[m] \in Asking PROVE AskedFor(m)'
    <3>1. AskedFor(m) /\ asked[m] \in Reading /\ asked[m].sent \in Nat
      BY <1>1, <2>1, <2>2 DEF CallAt, AskedFor, ContextShape, Reading
    <3>2. clock' <= asked[m].sent + AnswerTime
      <4>1. CASE PassTime
        <5>1. clock - asked[m].sent < AnswerTime /\ clock' = clock + 1
          BY <3>1, <4>1 DEF PassTime, AskedFor
        <5> QED
          BY <1>1, <3>1, <5>1
      <4>2. CASE \E u \in People : ChangeZone(u)
        BY <3>1, <4>2 DEF ChangeZone, AskedFor
      <4> QED
        BY <4>1, <4>2
    <3> QED
      BY <1>1, <3>1, <3>2 DEF AskedFor
  <2>3. ASSUME place[m] = "zone" PROVE WasRight(asked[m])'
    <3>1. WasRight(asked[m]) /\ asked[m] \in Reading /\ asked' = asked
      BY <1>1, <2>1, <2>3 DEF CallAt, AskedFor, Asking, ContextShape
    <3>2. \A z \in Reading : WasRight(z) => WasRight(z)'
      BY <1>1, <1>2, RightStays
    <3> QED
      BY <3>1, <3>2 DEF WasRight
  <2>4. ASSUME NEW i \in 1..Len(read'[m]) PROVE ReadRight(acts[m], read[m][i])'
    <3>1. /\ acts[m] \in People /\ read[m][i] \in Used /\ read'[m][i] = read[m][i]
          /\ acts' = acts /\ read' = read
      <4>1. read[m] \in Seq(Used) /\ acts[m] \in People /\ i \in 1..Len(read[m])
        BY <1>1, <2>4 DEF ContextShape, ContextTypeOK
      <4>2. read[m][i] \in Used
        BY <4>1
      <4> QED
        BY <1>1, <4>1, <4>2
    <3>2. ReadRight(acts[m], read[m][i])
      BY <1>1, <2>1 DEF CallAt
    <3>3. \A u \in People, r \in Used : ReadRight(u, r) => ReadRight(u, r)'
      BY <1>1, <1>2, ReadStays
    <3> QED
      BY <3>1, <3>2, <3>3 DEF ReadRight
  <2> QED
    BY <1>1, <2>1, <2>2, <2>3, <2>4 DEF CallAt, HintRight
<1>6. ASSUME NEW u \in People, zones'[u] # Nothing PROVE ZoneKept(u)'
  <2>1. ZoneKept(u) /\ zones' = zones /\ zones[u].of \in Reading
    BY <1>1, <1>6 DEF ContextInv, ContextShape, Cached
  <2>2. \A z \in Reading : WasRight(z) => WasRight(z)'
    BY <1>1, <1>2, RightStays
  <2> QED
    BY <2>1, <2>2 DEF ZoneKept, WasRight
<1>7. hosts' # Nothing => HostsKept'
  BY <1>1 DEF ContextInv, HostsKept
<1> QED
  BY <1>4, <1>5, <1>6, <1>7 DEF ContextInv

(* Every step of a call, of the clock and of a user keeps the invariant.   *)
LEMMA ContextKeeps == ContextInv /\ [ContextNext]_contextVars => ContextInv'
<1> SUFFICES ASSUME ContextInv, [ContextNext]_contextVars PROVE ContextInv'
  OBVIOUS
<1>0. ContextShape /\ clock \in Nat /\ offered \subseteq Finders
  BY DEF ContextInv, ContextShape, ContextTypeOK
<1>1. ASSUME NEW m \in Messages, NEW u \in People, Receive(m, u) PROVE ContextInv'
  <2>1. UNCHANGED <<clock, changed, delegated, account, offered, zones, hosts, asked, read, reply>>
    BY <1>1 DEF Receive, Settings
  <2>2. CallAt(m) /\ HintRight(m) /\ place[m] = "idle" /\ account \in People
    BY <1>0, <1>1 DEF Receive, ContextInv, ContextShape, ContextTypeOK
  <2>3. /\ place'[m] \in {"hint", "zones"} /\ acts'[m] = (IF delegated THEN u ELSE account)
        /\ place' \in [Messages -> {"idle", "hint", "asking names", "names", "zones",
                               "asking zone", "zone", "answer", "returned"}]
        /\ acts' \in [Messages -> People] /\ loop' \subseteq Messages
        /\ \A n \in Messages \ {m} : place'[n] = place[n] /\ acts'[n] = acts[n]
    BY <1>0, <1>1, <2>2 DEF Receive, ContextShape, ContextTypeOK
  <2>4. ContextShape'
    BY <1>0, <2>1, <2>3 DEF ContextShape, ContextTypeOK
  <2>5. read[m] = << >> /\ asked[m] = Nothing /\ reply[m] = Open /\ Len(read[m]) = 0
    BY <2>2 DEF CallAt, Asking
  <2>6. CallAt(m)'
    <3>1. \A i \in 1..Len(read'[m]) : ReadRight(acts[m], read[m][i])'
      BY <2>1, <2>5
    <3>2. delegated' \/ acts'[m] = account'
      BY <2>1, <2>3
    <3>3. place'[m] \notin Asking /\ place'[m] # "zone"
      BY <2>3 DEF Asking
    <3>4. asked'[m] = Nothing /\ read'[m] = << >> /\ reply'[m] = Open /\ Len(read'[m]) <= 1
      BY <2>1, <2>5
    <3> QED
      BY <3>1, <3>2, <3>3, <3>4 DEF CallAt
  <2>7. HintRight(m)'
    BY <2>1, <2>5 DEF HintRight, Open
  <2> QED
    BY <2>1, <2>3, <2>4, <2>6, <2>7, CallStep DEF Settings
<1>2. ASSUME NEW m \in Messages, NoToken(m) PROVE ContextInv'
  BY <1>0, <1>2, RepliesAre, CallEnds DEF NoToken, ContextShape, ContextTypeOK
<1>3. ASSUME NEW m \in Messages, NEW z \in Reading, clock < z.sent + HintTTL + AnswerTime,
             End(m, Hint(z)), z.for # acts[m] => delegated,
             UNCHANGED <<clock, Settings, changed, zones, acts>>,
             hosts' = hosts \/ (hosts' \in Cached /\ HostsKept')
      PROVE ContextInv'
  <2>1. Hint(z) \in Replies
    BY <1>0, RepliesAre, UsedIs DEF Hint
  <2>2. Hint(z).kind = "hosts" => Hint(z).names = [of |-> z, seen |-> clock]
    BY DEF Hint
  <2>3. Hint(z).kind = "finders" => Hint(z).tools = offered
    BY DEF Hint
  <2> DEFINE h == Hint(z)
  <2>4. h \in Replies /\ End(m, h)
    BY <1>3, <2>1
  <2>5. /\ h.kind = "hosts" => /\ h.names.seen < h.names.of.sent + HintTTL + AnswerTime
                               /\ h.names.of.for # acts[m] => delegated
        /\ h.kind = "finders" => h.tools \subseteq offered
    BY <1>3, <2>2, <2>3
  <2> HIDE DEF h
  <2> QED
    BY <1>3, <2>4, <2>5, CallEnds
<1>4. ASSUME NEW m \in Messages, HintFromCache(m) PROVE ContextInv'
  <2>1. /\ hosts # Nothing /\ clock < hosts.stamp + HintTTL /\ End(m, Hint(hosts.of))
        /\ UNCHANGED <<clock, Settings, changed, zones, hosts, acts>>
    BY <1>4 DEF HintFromCache, Fresh
  <2>2. hosts.of \in Reading /\ hosts.of.sent \in Nat /\ hosts.stamp \in Nat
    BY <1>0, <2>1 DEF ContextShape, ContextTypeOK, Cached, Reading
  <2>3. HostsKept /\ CallAt(m)
    BY <2>1 DEF ContextInv
  <2>4. clock < hosts.of.sent + HintTTL + AnswerTime
    BY <1>0, <2>1, <2>2, <2>3 DEF HostsKept
  <2>5. hosts.of.for # acts[m] => delegated
    BY <2>3 DEF HostsKept, CallAt
  <2> QED
    BY <1>3, <2>1, <2>2, <2>4, <2>5
<1>5. ASSUME NEW m \in Messages, AskNames(m) PROVE ContextInv'
  BY <1>5, CallAsks DEF AskNames
<1>6. ASSUME NEW m \in Messages, AnswerNames(m) PROVE ContextInv'
  BY <1>6, CallAnswered DEF AnswerNames
<1>7. ASSUME NEW m \in Messages, HintFromNames(m) PROVE ContextInv'
  <2>1. CallAt(m) /\ AskedFor(m) /\ asked[m] \in Reading
    BY <1>0, <1>7 DEF HintFromNames, ContextInv, CallAt, Asking, AskedFor, ContextShape
  <2>2. asked[m].sent \in Nat /\ clock < asked[m].sent + HintTTL + AnswerTime
    BY <1>0, <2>1 DEF AskedFor, Reading
  <2>3. hosts' \in Cached
    BY <1>0, <1>7, <2>1 DEF HintFromNames, Cached
  <2>4. UNCHANGED <<clock, delegated, account>> /\ hosts'.stamp = clock /\ hosts'.of = asked[m]
    BY <1>7 DEF HintFromNames, Settings
  <2>5. HostsKept'
    BY <2>1, <2>4 DEF HostsKept, AskedFor, CallAt
  <2> QED
    BY <1>3, <1>7, <2>1, <2>2, <2>3, <2>5 DEF HintFromNames, AskedFor
<1>8. ASSUME NEW m \in Messages, HintWithoutNames(m) PROVE ContextInv'
  BY <1>0, <1>8, RepliesAre, CallEnds DEF HintWithoutNames
<1>9. ASSUME NEW m \in Messages, ZoneFromCache(m) PROVE ContextInv'
  <2> DEFINE u == acts[m]
  <2>1. /\ place[m] = "zones" /\ zones[u] # Nothing /\ clock < zones[u].stamp + ZoneTTL
        /\ Take(m, zones[u].of)
        /\ UNCHANGED <<clock, Settings, changed, zones, hosts, loop, acts, asked, reply>>
    BY <1>9 DEF ZoneFromCache, Fresh
  <2>2. /\ u \in People /\ zones[u].of \in Reading /\ zones[u].of.sent \in Nat /\ zones[u].stamp \in Nat
    BY <1>0, <2>1 DEF ContextShape, ContextTypeOK, Cached, Reading
  <2>3. ZoneKept(u) /\ CallAt(m)
    BY <2>1, <2>2 DEF ContextInv
  <2>4. clock < zones[u].of.sent + AnswerTime + ZoneTTL
    BY <1>0, <2>1, <2>2, <2>3 DEF ZoneKept
  <2>5. ReadRight(u, [of |-> zones[u].of, seen |-> clock])
    BY <1>0, <2>2, <2>3, <2>4, UsedInTime DEF ZoneKept
  <2>6. asked' = [asked EXCEPT ![m] = Nothing]
    BY <1>0, <2>1, <2>3 DEF CallAt, Asking, ContextShape
  <2> QED
    BY <2>1, <2>2, <2>5, <2>6, CallTakes
<1>10. ASSUME NEW m \in Messages, AskZone(m) PROVE ContextInv'
  BY <1>10, CallAsks DEF AskZone
<1>11. ASSUME NEW m \in Messages, AnswerZone(m) PROVE ContextInv'
  <2>1. changed[acts[m]] \in Seq(Nat)
    BY <1>0 DEF ContextShape, ContextTypeOK
  <2>2. Len(changed[acts[m]]) \in Nat
    BY <2>1
  <2> QED
    BY <1>11, <2>2, CallAnswered DEF AnswerZone
<1>12. ASSUME NEW m \in Messages, StoreZone(m) PROVE ContextInv'
  <2> DEFINE u == acts[m]
  <2> DEFINE c == [tag |-> "cached", of |-> asked[m], stamp |-> clock]
  <2>1. /\ CallAt(m) /\ AskedFor(m) /\ asked[m] \in Reading /\ WasRight(asked[m]) /\ place[m] = "zone"
        /\ u \in People
    BY <1>0, <1>12 DEF StoreZone, ContextInv, CallAt, Asking, AskedFor, ContextShape, ContextTypeOK
  <2>2. asked[m].sent \in Nat /\ clock < asked[m].sent + AnswerTime + ZoneTTL
    BY <1>0, <2>1 DEF AskedFor, Reading
  <2>3. ReadRight(u, [of |-> asked[m], seen |-> clock])
    BY <1>0, <2>1, <2>2, UsedInTime DEF AskedFor
  <2>4. c \in Cached /\ zones' = [zones EXCEPT ![u] = c]
    BY <1>0, <1>12, <2>1 DEF StoreZone, Slot, Cached
  <2>5. c.of = asked[m] /\ c.stamp = clock
    OBVIOUS
  <2> HIDE DEF c
  <2>6. zones' \in [People -> Cached \cup {Nothing}]
    BY <1>0, <2>4 DEF ContextShape
  <2>7. UNCHANGED <<clock, changed>>
    BY <1>12 DEF StoreZone
  <2>8. ASSUME NEW v \in People, zones'[v] # Nothing PROVE ZoneKept(v)'
    <3>1. CASE v = u
      <4>1. zones'[v] = c
        BY <1>0, <2>4, <3>1 DEF ContextShape
      <4> QED
        BY <2>1, <2>5, <2>7, <3>1, <4>1 DEF ZoneKept, WasRight, NoneBefore, AskedFor
    <3>2. CASE v # u
      <4>1. zones'[v] = zones[v]
        BY <1>0, <2>4, <3>2 DEF ContextShape
      <4> QED
        BY <2>7, <2>8, <4>1 DEF ContextInv, ZoneKept, WasRight, NoneBefore
    <3> QED
      BY <3>1, <3>2
  <2> QED
    BY <1>12, <2>1, <2>3, <2>6, <2>8, CallTakes DEF StoreZone
<1>13. ASSUME NEW m \in Messages, RaiseError(m) \/ Reply(m) PROVE ContextInv'
  BY <1>0, <1>13, RepliesAre, CallEnds DEF RaiseError, Reply
<1>14. ASSUME UNCHANGED contextVars PROVE ContextInv'
  BY <1>14 DEF contextVars, Settings, ContextInv, ContextShape, ContextTypeOK, CallAt, HintRight, AskedFor,
     WasRight, ReadRight, NoneBefore, ZoneKept, HostsKept
<1>15. CASE \E m \in Messages :
        \/ \E u \in People : Receive(m, u)
        \/ NoToken(m)
        \/ HintFromCache(m) \/ AskNames(m) \/ AnswerNames(m) \/ HintFromNames(m) \/ HintWithoutNames(m)
        \/ ZoneFromCache(m) \/ AskZone(m) \/ AnswerZone(m) \/ StoreZone(m)
        \/ RaiseError(m) \/ Reply(m)
  BY <1>15, <1>1, <1>2, <1>4, <1>5, <1>6, <1>7, <1>8, <1>9, <1>10, <1>11, <1>12, <1>13
<1> QED
  BY <1>14, <1>15, WorldKeeps DEF ContextNext, NoMessage

(* No call has begun, and nothing is cached.                               *)
LEMMA ContextBegins == ContextInit => ContextInv
<1> SUFFICES ASSUME ContextInit PROVE ContextInv
  OBVIOUS
<1>1. /\ place = [m \in Messages |-> "idle"] /\ acts = [m \in Messages |-> account]
      /\ asked = [m \in Messages |-> Nothing] /\ read = [m \in Messages |-> << >>]
      /\ reply = [m \in Messages |-> Open]
      /\ zones = [u \in People |-> Nothing] /\ hosts = Nothing
  BY DEF ContextInit
<1>2. Len(<< >>) = 0 /\ << >> \in Seq(Used) /\ << >> \in Seq(Nat)
  OBVIOUS
<1>3. ContextShape
  <2>1. /\ clock \in Nat /\ delegated \in BOOLEAN /\ account \in People /\ offered \subseteq Finders
        /\ loop \subseteq Messages /\ changed \in [People -> Seq(Nat)]
    BY <1>2 DEF ContextInit
  <2>2. /\ reply \in [Messages -> Replies] /\ read \in [Messages -> Seq(Used)]
        /\ acts \in [Messages -> People]
    BY <1>1, <1>2, <2>1, RepliesAre
  <2>3. /\ asked \in [Messages -> Reading \cup {Nothing}]
        /\ zones \in [People -> Cached \cup {Nothing}] /\ hosts \in Cached \cup {Nothing}
    BY <1>1
  <2> QED
    BY <1>1, <1>2, <2>1, <2>2, <2>3 DEF ContextShape, ContextTypeOK
<1>4. \A m \in Messages : CallAt(m) /\ HintRight(m)
  BY <1>1, <1>2 DEF CallAt, HintRight, Asking, Open
<1> QED
  BY <1>1, <1>3, <1>4 DEF ContextInv

(* The invariant holds of every call.                                      *)
LEMMA ContextInvariant == ContextSpec => []ContextInv
BY ContextBegins, ContextKeeps, PTL DEF ContextSpec

(* A call reads its own user's zone, as it was at most ZoneTTL and a       *)
(* request's time ago: UserClock's cache is per user, and an entry counts  *)
(* from the answer it was made of.                                         *)
THEOREM ZonesRead == ContextSpec => []ZoneIsRecent
<1>1. ContextInv => ZoneIsRecent
  <2> SUFFICES ASSUME ContextInv, NEW m \in Messages, NEW i \in 1..Len(read[m])
               PROVE  /\ read[m][i].of.for = acts[m]
                      /\ read[m][i].of.says < Len(changed[acts[m]]) =>
                           read[m][i].seen < changed[acts[m]][read[m][i].of.says + 1] + ZoneTTL + AnswerTime
    BY DEF ZoneIsRecent
  <2>1. ReadRight(acts[m], read[m][i])
    BY DEF ContextInv, CallAt
  <2>2. read[m] \in Seq(Used) /\ changed[acts[m]] \in Seq(Nat)
    BY DEF ContextInv, ContextShape, ContextTypeOK
  <2>7. read[m][i] \in Used
    BY <2>2
  <2> DEFINE r == read[m][i]
             w == changed[acts[m]]
  <2>3. r.seen \in Nat /\ r.of.says \in Nat /\ r.of.for = acts[m]
    BY <2>1, <2>7 DEF Used, Reading, ReadRight
  <2>4. r.of.says < Len(w) => r.seen + 1 <= w[r.of.says + 1] + (ZoneTTL + AnswerTime)
    BY <2>1 DEF ReadRight, NoneBefore
  <2>8. w \in Seq(Nat)
    BY <2>2
  <2> HIDE DEF r, w
  <2>5. r.of.says < Len(w) => w[r.of.says + 1] \in Nat
    BY <2>3, <2>8
  <2>6. r.of.says < Len(w) => r.seen < w[r.of.says + 1] + ZoneTTL + AnswerTime
    BY <2>3, <2>4, <2>5
  <2> QED
    BY <2>3, <2>6 DEF r, w
<1> QED
  BY <1>1, ContextInvariant, PTL

(* The host names in a hint are of an answer at most HintTTL and a request *)
(* old, and the tools it offers are registered (hints.py).                 *)
THEOREM HintsShown == ContextSpec => []HintsAreRecent
<1>1. ContextInv => HintsAreRecent
  BY DEF ContextInv, HintRight, HintsAreRecent
<1> QED
  BY <1>1, ContextInvariant, PTL


-----------------------------------------------------------------------------
(* Evaluation.  An acting job has the instance to itself because the pool  *)
(* is closed before the first one is taken up and each waits for the one   *)
(* before; what is kept is whole because a run is committed with its       *)
(* samples.                                                                *)

(* A job.                                                                  *)
JobRecord == [at : {"waiting", "setup", "asking", "reset", "grade", "over"},
              done : 0..Steps, turns : 0..MaxSteps, tries : 0..Attempts, shown : BOOLEAN,
              said : BOOLEAN, ended : {"well", "error", "interrupt"},
              verdict : {"none", "passed", "failed", "error"}]

(* What a job has done where it is.                                        *)
JobIs(j) ==
    /\ j \in Pooled => job[j].at \in {"waiting", "asking", "reset", "over"}
    /\ job[j].at \in {"waiting", "setup"} => job[j].turns = 0
    /\ job[j].at = "asking" => job[j].turns < MaxSteps
    /\ job[j].at \in {"waiting", "asking", "grade", "over"} => job[j].done = 0
    /\ job[j].at \in {"setup", "reset"} => job[j].done < Steps

(* What the reset of a job has put back so far.                            *)
PutBackSoFar(j) ==
    j \notin broken =>
        /\ job[j].at = "reset" => \A n \in 1..job[j].done : <<j, n>> \notin left
        /\ job[j].at \in {"grade", "over"} => \A n \in 1..Steps : <<j, n>> \notin left

(* Acting jobs are taken one after the other.                              *)
InOrder == \A i, k \in Serial : job[i].at # "waiting" /\ k < i => Over(k)

(* What is over and what has not begun in a phase of the run.              *)
PhaseIs ==
    /\ phase = "start" => \A j \in Jobs : job[j].at = "waiting"
    /\ phase = "reading" => \A j \in Serial : job[j].at = "waiting"
    /\ phase = "acting" => \A j \in Pooled : Over(j)
    /\ phase \in {"connect", "saving"} => written /\ \A j \in Jobs : Over(j)
    /\ Running => options.write /\ options.yes /\ ~options.permanent
    /\ phase \in {"start", "reading", "acting", "connect"} => kept = << >>
    /\ draft # << >> => phase = "saving"

(* The open transaction is about the next model.                           *)
DraftIs ==
    draft # << >> =>
        /\ Len(draft) = 1 /\ Len(kept) < NModels /\ draft[1].model = Len(kept) + 1
        /\ draft[1].passed = Cardinality(Passed(Len(kept) + 1))
        /\ draft[1].samples \in {{}, JobsOf(Len(kept) + 1)}

EvaluationInv ==
    /\ EvaluationTypeOK
    /\ \A j \in Jobs : JobIs(j)
    /\ \A j \in Serial : PutBackSoFar(j)
    /\ InOrder /\ PhaseIs /\ DraftIs
    /\ AloneWhileActing /\ KeptWhole

(* The limits of a run are positive.                                       *)
LEMMA LimitsAre ==
    /\ NModels \in Nat /\ NModels > 0 /\ NSamples \in Nat /\ NReading \in Nat /\ NActing \in Nat
    /\ MaxSteps \in Nat /\ MaxSteps > 0 /\ Attempts \in Nat /\ Attempts > 0 /\ Steps \in Nat /\ Steps > 0
BY JobsAssumption, LimitsAssumption

USE LimitsAre

(* A job is of the pool or of the main thread, never both.                 *)
LEMMA JobsAre ==
    /\ Pooled \cap Serial = {} /\ Jobs = Pooled \cup Serial
    /\ Jobs \subseteq Nat /\ IsFiniteSet(Jobs)
<1> DEFINE p == NModels * PerModel(NReading)
           q == NModels * PerModel(NActing)
<1>1. p \in Nat /\ q \in Nat
  BY DEF PerModel
<1> HIDE DEF p, q
<1>2. Pooled = 1..p /\ Cardinality(Pooled) = p /\ IsFiniteSet(Pooled)
  <2>1. Pooled = 1..p
    BY DEF Pooled, p
  <2> QED
    BY <1>1, <2>1, FS_Interval
<1>3. Serial = (p + 1)..(p + q)
  BY <1>2 DEF Serial, q
<1>4. IsFiniteSet(Serial)
  BY <1>1, <1>3, FS_Interval
<1>5. IsFiniteSet(Jobs)
  BY <1>2, <1>4, FS_Union DEF Jobs
<1> QED
  BY <1>1, <1>2, <1>3, <1>5 DEF Jobs

(* The steps of a setup are counted to the last.                           *)
LEMMA StepsOver == \A n \in 1..Steps : n % Steps = IF n = Steps THEN 0 ELSE n
<1> SUFFICES ASSUME NEW n \in 1..Steps PROVE n % Steps = IF n = Steps THEN 0 ELSE n
  OBVIOUS
<1>1. CASE n = Steps
  BY <1>1
<1>2. CASE n # Steps
  BY <1>2
<1> QED
  BY <1>1, <1>2

(* While main is at work acting jobs have the instance to themselves.      *)
LEMMA AloneIf == EvaluationTypeOK /\ InOrder /\ PhaseIs /\ Running => AloneWhileActing
<1> SUFFICES ASSUME InOrder, PhaseIs, Running, NEW j \in Serial, AtWork(j)
             PROVE  \A i \in Jobs \ {j} : ~AtWork(i)
  BY DEF AloneWhileActing, PhaseIs
<1>1. phase = "acting"
  BY JobsAre DEF Running, PhaseIs, AtWork, Over
<1>2. \A i \in Pooled : ~AtWork(i)
  BY <1>1 DEF PhaseIs, AtWork, Over
<1>3. ASSUME NEW i \in Serial, i # j PROVE ~AtWork(i)
  <2>1. i < j \/ j < i
    BY <1>3, JobsAre
  <2> QED
    BY <2>1 DEF InOrder, AtWork, Over
<1> QED
  BY <1>2, <1>3, JobsAre

(* What passed is read off the jobs.                                       *)
LEMMA PassedStays ==
    UNCHANGED job => \A m : Passed(m)' = Passed(m)
BY DEF Passed

(* A step of one job leaves the others alone.                              *)
LEMMA JobBecomes ==
    ASSUME job \in [Jobs -> JobRecord], NEW j \in Jobs, NEW r \in JobRecord, job' = [job EXCEPT ![j] = r]
    PROVE  job' \in [Jobs -> JobRecord] /\ (\A i \in Jobs \ {j} : job'[i] = job[i]) /\ job'[j] = r
OBVIOUS

(* A step of a job that is at work.                                        *)
LEMMA JobStep ==
    ASSUME EvaluationInv, Running, NEW j \in Jobs, AtWork(j),
           job' \in [Jobs -> JobRecord], \A i \in Jobs \ {j} : job'[i] = job[i],
           job'[j].at # "waiting",
           left' \subseteq Serial \X (1..Steps), broken' \subseteq Serial,
           \A i \in Serial \ {j} : (i \in broken' <=> i \in broken)
                                   /\ \A n \in 1..Steps : <<i, n>> \in left' <=> <<i, n>> \in left,
           phase' = phase \/ (phase' = "killed" /\ Over(j)'),
           UNCHANGED <<options, written, draft, kept>>,
           JobIs(j)', j \in Serial => PutBackSoFar(j)'
    PROVE  EvaluationInv'
<1> USE DEF EvaluationInv
<1>1. phase \in {"reading", "acting"} /\ (j \in Serial => phase = "acting") /\ (j \in Pooled => phase = "reading")
  BY JobsAre DEF Running, PhaseIs, AtWork, Over
<1>2. kept = << >> /\ draft = << >>
  BY <1>1 DEF PhaseIs
<1>3. EvaluationTypeOK'
  BY DEF EvaluationTypeOK, JobRecord
<1>4. \A i \in Jobs : JobIs(i)'
  BY DEF JobIs
<1>5. ASSUME NEW i \in Serial PROVE PutBackSoFar(i)'
  <2>1. CASE i = j
    BY <2>1
  <2>2. CASE i # j
    <3>1. job'[i] = job[i] /\ (i \in broken' <=> i \in broken) /\ PutBackSoFar(i)
          /\ \A n \in 1..Steps : <<i, n>> \in left' <=> <<i, n>> \in left
      BY <2>2, JobsAre
    <3>2. \A n \in 1..job[i].done : n \in 1..Steps
      BY JobsAre DEF EvaluationTypeOK
    <3> QED
      BY <3>1, <3>2 DEF PutBackSoFar
  <2> QED
    BY <2>1, <2>2
<1>6. InOrder'
  BY JobsAre DEF InOrder, AtWork, Over
<1>7. PhaseIs'
  BY <1>1, <1>2, JobsAre DEF PhaseIs, Running, AtWork, Over
<1>8. DraftIs' /\ KeptWhole'
  <2>1. draft' = << >> /\ kept' = << >> /\ phase' # "exit_0" /\ Len(kept') = 0
    BY <1>1, <1>2
  <2> QED
    BY <2>1 DEF DraftIs, KeptWhole
<1>9. AloneWhileActing'
  BY <1>1, JobsAre DEF AloneWhileActing, AtWork, Over
<1> QED
  BY <1>3, <1>4, <1>5, <1>6, <1>7, <1>8, <1>9

(* A step that leaves the jobs alone and saves nothing.                    *)
LEMMA MainStep ==
    ASSUME EvaluationInv, UNCHANGED <<options, job, left, broken, kept>>, draft' = << >> \/ draft' = draft,
           EvaluationTypeOK', PhaseIs', KeptWhole'
    PROVE  EvaluationInv'
<1> USE DEF EvaluationInv
<1>1. InOrder' /\ AloneWhileActing'
  BY DEF InOrder, AloneWhileActing, AtWork, Over
<1>2. (\A j \in Jobs : JobIs(j)') /\ (\A j \in Serial : PutBackSoFar(j)')
  BY DEF JobIs, PutBackSoFar
<1>3. DraftIs'
  BY PassedStays DEF DraftIs
<1> QED
  BY <1>1, <1>2, <1>3

(* A job that was decided is over.                                         *)
LEMMA DecidedIs ==
    ASSUME job \in [Jobs -> JobRecord], NEW j \in Jobs, NEW v \in {"passed", "failed", "error"},
           job' = Decided(j, v)
    PROVE  /\ job' \in [Jobs -> JobRecord] /\ \A i \in Jobs \ {j} : job'[i] = job[i]
           /\ job'[j].at = "over" /\ job'[j].done = 0
<1> DEFINE r == [Idle EXCEPT !.at = "over", !.verdict = v]
<1>1. Idle \in JobRecord /\ Idle.done = 0
  BY DEF Idle, JobRecord
<1>4. r \in JobRecord /\ r.at = "over" /\ r.done = 0
  BY <1>1 DEF JobRecord
<1>2. job' = [job EXCEPT ![j] = r]
  BY DEF Decided
<1> HIDE DEF r
<1> QED
  BY <1>2, <1>4, JobBecomes

(* Every step of main, of a job and of whoever kills it keeps the          *)
(* invariant.                                                              *)
LEMMA EvaluationKeeps == EvaluationInv /\ [EvaluationNext]_evalVars => EvaluationInv'
<1> SUFFICES ASSUME EvaluationInv, [EvaluationNext]_evalVars PROVE EvaluationInv'
  OBVIOUS
<1>0. /\ EvaluationTypeOK /\ InOrder /\ PhaseIs /\ DraftIs /\ KeptWhole /\ AloneWhileActing
      /\ \A j \in Jobs : JobIs(j) /\ job[j] \in JobRecord
      /\ \A j \in Serial : PutBackSoFar(j)
      /\ job \in [Jobs -> JobRecord]
  BY DEF EvaluationInv, EvaluationTypeOK, JobRecord
<1>1. CASE StartRun
  <2>1. PhaseIs'
    BY <1>0, <1>1, JobsAre DEF StartRun, PhaseIs, Running
  <2>2. EvaluationTypeOK'
    BY <1>0, <1>1 DEF StartRun, EvaluationTypeOK
  <2>3. KeptWhole'
    BY <1>0, <1>1, PassedStays DEF StartRun, KeptWhole, Over
  <2> QED
    BY <1>1, <2>1, <2>2, <2>3, MainStep DEF StartRun
<1>2. CASE ClosePool
  <2>1. PhaseIs'
    BY <1>0, <1>2 DEF ClosePool, PhaseIs, Running, Over
  <2>2. EvaluationTypeOK'
    BY <1>0, <1>2 DEF ClosePool, EvaluationTypeOK
  <2>3. KeptWhole'
    BY <1>0, <1>2, PassedStays DEF ClosePool, KeptWhole, Over
  <2> QED
    BY <1>2, <2>1, <2>2, <2>3, MainStep DEF ClosePool
<1>3. CASE WriteRecord \/ Connect
  <2>1. PhaseIs'
    BY <1>0, <1>3 DEF WriteRecord, Connect, PhaseIs, Running, Over
  <2>2. EvaluationTypeOK'
    BY <1>0, <1>3 DEF WriteRecord, Connect, EvaluationTypeOK
  <2>3. KeptWhole'
    BY <1>0, <1>3, PassedStays DEF WriteRecord, Connect, KeptWhole, Over, PhaseIs
  <2> QED
    BY <1>3, <2>1, <2>2, <2>3, MainStep DEF WriteRecord, Connect
<1>4. CASE Finish
  <2>1. PhaseIs'
    BY <1>0, <1>4 DEF Finish, PhaseIs, DraftIs, Running, Over
  <2>2. EvaluationTypeOK'
    BY <1>0, <1>4 DEF Finish, EvaluationTypeOK
  <2>3. KeptWhole'
    BY <1>0, <1>4, PassedStays DEF Finish, KeptWhole, Over
  <2> QED
    BY <1>4, <2>1, <2>2, <2>3, MainStep DEF Finish
<1>5. CASE Kill
  <2>1. PhaseIs'
    BY <1>0, <1>5 DEF Kill, PhaseIs, Running, Over
  <2>2. EvaluationTypeOK'
    BY <1>0, <1>5 DEF Kill, EvaluationTypeOK
  <2>3. KeptWhole'
    BY <1>0, <1>5, PassedStays DEF Kill, KeptWhole, Over
  <2> QED
    BY <1>5, <2>1, <2>2, <2>3, MainStep DEF Kill
<1>6. CASE InsertRun \/ InsertSamples \/ Commit
  <2>0. /\ phase = "saving" /\ phase' = phase /\ UNCHANGED <<options, job, left, broken, written>>
        /\ written /\ \A j \in Jobs : Over(j)
    BY <1>0, <1>6 DEF InsertRun, InsertSamples, Commit, PhaseIs
  <2>1. /\ InOrder' /\ AloneWhileActing' /\ PhaseIs'
        /\ (\A j \in Jobs : JobIs(j)') /\ (\A j \in Serial : PutBackSoFar(j)')
    BY <1>0, <2>0 DEF InOrder, AloneWhileActing, AtWork, Over, JobIs, PutBackSoFar, PhaseIs, Running
  <2> DEFINE n == Len(kept) + 1
  <2>2. /\ kept \in Seq(RunRow) /\ draft \in Seq(RunRow) /\ Len(kept) \in Nat
    BY <1>0 DEF EvaluationTypeOK
  <2>3. /\ Cardinality(Passed(n)) \in Nat /\ JobsOf(n) \in SUBSET Jobs
    BY JobsAre, FS_Subset, FS_CardinalityType DEF Passed, JobsOf
  <2>4. CASE InsertRun
    <3>1. draft' = <<NextRun>> /\ kept' = kept /\ Len(kept) < NModels
      BY <2>4 DEF InsertRun
    <3>2. NextRun = [model |-> n, passed |-> Cardinality(Passed(n)), samples |-> {}] /\ NextRun \in RunRow
      BY <2>2, <2>3, <3>1 DEF NextRun, RunRow
    <3>3. draft' \in Seq(RunRow) /\ Len(draft') = 1 /\ draft'[1] = NextRun
      BY <3>1, <3>2
    <3>4. EvaluationTypeOK'
      BY <1>0, <2>0, <3>1, <3>3 DEF EvaluationTypeOK
    <3>5. DraftIs'
      BY <2>0, <3>1, <3>2, <3>3, PassedStays DEF DraftIs
    <3>6. KeptWhole'
      BY <1>0, <2>0, <3>1, PassedStays DEF KeptWhole, Over
    <3> QED
      BY <2>1, <3>4, <3>5, <3>6 DEF EvaluationInv
  <2>5. CASE InsertSamples
    <3> DEFINE d == draft[1]
    <3>1. draft # << >> /\ Len(draft) = 1 /\ d \in RunRow /\ d.model = n /\ Len(kept) < NModels
          /\ d.passed = Cardinality(Passed(n)) /\ kept' = kept
      BY <1>0, <2>2, <2>5 DEF InsertSamples, DraftIs
    <3> DEFINE e == [d EXCEPT !.samples = JobsOf(d.model)]
    <3>2. e \in RunRow /\ e.model = n /\ e.samples = JobsOf(n) /\ e.passed = Cardinality(Passed(n))
      BY <2>3, <3>1 DEF RunRow
    <3>3. draft' = <<e>>
      BY <2>5 DEF InsertSamples
    <3> HIDE DEF e
    <3>4. draft' \in Seq(RunRow) /\ Len(draft') = 1 /\ draft'[1] = e
      BY <3>2, <3>3
    <3>5. EvaluationTypeOK'
      BY <1>0, <2>0, <3>1, <3>4 DEF EvaluationTypeOK
    <3>6. DraftIs'
      BY <2>0, <3>1, <3>2, <3>4, PassedStays DEF DraftIs
    <3>7. KeptWhole'
      BY <1>0, <2>0, <3>1, PassedStays DEF KeptWhole, Over
    <3> QED
      BY <2>1, <3>5, <3>6, <3>7 DEF EvaluationInv
  <2>6. CASE Commit
    <3> DEFINE d == draft[1]
    <3>1. draft # << >> /\ Len(draft) = 1 /\ d \in RunRow /\ d.model = n /\ Len(kept) < NModels
          /\ d.passed = Cardinality(Passed(n)) /\ d.samples = JobsOf(n)
      BY <1>0, <2>2, <2>6 DEF Commit, DraftIs
    <3>3. kept' = kept \o draft /\ draft' = << >>
      BY <2>6 DEF Commit
    <3>4. /\ kept' \in Seq(RunRow) /\ Len(kept') = n /\ kept'[n] = d
          /\ \A i \in 1..Len(kept) : kept'[i] = kept[i]
      <4>0. /\ kept \o draft \in Seq(RunRow) /\ Len(kept \o draft) = Len(kept) + Len(draft)
            /\ \A i \in 1..(Len(kept) + Len(draft)) :
                 (kept \o draft)[i] = IF i <= Len(kept) THEN kept[i] ELSE draft[i - Len(kept)]
        BY <2>2, ConcatProperties
      <4>1. Len(kept') = n /\ kept' \in Seq(RunRow)
        BY <2>2, <3>1, <3>3, <4>0
      <4>2. ASSUME NEW i \in 1..n PROVE kept'[i] = IF i <= Len(kept) THEN kept[i] ELSE draft[i - Len(kept)]
        BY <2>2, <3>1, <3>3, <4>0
      <4> QED
        BY <2>2, <4>1, <4>2
    <3> HIDE DEF d
    <3>5. EvaluationTypeOK'
      BY <1>0, <2>0, <3>3, <3>4 DEF EvaluationTypeOK
    <3>6. DraftIs'
      BY <3>3 DEF DraftIs
    <3>7. KeptWhole'
      <4>1. ASSUME NEW i \in 1..Len(kept')
            PROVE  /\ kept'[i].samples = JobsOf(kept'[i].model) /\ kept'[i].model = i
                   /\ kept'[i].passed = Cardinality(Passed(i))
                   /\ \A j \in kept'[i].samples : Over(j)
        <5>1. CASE i = n
          BY <2>0, <2>3, <3>1, <3>4, <5>1
        <5>2. CASE i # n
          <6>1. i \in 1..Len(kept) /\ kept'[i] = kept[i]
            BY <2>2, <3>4, <5>2
          <6> QED
            BY <1>0, <6>1 DEF KeptWhole
        <5> QED
          BY <5>1, <5>2
      <4> QED
        BY <2>0, <4>1, PassedStays DEF KeptWhole, Over
    <3> QED
      BY <2>1, <3>5, <3>6, <3>7 DEF EvaluationInv
  <2> QED
    BY <1>6, <2>4, <2>5, <2>6
<1>7. ASSUME Running, NEW j \in Jobs, TakeUp(j) PROVE EvaluationInv'
  <2>1. /\ job[j].at = "waiting" /\ phase' = phase /\ phase \in {"reading", "acting"}
        /\ UNCHANGED <<options, left, broken, written, draft, kept>>
        /\ \/ phase = "reading" /\ j \in Pooled /\ job' = [job EXCEPT ![j].at = "asking"]
           \/ /\ phase = "acting" /\ j \in Serial /\ job' = [job EXCEPT ![j].at = "setup"]
              /\ \A i \in Serial : i < j => Over(i)
    BY <1>7 DEF TakeUp
  <2>2. JobIs(j) /\ job[j] \in JobRecord
    BY <1>0
  <2>3. /\ job' \in [Jobs -> JobRecord] /\ \A i \in Jobs \ {j} : job'[i] = job[i]
        /\ job'[j].at = (IF j \in Pooled THEN "asking" ELSE "setup")
        /\ job'[j].done = 0 /\ job'[j].turns = 0
    BY <1>0, <2>1, <2>2, JobsAre DEF JobIs, JobRecord
  <2>4. EvaluationTypeOK'
    BY <1>0, <2>1, <2>3 DEF EvaluationTypeOK, JobRecord
  <2>5. \A i \in Jobs : JobIs(i)'
    BY <1>0, <2>3, JobsAre DEF JobIs
  <2>6. ASSUME NEW i \in Serial PROVE PutBackSoFar(i)'
    BY <1>0, <2>1, <2>3, JobsAre DEF PutBackSoFar
  <2>7. InOrder'
    BY <1>0, <2>1, <2>3, JobsAre DEF InOrder, Over
  <2>8. PhaseIs'
    BY <1>0, <2>1, <2>3, JobsAre DEF PhaseIs, Running, Over
  <2>9. DraftIs' /\ KeptWhole'
    <3>1. draft' = << >> /\ kept' = << >> /\ phase' # "exit_0" /\ Len(kept') = 0
      BY <1>0, <2>1 DEF PhaseIs
    <3> QED
      BY <3>1 DEF DraftIs, KeptWhole
  <2>10. AloneWhileActing'
    <3>1. Running'
      BY <1>7, <2>1 DEF Running
    <3>2. (EvaluationTypeOK /\ InOrder /\ PhaseIs /\ Running => AloneWhileActing)'
      BY AloneIf, PTL
    <3> QED
      BY <2>4, <2>7, <2>8, <3>1, <3>2
  <2> QED
    BY <2>4, <2>5, <2>6, <2>7, <2>8, <2>9, <2>10 DEF EvaluationInv
<1>8. ASSUME UNCHANGED evalVars PROVE EvaluationInv'
  <2>1. UNCHANGED <<phase, options, job, left, broken, written, draft, kept>>
    BY <1>8 DEF evalVars
  <2>2. EvaluationTypeOK' /\ PhaseIs' /\ KeptWhole'
    BY <1>0, <2>1, PassedStays DEF EvaluationTypeOK, PhaseIs, Running, KeptWhole, Over
  <2> QED
    BY <2>1, <2>2, MainStep
<1>9. ASSUME Running, NEW j \in Jobs, SetUp(j) PROVE EvaluationInv'
  <2> DEFINE n == job[j].done + 1
  <2>1. /\ job[j].at = "setup" /\ JobIs(j) /\ job[j] \in JobRecord /\ j \in Serial
        /\ job' = [job EXCEPT ![j].done = n % Steps, ![j].at = IF n = Steps THEN "asking" ELSE @]
        /\ left' = left \cup {<<j, n>>} \/ UNCHANGED left
        /\ UNCHANGED <<phase, options, broken, written, draft, kept>>
    BY <1>0, <1>9, JobsAre DEF SetUp, JobIs
  <2>2. n \in 1..Steps /\ n % Steps = (IF n = Steps THEN 0 ELSE n)
    BY <2>1, StepsOver DEF JobIs, JobRecord
  <2>3. /\ job' \in [Jobs -> JobRecord] /\ \A i \in Jobs \ {j} : job'[i] = job[i]
        /\ job'[j].at = (IF n = Steps THEN "asking" ELSE "setup")
        /\ job'[j].done = (IF n = Steps THEN 0 ELSE n) /\ job'[j].turns = 0
    <3> DEFINE r == [job[j] EXCEPT !.done = n % Steps, !.at = IF n = Steps THEN "asking" ELSE @]
    <3>1. r.done = n % Steps /\ r.at = (IF n = Steps THEN "asking" ELSE "setup") /\ r.turns = job[j].turns
      BY <2>1 DEF JobRecord
    <3>2. r \in JobRecord
      <4> DEFINE d == n % Steps
                 a == IF n = Steps THEN "asking" ELSE job[j].at
      <4>1. d \in 0..Steps /\ a \in {"asking", job[j].at}
        BY <2>2
      <4>2. [job[j] EXCEPT !.done = d, !.at = a] \in JobRecord
        <5> HIDE DEF d, a
        <5> QED
          BY <2>1, <4>1 DEF JobRecord
      <4> QED
        BY <4>2
    <3>3. job' = [job EXCEPT ![j] = r]
      BY <1>0, <2>1
    <3> HIDE DEF r
    <3> QED
      BY <1>0, <2>1, <2>2, <3>1, <3>2, <3>3, JobBecomes DEF JobIs
  <2>4. left' \subseteq Serial \X (1..Steps) /\ broken' \subseteq Serial
    <3>1. left \subseteq Serial \X (1..Steps) /\ broken \subseteq Serial
      BY <1>0 DEF EvaluationTypeOK
    <3>2. <<j, n>> \in Serial \X (1..Steps)
      BY <2>1, <2>2
    <3> HIDE DEF n
    <3> QED
      BY <2>1, <3>1, <3>2
  <2>5. \A i \in Serial \ {j} : \A k \in 1..Steps : <<i, k>> \in left' <=> <<i, k>> \in left
    BY <2>1
  <2> HIDE DEF n
  <2>6. JobIs(j)' /\ PutBackSoFar(j)'
    BY <2>1, <2>2, <2>3, JobsAre DEF JobIs, PutBackSoFar
  <2> QED
    BY <1>9, <2>1, <2>3, <2>4, <2>5, <2>6, JobStep DEF AtWork
<1>10. ASSUME Running, NEW j \in Jobs, SetUpRaises(j) \/ PutBackRaises(j) PROVE EvaluationInv'
  <2>1. /\ job[j].at \in {"setup", "reset"} /\ JobIs(j) /\ j \in Serial
        /\ job' = Decided(j, "error") /\ broken' = broken \cup {j}
        /\ UNCHANGED <<phase, options, left, written, draft, kept>>
    BY <1>0, <1>10, JobsAre DEF SetUpRaises, PutBackRaises, JobIs
  <2>2. /\ job' \in [Jobs -> JobRecord] /\ \A i \in Jobs \ {j} : job'[i] = job[i]
        /\ job'[j].at = "over" /\ job'[j].done = 0
    BY <1>0, <2>1, DecidedIs
  <2>3. JobIs(j)' /\ PutBackSoFar(j)'
    BY <2>1, <2>2 DEF JobIs, PutBackSoFar
  <2> QED
    BY <1>0, <1>10, <2>1, <2>2, <2>3, JobStep DEF AtWork, EvaluationTypeOK
<1>11. ASSUME Running, NEW j \in Jobs, EndpointFails(j) \/ Turn(j) \/ Interrupt(j) PROVE EvaluationInv'
  <2>1. /\ job[j].at = "asking" /\ JobIs(j) /\ job[j] \in JobRecord
        /\ UNCHANGED <<phase, options, left, broken, written, draft, kept>>
    BY <1>0, <1>11 DEF EndpointFails, Turn, Interrupt
  <2>2. /\ job' \in [Jobs -> JobRecord] /\ \A i \in Jobs \ {j} : job'[i] = job[i]
        /\ job'[j].done = job[j].done
        /\ \/ job'[j].at = "asking" /\ job'[j].turns < MaxSteps
           \/ job'[j].at = "reset"
    <3>1. job[j].turns \in 0..MaxSteps /\ job[j].turns < MaxSteps /\ job[j].tries \in 0..Attempts
      BY <2>1 DEF JobIs, JobRecord
    <3>2. CASE EndpointFails(j)
      BY <1>0, <2>1, <3>1, <3>2 DEF EndpointFails, Leave, JobRecord
    <3>3. CASE Interrupt(j)
      BY <1>0, <2>1, <3>3 DEF Interrupt, Leave, JobRecord
    <3>4. CASE Turn(j)
      <4>1. CASE job' = [Leave(j, "well") EXCEPT ![j].said = TRUE]
        BY <1>0, <2>1, <4>1 DEF Leave, JobRecord
      <4>2. ASSUME NEW value \in BOOLEAN,
                   job' = LET went == [job EXCEPT ![j].turns = @ + 1, ![j].tries = 0, ![j].shown = @ \/ value]
                          IN  IF job[j].turns + 1 = MaxSteps THEN [went EXCEPT ![j].at = "reset"] ELSE went
            PROVE  /\ job' \in [Jobs -> JobRecord] /\ \A i \in Jobs \ {j} : job'[i] = job[i]
                   /\ job'[j].done = job[j].done
                   /\ \/ job'[j].at = "asking" /\ job'[j].turns < MaxSteps
                      \/ job'[j].at = "reset"
        <5> DEFINE went == [job EXCEPT ![j].turns = @ + 1, ![j].tries = 0, ![j].shown = @ \/ value]
        <5>1. /\ went \in [Jobs -> JobRecord] /\ \A i \in Jobs \ {j} : went[i] = job[i]
              /\ went[j].done = job[j].done /\ went[j].at = "asking" /\ went[j].turns = job[j].turns + 1
          <6> DEFINE r == [job[j] EXCEPT !.turns = @ + 1, !.tries = 0, !.shown = @ \/ value]
          <6>1. r \in JobRecord /\ r.done = job[j].done /\ r.at = "asking" /\ r.turns = job[j].turns + 1
            <7>1. job[j].shown \in BOOLEAN /\ (job[j].shown \/ value) \in BOOLEAN
              BY <2>1 DEF JobRecord
            <7>2. job[j].turns + 1 \in 0..MaxSteps /\ 0 \in 0..Attempts
              BY <3>1
            <7> QED
              BY <2>1, <7>1, <7>2 DEF JobRecord
          <6>2. went = [job EXCEPT ![j] = r]
            BY <1>0
          <6> HIDE DEF r, went
          <6> QED
            BY <1>0, <6>1, <6>2
        <5>2. job' = IF job[j].turns + 1 = MaxSteps THEN [went EXCEPT ![j].at = "reset"] ELSE went
          BY <4>2
        <5> HIDE DEF went
        <5> QED
          BY <3>1, <5>1, <5>2 DEF JobRecord
      <4> QED
        BY <3>4, <4>1, <4>2 DEF Turn
    <3> QED
      BY <1>11, <3>2, <3>3, <3>4
  <2>3. JobIs(j)' /\ (j \in Serial => PutBackSoFar(j)')
    <3>1. job[j].done = 0
      BY <2>1 DEF JobIs
    <3> QED
      BY <2>1, <2>2, <3>1 DEF JobIs, PutBackSoFar
  <2> QED
    BY <1>0, <1>11, <2>1, <2>2, <2>3, JobStep DEF AtWork, EvaluationTypeOK
<1>12. ASSUME Running, NEW j \in Jobs, PutBack(j) PROVE EvaluationInv'
  <2> DEFINE n == job[j].done + 1
  <2>1. /\ job[j].at = "reset" /\ JobIs(j) /\ job[j] \in JobRecord /\ j \in Serial /\ PutBackSoFar(j)
        /\ job' = [job EXCEPT ![j].done = n % Steps, ![j].at = IF n = Steps THEN "grade" ELSE @]
        /\ \/ left' = left \ {<<j, n>>} /\ UNCHANGED broken
           \/ broken' = broken \cup {j} /\ UNCHANGED left
        /\ UNCHANGED <<phase, options, written, draft, kept>>
    BY <1>0, <1>12 DEF PutBack
  <2>2. n \in 1..Steps /\ n % Steps = (IF n = Steps THEN 0 ELSE n) /\ \A k \in 1..n : k = n \/ k \in 1..job[j].done
    BY <2>1, StepsOver DEF JobIs, JobRecord
  <2>3. /\ job' \in [Jobs -> JobRecord] /\ \A i \in Jobs \ {j} : job'[i] = job[i]
        /\ job'[j].at = (IF n = Steps THEN "grade" ELSE "reset")
        /\ job'[j].done = (IF n = Steps THEN 0 ELSE n)
    <3> DEFINE r == [job[j] EXCEPT !.done = n % Steps, !.at = IF n = Steps THEN "grade" ELSE @]
    <3>1. r.done = n % Steps /\ r.at = (IF n = Steps THEN "grade" ELSE "reset")
      BY <2>1 DEF JobRecord
    <3>2. r \in JobRecord
      <4> DEFINE d == n % Steps
                 a == IF n = Steps THEN "grade" ELSE job[j].at
      <4>1. d \in 0..Steps /\ a \in {"grade", job[j].at}
        BY <2>2
      <4>2. [job[j] EXCEPT !.done = d, !.at = a] \in JobRecord
        <5> HIDE DEF d, a
        <5> QED
          BY <2>1, <4>1 DEF JobRecord
      <4> QED
        BY <4>2
    <3>3. job' = [job EXCEPT ![j] = r]
      BY <1>0, <2>1
    <3> HIDE DEF r
    <3> QED
      BY <1>0, <2>2, <3>1, <3>2, <3>3, JobBecomes
  <2>4. left' \subseteq Serial \X (1..Steps) /\ broken' \subseteq Serial
    BY <1>0, <2>1 DEF EvaluationTypeOK
  <2>5. \A i \in Serial \ {j} : (i \in broken' <=> i \in broken)
                                /\ \A k \in 1..Steps : <<i, k>> \in left' <=> <<i, k>> \in left
    BY <2>1
  <2>6. j \notin broken' => \A k \in 1..n : <<j, k>> \notin left'
    BY <2>1, <2>2 DEF PutBackSoFar
  <2> HIDE DEF n
  <2>7. JobIs(j)' /\ PutBackSoFar(j)'
    BY <2>1, <2>2, <2>3, <2>6, JobsAre DEF JobIs, PutBackSoFar
  <2> QED
    BY <1>12, <2>1, <2>3, <2>4, <2>5, <2>7, JobStep DEF AtWork
<1>13. ASSUME Running, NEW j \in Jobs, Grade(j) PROVE EvaluationInv'
  <2>1. PICK v \in Grades(j) : job' = Decided(j, v)
    BY <1>13 DEF Grade
  <2>2. /\ job[j].at = "grade" \/ (job[j].at = "reset" /\ j \in Pooled)
        /\ phase' \in {phase, "killed"} /\ v \in {"passed", "failed", "error"}
        /\ UNCHANGED <<options, left, broken, written, draft, kept>>
    BY <1>13 DEF Grade, Grades
  <2>3. /\ job' \in [Jobs -> JobRecord] /\ \A i \in Jobs \ {j} : job'[i] = job[i]
        /\ job'[j].at = "over" /\ job'[j].done = 0
    BY <1>0, <2>1, <2>2, DecidedIs
  <2>4. JobIs(j)'
    BY <2>3 DEF JobIs
  <2>5. j \in Serial => PutBackSoFar(j)'
    BY <1>0, <2>2, <2>3, JobsAre DEF PutBackSoFar
  <2> QED
    BY <1>0, <1>13, <2>2, <2>3, <2>4, <2>5, JobStep DEF AtWork, Over, EvaluationTypeOK
<1> QED
  BY <1>1, <1>2, <1>3, <1>4, <1>5, <1>6, <1>7, <1>8, <1>9, <1>10, <1>11, <1>12, <1>13
     DEF EvaluationNext, EvaluationOver

(* Every job waits, and nothing was kept.                                  *)
LEMMA EvaluationBegins == EvaluationInit => EvaluationInv
<1> SUFFICES ASSUME EvaluationInit PROVE EvaluationInv
  OBVIOUS
<1>1. /\ phase = "start" /\ job = [j \in Jobs |-> Idle] /\ options \in Options /\ left = {} /\ broken = {}
      /\ written = FALSE /\ draft = << >> /\ kept = << >>
  BY DEF EvaluationInit
<1>2. Idle \in JobRecord /\ Len(<< >>) = 0 /\ << >> \in Seq(RunRow)
  BY DEF Idle, JobRecord
<1>3. EvaluationTypeOK
  BY <1>1, <1>2 DEF EvaluationTypeOK, JobRecord
<1>4. \A j \in Jobs : job[j].at = "waiting" /\ job[j].turns = 0 /\ job[j].done = 0
  BY <1>1 DEF Idle
<1> QED
  BY <1>1, <1>2, <1>3, <1>4, JobsAre DEF EvaluationInv, JobIs, PutBackSoFar, InOrder, PhaseIs, DraftIs,
     AloneWhileActing, KeptWhole, AtWork, Over, Running

(* The invariant holds throughout an evaluation.                           *)
LEMMA EvaluationInvariant == EvaluationSpec => []EvaluationInv
BY EvaluationBegins, EvaluationKeeps, PTL DEF EvaluationSpec

(* While a job that acts is at work, no other job is, of any model and any *)
(* case (run.py: the pool is for reading cases, acting ones go one by one).*)
THEOREM ActingAlone == EvaluationSpec => []AloneWhileActing
<1>1. EvaluationInv => AloneWhileActing
  BY DEF EvaluationInv
<1> QED
  BY <1>1, EvaluationInvariant, PTL

(* What a job set up is put back when it is over, unless putting it back   *)
(* raised.                                                                 *)
THEOREM InstanceRestored == EvaluationSpec => []RestoredUnlessBroken
<1>1. EvaluationInv => RestoredUnlessBroken
  BY DEF EvaluationInv, PutBackSoFar, RestoredUnlessBroken, Over
<1> QED
  BY <1>1, EvaluationInvariant, PTL

(* A run in the database has the samples of its model and the passes they  *)
(* are counted from, wherever the evaluation is killed.                    *)
THEOREM RunsKeptWhole == EvaluationSpec => []KeptWhole
<1>1. EvaluationInv => KeptWhole
  BY DEF EvaluationInv
<1> QED
  BY <1>1, EvaluationInvariant, PTL


-----------------------------------------------------------------------------
(* The composition.  The parts at rest stay in their initial states, so    *)
(* that all five invariants hold together.                                 *)
ServingInv == IInv /\ StartInv /\ ContextInv /\ EvaluationInv /\ ThrowawayInv

(* Whichever part moves, the others begin as they may.                     *)
LEMMA ServingBegins == ServingInit => ServingInv
<1>1. ServingInit => Init /\ StartInit /\ ContextInit /\ EvaluationInit /\ ThrowawayInit
  BY DEF ServingInit, CacheAtRest, StartAtRest, ContextAtRest, EvaluationAtRest, ThrowawayAtRest
<1> QED
  BY <1>1, InvariantInit, StartBegins, ContextBegins, EvaluationBegins, ThrowawayBegins DEF ServingInv

(* A step of one part is a stuttering step of each of the others.          *)
LEMMA ServingKeeps ==
    ServingInv /\ [ServingNext]_<<part, vars, startVars, contextVars, evalVars, throwawayVars>> => ServingInv'
<1> SUFFICES ASSUME ServingInv,
                    [ServingNext]_<<part, vars, startVars, contextVars, evalVars, throwawayVars>>
             PROVE  ServingInv'
  OBVIOUS
<1>1. /\ [Next]_vars /\ [StartNext]_startVars /\ [ContextNext]_contextVars
      /\ [EvaluationNext]_evalVars /\ [ThrowawayNext]_throwawayVars
  BY DEF ServingNext, CacheMoves, StartMoves, ContextMoves, EvaluationMoves, ThrowawayMoves
<1> QED
  BY <1>1, InvariantNext, StartKeeps, ContextKeeps, EvaluationKeeps, ThrowawayKeeps DEF ServingInv

(* In the composition every variable of the part that moves keeps its type.*)
THEOREM ServingTyped == ServingSpec => []ServingTypeOK
<1>1. ServingInv => ServingTypeOK
  BY DEF ServingInv, IInv, StartInv, StartShape, ContextInv, ContextShape, EvaluationInv, ThrowawayInv,
     ServingTypeOK
<1> QED
  BY <1>1, ServingBegins, ServingKeeps, PTL DEF ServingSpec
=============================================================================
