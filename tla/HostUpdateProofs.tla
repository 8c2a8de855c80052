-------------------------- MODULE HostUpdateProofs --------------------------
(***************************************************************************)
(* HostUpdate proved for any fields, values, containers and templates, and *)
(* any number of overlapping calls: its types, what an update keeps, what  *)
(* a round trip changes, and which references a posted host can hold.      *)
(***************************************************************************)
EXTENDS HostUpdate, FiniteSetTheorems, TLAPS

(* A host as openITCOCKPIT stores it: nothing of its own that equals the   *)
(* template, the contact pair inherited as a whole.                        *)
Normal(h) == h = Save(View(h))

(* A request gives its fields settings, or hands them back.                *)
Asked(r) ==
    /\ DOMAIN r.fields \subseteq Fields
    /\ \A f \in DOMAIN r.fields : r.fields[f] \in Settings(f) \cup {Null}
    /\ r.template \in Values \cup {Null}
    /\ r.container \in Containers \cup {Null}

PairWhole(p) == (p.value["contacts"] = Null) <=> (p.value["contactgroups"] = Null)

(* What a call has on its way: a payload merged from what it read and      *)
(* accepted, with a pair that is reset as a whole.                         *)
CallInv(c) ==
    /\ Asked(req[c])
    /\ pc[c] = "posting" => payload[c] = Merged(c) /\ Accepted(c)
    /\ PairWhole(payload[c])

(* The inductive invariant.                                                *)
IInv ==
    /\ TypeOK
    /\ req = [c \in Calls |-> req[c]]
    /\ Normal(host)
    /\ \A c \in Calls : CallInv(c)

-----------------------------------------------------------------------------
(* What the view, the merge and the save return.                           *)

(* Null, Empty and Inherit are no values, and a template gives every field *)
(* a setting.                                                              *)
LEMMA Tokens ==
    /\ Null \notin Values \cup {Empty, Inherit}
    /\ Inherit \notin Values \cup {Empty, Null}
    /\ Pair \subseteq Fields /\ Refs \subseteq Fields
    /\ \A t \in Values, f \in Fields : Default[t][f] \in Values \cup {Empty}
<1>1. \A f : Settings(f) \subseteq Values \cup {Empty}
  BY DEF Settings
<1> QED
  BY <1>1, ValuesAssumption, DefaultAssumption DEF Null, Empty, Inherit, Fields, Refs

(* An effective value is never null and never the mark of inheritance.     *)
LEMMA ViewType ==
    ASSUME NEW h \in Host
    PROVE  /\ \A f \in Fields : Effective(h)[f] \in Values \cup {Empty}
           /\ View(h) \in Payload /\ PairWhole(View(h))
<1>1. \A f \in Fields : Effective(h)[f] \in Values \cup {Empty}
  BY Tokens DEF Effective, Host
<1>2. View(h) \in Payload
  BY <1>1 DEF View, Payload, Host, Effective
<1>3. PairWhole(View(h))
  BY <1>1, Tokens DEF PairWhole, View, Pair
<1> QED
  BY <1>1, <1>2, <1>3

(* A save stores a host as openITCOCKPIT stores them, and every value that *)
(* was given is the effective value afterwards.                            *)
LEMMA SaveKeeps ==
    ASSUME NEW p \in Payload, PairWhole(p)
    PROVE  /\ Save(p) \in Host
           /\ \A f \in Fields : Effective(Save(p))[f] = IF p.value[f] = Null THEN Default[p.template][f] ELSE p.value[f]
           /\ Save(p).container = p.container /\ Save(p).template = p.template
<1> DEFINE h == Save(p)
<1>1. p.template \in Values /\ p.container \in Containers /\ \A f \in Fields : p.value[f] \in Values \cup {Empty, Null}
  BY DEF Payload
<1>2. h.container = p.container /\ h.template = p.template /\ h.own = [f \in Fields |-> h.own[f]]
  BY DEF Save
<1>3. ASSUME NEW f \in Fields \ Pair
      PROVE  h.own[f] = IF p.value[f] \in {Null, Default[p.template][f]} THEN Inherit ELSE p.value[f]
  BY DEF Save, Inherits
<1>4. ASSUME NEW f \in Pair
      PROVE  \/ /\ \A g \in Pair : p.value[g] \in {Null, Default[p.template][g]}
                /\ h.own[f] = Inherit
             \/ p.value[f] # Null /\ h.own[f] = p.value[f]
  <2>1. CASE \A g \in Pair : Inherits(p, g)
    BY <2>1, Tokens DEF Save, Inherits
  <2>2. CASE ~ \A g \in Pair : Inherits(p, g)
    <3>1. \A g \in Pair : p.value[g] # Null
      BY <2>2 DEF Inherits, PairWhole, Pair
    <3> QED
      BY <2>2, <3>1, Tokens DEF Save
  <2> QED
    BY <2>1, <2>2
<1>5. \A f \in Fields : h.own[f] \in Values \cup {Empty, Inherit}
  BY <1>1, <1>3, <1>4
<1>6. h \in Host
  BY <1>1, <1>2, <1>5 DEF Host, Save
<1>7. \A f \in Fields : Effective(h)[f] = IF h.own[f] = Inherit THEN Default[p.template][f] ELSE h.own[f]
  BY <1>2 DEF Effective
<1>8. \A f \in Fields : Effective(h)[f] = IF p.value[f] = Null THEN Default[p.template][f] ELSE p.value[f]
  BY <1>1, <1>3, <1>4, <1>7, Tokens
<1> QED
  BY <1>2, <1>6, <1>8

(* Saving what was just read stores the same host again.                   *)
LEMMA SaveNormal ==
    ASSUME NEW p \in Payload, PairWhole(p)
    PROVE  Normal(Save(p))
<1> DEFINE h == Save(p)
           q == View(h)
<1>1. /\ q.template = p.template /\ q.container = p.container /\ p.template \in Values
      /\ \A f \in Fields : q.value[f] = IF p.value[f] = Null THEN Default[p.template][f] ELSE p.value[f]
  BY SaveKeeps DEF View, Payload
<1>2. \A f \in Fields : q.value[f] # Null
  BY <1>1, Tokens
<1>3. \A f \in Fields : Inherits(q, f) <=> Inherits(p, f)
  BY <1>1, <1>2 DEF Inherits
<1>4. ASSUME NEW f \in Fields PROVE Save(q).own[f] = h.own[f]
  <2>1. CASE f \notin Pair
    BY <1>1, <1>3, <2>1 DEF Save, Inherits
  <2>2. CASE f \in Pair /\ \A g \in Pair : Inherits(p, g)
    BY <1>3, <2>2, Tokens DEF Save
  <2>3. CASE f \in Pair /\ ~ \A g \in Pair : Inherits(p, g)
    <3>1. p.value[f] # Null
      BY <2>3 DEF Inherits, PairWhole, Pair
    <3> QED
      BY <1>1, <1>3, <2>3, <3>1, Tokens DEF Save
  <2> QED
    BY <2>1, <2>2, <2>3
<1>5. Save(q).own = h.own
  BY <1>4 DEF Save
<1>6. Save(q).container = h.container /\ Save(q).template = h.template
  BY <1>1 DEF Save
<1> QED
  BY <1>5, <1>6 DEF Normal, Save

(* The merge is a payload, with a pair that is reset as a whole.           *)
LEMMA MergedType ==
    ASSUME TypeOK, NEW c \in Calls, Asked(req[c])
    PROVE  /\ Merged(c) \in Payload
           /\ \A f \in Fields \ Touched(c) : Merged(c).value[f] = Effective(seen[c])[f]
           /\ ~HalfReset(c) => PairWhole(Merged(c))
<1>1. seen[c] \in Host /\ seen[c].container \in Containers /\ seen[c].template \in Values
  BY DEF TypeOK, Host
<1>2. \A f \in Fields : Effective(seen[c])[f] \in Values \cup {Empty}
  BY <1>1, ViewType
<1>3. \A f \in Touched(c) : req[c].fields[f] \in Values \cup {Empty, Null}
  BY DEF Asked, Touched, Settings
<1>4. \A f \in Fields : Merged(c).value[f] = IF f \in Touched(c) THEN req[c].fields[f] ELSE Effective(seen[c])[f]
  BY DEF Merged, View
<1>5. Merged(c) \in Payload
  <2>1. Merged(c).container \in Containers /\ Merged(c).template \in Values
    BY <1>1 DEF Merged, View, Asked
  <2>2. Merged(c).value \in [Fields -> Values \cup {Empty, Null}]
    BY <1>2, <1>3, <1>4 DEF Merged
  <2> QED
    BY <2>1, <2>2 DEF Payload, Merged
<1>6. ASSUME ~HalfReset(c) PROVE PairWhole(Merged(c))
  <2>1. \A f \in Pair : Merged(c).value[f] = Null => f \in Touched(c) /\ req[c].fields[f] = Null
    BY <1>2, <1>4, Tokens
  <2>2. \A f \in Pair : f \in Touched(c) /\ req[c].fields[f] = Null => Merged(c).value[f] = Null
    BY <1>4, Tokens
  <2> QED
    BY <1>6, <2>1, <2>2 DEF HalfReset, PairWhole, Pair
<1> QED
  BY <1>4, <1>5, <1>6

-----------------------------------------------------------------------------
(* Types, and the inductive invariant.                                     *)

(* What a client can ask for is asked in settings.                         *)
LEMMA RequestAsked ==
    ASSUME NEW r \in Request
    PROVE  Asked(r)
<1>1. PICK F \in SUBSET Fields :
            r.fields \in {g \in [F -> Values \cup {Empty, Null}] : \A f \in F : g[f] \in Settings(f) \cup {Null}}
  BY DEF Request
<1>2. r.template \in Values \cup {Null} /\ r.container \in Containers \cup {Null}
  BY DEF Request
<1> QED
  BY <1>1, <1>2 DEF Asked

(* A step of another call leaves what a call merges and what it is allowed *)
(* as it was.                                                              *)
LEMMA MergeUntouched ==
    ASSUME NEW c \in Calls, req'[c] = req[c], seen'[c] = seen[c]
    PROVE  Merged(c)' = Merged(c) /\ Touched(c)' = Touched(c) /\ Accepted(c)' = Accepted(c)
<1>1. Touched(c)' = Touched(c)
  BY DEF Touched
<1>2. Merged(c)' = Merged(c)
  BY <1>1 DEF Merged
<1>3. HalfReset(c)' = HalfReset(c) /\ Verified(c)' = Verified(c)
  BY <1>1 DEF HalfReset, Verified
<1> QED
  BY <1>1, <1>2, <1>3 DEF Accepted

(* What is known of a call stays known while its variables stay the same. *)
LEMMA CallUntouched ==
    ASSUME NEW c \in Calls, CallInv(c), req'[c] = req[c], seen'[c] = seen[c], payload'[c] = payload[c],
           pc'[c] = "posting" => pc[c] = "posting"
    PROVE  CallInv(c)'
BY MergeUntouched DEF CallInv, Asked, PairWhole

(* The inductive invariant holds at the start ...                          *)
LEMMA InvariantInit == Init => IInv
<1> SUFFICES ASSUME Init PROVE IInv
  OBVIOUS
<1>1. host \in Host /\ Normal(host)
  BY DEF Init, Normal
<1>2. View(host) \in Payload /\ PairWhole(View(host))
  BY <1>1, ViewType
<1>3. DOMAIN NoRequest.fields = {} /\ NoRequest.template = Null /\ NoRequest.container = Null
  BY DEF NoRequest
<1>4. TypeOK
  BY <1>1, <1>2, <1>3 DEF Init, TypeOK
<1>5. ASSUME NEW c \in Calls PROVE CallInv(c)
  BY <1>2, <1>3 DEF Init, CallInv, Asked
<1> QED
  BY <1>1, <1>4, <1>5 DEF IInv, Init

(* ... and every step keeps it.                                            *)
LEMMA InvariantNext == IInv /\ [Next]_vars => IInv'
<1> SUFFICES ASSUME IInv, [Next]_vars PROVE IInv'
  OBVIOUS
<1>1. TypeOK /\ Normal(host) /\ (\A c \in Calls : CallInv(c)) /\ req = [c \in Calls |-> req[c]]
  BY DEF IInv
<1>2. CASE UNCHANGED vars
  <2>1. TypeOK' /\ Normal(host)' /\ (req = [c \in Calls |-> req[c]])'
    BY <1>1, <1>2 DEF vars, TypeOK, Normal, Save, View, Effective, Inherits
  <2>2. ASSUME NEW c \in Calls PROVE CallInv(c)'
    BY <1>1, <1>2, CallUntouched DEF vars
  <2> QED
    BY <2>1, <2>2 DEF IInv
<1>3. ASSUME NEW c \in Calls, NEW r \in Request, Read(c, r) PROVE IInv'
  <2>1. Asked(r)
    BY RequestAsked
  <2>2. req' = [d \in Calls |-> IF d = c THEN r ELSE req[d]]
    BY <1>1, <1>3 DEF Read
  <2>3. TypeOK'
    <3>1. DOMAIN req' = Calls /\ \A d \in Calls : Asked(req[d]) /\ req'[d] = (IF d = c THEN r ELSE req[d])
      BY <1>1, <2>2 DEF CallInv
    <3>2. \A d \in Calls : Asked(req'[d])
      BY <2>1, <3>1
    <3>3. host' \in Host /\ pc' \in [Calls -> {"idle", "read", "posting", "returned"}]
          /\ seen' \in [Calls -> Host] /\ payload' \in [Calls -> Payload]
      BY <1>1, <1>3 DEF Read, TypeOK
    <3> QED
      BY <3>1, <3>2, <3>3 DEF TypeOK, Asked
  <2>4. Normal(host)'
    BY <1>1, <1>3 DEF Read, Normal, Save, View, Effective, Inherits
  <2>5. ASSUME NEW d \in Calls PROVE CallInv(d)'
    <3>1. CASE d = c
      BY <1>1, <1>3, <2>1, <2>2, <3>1 DEF Read, CallInv, TypeOK, PairWhole, Asked
    <3>2. CASE d # c
      BY <1>1, <1>3, <2>2, <3>2, CallUntouched DEF Read, TypeOK
    <3> QED
      BY <3>1, <3>2
  <2> QED
    BY <2>2, <2>3, <2>4, <2>5 DEF IInv
<1>4. ASSUME NEW c \in Calls, Build(c) PROVE IInv'
  <2>1. Merged(c) \in Payload /\ PairWhole(Merged(c))
    BY <1>1, <1>4, MergedType DEF Build, Accepted, CallInv
  <2>2. TypeOK'
    BY <1>1, <1>4, <2>1 DEF Build, TypeOK
  <2>3. Normal(host)' /\ (req = [d \in Calls |-> req[d]])'
    BY <1>1, <1>4 DEF Build, Normal, Save, View, Effective, Inherits
  <2>4. ASSUME NEW d \in Calls PROVE CallInv(d)'
    <3>1. CASE d = c
      <4>1. payload'[c] = Merged(c) /\ Merged(c)' = Merged(c) /\ Accepted(c)' = Accepted(c) /\ Accepted(c)
        BY <1>1, <1>4, MergeUntouched DEF Build, TypeOK
      <4>2. Asked(req[c])' /\ PairWhole(payload[c])'
        BY <1>1, <1>4, <2>1, <4>1 DEF Build, CallInv, Asked, PairWhole
      <4> QED
        BY <3>1, <4>1, <4>2 DEF CallInv
    <3>2. CASE d # c
      BY <1>1, <1>4, <3>2, CallUntouched DEF Build, TypeOK
    <3> QED
      BY <3>1, <3>2
  <2> QED
    BY <2>2, <2>3, <2>4 DEF IInv
<1>5. ASSUME NEW c \in Calls, Reject(c) PROVE IInv'
  <2>1. TypeOK'
    BY <1>1, <1>5 DEF Reject, TypeOK
  <2>2. Normal(host)' /\ (req = [d \in Calls |-> req[d]])'
    BY <1>1, <1>5 DEF Reject, Normal, Save, View, Effective, Inherits
  <2>3. ASSUME NEW d \in Calls PROVE CallInv(d)'
    BY <1>1, <1>5, CallUntouched DEF Reject, TypeOK
  <2> QED
    BY <2>1, <2>2, <2>3 DEF IInv
<1>6. ASSUME NEW c \in Calls, Post(c) PROVE IInv'
  <2>1. payload[c] \in Payload /\ PairWhole(payload[c])
    BY <1>1 DEF TypeOK, CallInv
  <2>2. host' \in Host /\ Normal(host')
    BY <1>6, <2>1, SaveKeeps, SaveNormal DEF Post
  <2>3. TypeOK' /\ (req = [d \in Calls |-> req[d]])'
    BY <1>1, <1>6, <2>2 DEF Post, TypeOK
  <2>4. ASSUME NEW d \in Calls PROVE CallInv(d)'
    BY <1>1, <1>6, CallUntouched DEF Post, TypeOK
  <2> QED
    BY <2>2, <2>3, <2>4 DEF IInv, Normal, Save, View, Effective, Inherits
<1> QED
  BY <1>2, <1>3, <1>4, <1>5, <1>6 DEF Next, AllReturned

(* The invariant holds always; the properties below follow from it.        *)
THEOREM Invariance == Spec => []IInv
BY InvariantInit, InvariantNext, PTL DEF Spec

(* Every variable keeps its type, for any number of calls.                 *)
THEOREM TypeCorrect == Spec => []TypeOK
<1>1. IInv => TypeOK
  BY DEF IInv
<1> QED
  BY <1>1, Invariance, PTL

(* No call sends back half a contact pair.                                 *)
THEOREM PairIsWhole == Spec => []PairResetTogether
<1>1. IInv => PairResetTogether
  BY DEF IInv, CallInv, PairResetTogether, PairWhole
<1> QED
  BY <1>1, Invariance, PTL

(* A posted host names no reference out of its container's scope, touched  *)
(* or not, but for a contact pair of which the call names one side.        *)
THEOREM PostsInScope == Spec => []RefsInScopeButPair
<1>1. IInv => RefsInScopeButPair
  <2> SUFFICES ASSUME IInv, NEW c \in Calls, pc[c] = "posting"
               PROVE  RefsVisible(c, IF Cardinality(Touched(c) \cap Pair) = 1 THEN Refs \ Pair ELSE Refs)
    BY DEF RefsInScopeButPair
  <2> DEFINE R == IF Cardinality(Touched(c) \cap Pair) = 1 THEN Refs \ Pair ELSE Refs
  <2>1. payload[c] = Merged(c) /\ Accepted(c)
    BY DEF IInv, CallInv
  <2>2. ASSUME NEW f \in R PROVE f \in Verified(c) \cap Refs
    <3>1. CASE f \notin Pair
      BY <3>1 DEF Verified, Refs
    <3>2. CASE f \in Pair
      <4>1. Cardinality(Touched(c) \cap Pair) # 1
        BY <3>2
      <4>2. \A x : Cardinality({x}) = 1
        BY FS_Singleton
      <4>3. Touched(c) \cap Pair = {} \/ Pair \subseteq Touched(c)
        <5>1. \A x : Touched(c) \cap Pair # {x}
          BY <4>1, <4>2
        <5> QED
          BY <5>1 DEF Pair
      <4> QED
        BY <3>2, <4>3 DEF Verified, Refs
    <3> QED
      BY <3>1, <3>2
  <2> QED
    BY <2>1, <2>2 DEF Accepted, RefsVisible
<1> QED
  BY <1>1, Invariance, PTL

(* An update nobody overtook changes no field the call does not name, also *)
(* when the template changes under it.                                     *)
THEOREM UntouchedIsKept == Spec => KeepsUnlessOvertaken
<1>1. ASSUME IInv, NEW c \in Calls, Posts(c), host = seen[c] PROVE KeepsUntouched(c)
  <2>1. payload[c] = Merged(c) /\ payload[c] \in Payload /\ PairWhole(payload[c]) /\ Asked(req[c]) /\ TypeOK
    BY <1>1 DEF IInv, CallInv, Posts, TypeOK
  <2>2. /\ host' = Save(payload[c])
        /\ host'.template = payload[c].template /\ host'.container = payload[c].container
        /\ \A f \in Fields : Effective(host')[f] =
              IF payload[c].value[f] = Null THEN Default[payload[c].template][f] ELSE payload[c].value[f]
    BY <1>1, <2>1, SaveKeeps DEF Posts
  <2>3. \A f \in Fields \ Touched(c) : payload[c].value[f] = Effective(host)[f]
    BY <1>1, <2>1, MergedType
  <2>4. \A f \in Fields : Effective(host)[f] # Null
    BY <2>1, ViewType, Tokens DEF TypeOK
  <2>5. \A f \in Fields \ Touched(c) : Effective(host')[f] = Effective(host)[f]
    BY <2>2, <2>3, <2>4
  <2>6. Effective(host)' = Effective(host')
    BY DEF Effective
  <2>7. /\ req[c].template = Null => host'.template = host.template
        /\ req[c].container = Null => host'.container = host.container
    BY <1>1, <2>1, <2>2 DEF Merged, View
  <2> QED
    BY <2>5, <2>6, <2>7 DEF KeepsUntouched
<1>2. IInv /\ [Next]_vars =>
        [\A c \in Calls : (Posts(c) /\ host = seen[c]) => KeepsUntouched(c)]_vars
  BY <1>1
<1> QED
  BY <1>2, Invariance, PTL DEF Spec, KeepsUnlessOvertaken

(* Sending back what was read stores the host as it was: no inherited      *)
(* value becomes one of the host's own, and none of its own is lost.       *)
THEOREM RoundTrip == Spec => RoundTripIdempotent
<1>1. ASSUME IInv, NEW c \in Calls, Posts(c), host = seen[c], req[c] = NoRequest PROVE host' = host
  <2>1. payload[c] = Merged(c) /\ Normal(host)
    BY <1>1 DEF IInv, CallInv, Posts
  <2>2. Touched(c) = {} /\ req[c].template = Null /\ req[c].container = Null
    BY <1>1 DEF Touched, NoRequest
  <2>3. Merged(c) = View(host)
    BY <1>1, <2>2 DEF Merged, View, Effective
  <2> QED
    BY <1>1, <2>1, <2>3 DEF Posts, Normal
<1>2. IInv /\ [Next]_vars =>
        [\A c \in Calls : (Posts(c) /\ host = seen[c] /\ req[c] = NoRequest) => host' = host]_vars
  BY <1>1
<1> QED
  BY <1>2, Invariance, PTL DEF Spec, RoundTripIdempotent
=============================================================================
