---------------------------- MODULE WritesProofs ----------------------------
(***************************************************************************)
(* What the tools that make and change objects promise, for any number of  *)
(* calls, containers and names.                                            *)
(***************************************************************************)
EXTENDS Lifecycle, ScopedWrites, Names, FiniteSetTheorems, SequenceTheorems, WellFoundedInduction, TLAPS

-----------------------------------------------------------------------------
(* ScopedWrites.  What is stored sees what it names: for an update because *)
(* the object it read does, in the containers it read with it, and it only *)
(* replaces what it has looked up in the containers it sends.              *)

Sees(o) == o.at \subseteq Spaces /\ SeesOwn(o)
Underway(w) == stage[w] \notin {"idle", "returned"}

ScopedShape ==
    /\ visible \in [Spaces -> SUBSET Things] /\ shrunk \in BOOLEAN
    /\ DOMAIN stage = Writers /\ DOMAIN order = Writers /\ DOMAIN old = Writers
    /\ \A w \in Writers : Underway(w) => order[w] \in Orders

HasRead == \A w \in Writers :
    (order[w].tool \in Updates /\ stage[w] \in {"place", "scope", "commands", "post"}) => Sees(old[w])
HasLooked == \A w \in Writers : stage[w] \in {"commands", "post"} => Sees(Sent(w))
StoredSees == \A o \in created \cup {object} : Sees(o)

(* The inductive invariant.                                                *)
ScopedInv == ScopedShape /\ (~shrunk => HasRead /\ HasLooked /\ StoredSees)

(* What the parameters of a tool are.                                      *)
LEMMA OrdersAre ==
    ASSUME NEW r \in Orders
    PROVE  /\ r.tool \in Creates \cup Updates /\ r.at \subseteq Spaces /\ r.named \subseteq Slots
           /\ r.tool \in Creates => r.named = Slots
           /\ r.tool \in {"create_hostgroup", "create_command"} =>
                 r.host = {} /\ r.service = {} /\ r.members = {}
<1>1. CASE r \in CreateContact \cup CreateContactgroup
  BY <1>1 DEF CreateContact, CreateContactgroup, Made, Places, Creates
<1>2. CASE r \in CreateHosttemplate \cup CreateServicetemplate
  BY <1>2 DEF CreateHosttemplate, CreateServicetemplate, Made, Places, Creates
<1>3. CASE r \in CreateServicetemplategroup \cup CreateHostgroup
  BY <1>3 DEF CreateServicetemplategroup, CreateHostgroup, Made, Places, Creates
<1>4. CASE r \in CreateCommand
  BY <1>4 DEF CreateCommand, Made, Creates
<1>5. CASE r \in UpdateContact
  <2>1. PICK n \in SUBSET {"at", "host", "service"}, k \in SUBSET Spaces :
          r.tool = "update_contact" /\ r.named = n /\ r.at = IF "at" \in n THEN k ELSE {}
    BY <1>5 DEF UpdateContact, Edits
  <2> QED
    BY <2>1 DEF Creates, Updates, Slots
<1>6. CASE r \in UpdateContactgroup
  <2>1. PICK n \in SUBSET {"members"}, k \in {{}} :
          r.tool = "update_contactgroup" /\ r.named = n /\ r.at = IF "at" \in n THEN k ELSE {}
    BY <1>6 DEF UpdateContactgroup, Edits
  <2> QED
    BY <2>1 DEF Creates, Updates, Slots
<1> QED
  BY <1>1, <1>2, <1>3, <1>4, <1>5, <1>6 DEF Orders

(* More visible things hide nothing.                                       *)
SeesThen(o) == o.at \subseteq Spaces /\ RefsOf(o) \subseteq UNION {visible'[k] : k \in o.at}
LEMMA SeesMore ==
    ASSUME NEW o, Sees(o), \A k \in Spaces : visible[k] \subseteq visible'[k]
    PROVE  SeesThen(o)
BY DEF Sees, SeesOwn, Scope, SeesThen

(* A call of which all references were looked up, or left as read.         *)
LEMMA ResolvedSees ==
    ASSUME NEW w \in Writers, order[w] \in Orders,
           order[w].tool \in Updates => Sees(old[w]),
           \A f \in Looked(w) : Sent(w)[f] \subseteq Scope(Sent(w).at)
    PROVE  Sees(Sent(w))
<1> DEFINE r == order[w]
<1>1. /\ r.at \subseteq Spaces /\ r.named \subseteq Slots /\ r.tool \in Creates \cup Updates
      /\ r.tool \in Creates => r.named = Slots
  BY OrdersAre
<1>2. \A f \in Slots : Sent(w)[f] = IF f \in r.named THEN r[f] ELSE old[w][f]
  BY DEF Sent
<1>3. Sent(w).at \subseteq Spaces
  BY <1>1, <1>2 DEF Sees, Slots
<1>4. CASE "at" \in r.named
  <2>1. \A f \in {"host", "service", "members"} : Sent(w)[f] \subseteq Scope(Sent(w).at)
    BY <1>4 DEF Looked, Slots
  <2> QED
    BY <1>3, <2>1 DEF Sees, SeesOwn, RefsOf
<1>5. CASE "at" \notin r.named
  <2>1. Sees(old[w]) /\ Sent(w).at = old[w].at
    BY <1>1, <1>2, <1>5 DEF Slots
  <2>2. \A f \in {"host", "service", "members"} : Sent(w)[f] \subseteq Scope(Sent(w).at)
    BY <1>2, <1>5, <2>1 DEF Looked, Slots, Sees, SeesOwn, RefsOf
  <2> QED
    BY <1>3, <2>2 DEF Sees, SeesOwn, RefsOf
<1> QED
  BY <1>4, <1>5

(* A step of a call that stores nothing, the sight staying the same: all   *)
(* that has to be shown is about that call.                                *)
LEMMA OneCallMoves ==
    ASSUME ScopedInv, NEW w \in Writers, UNCHANGED <<visible, shrunk, object, created>>,
           DOMAIN stage' = Writers, DOMAIN order' = Writers, DOMAIN old' = Writers,
           \A v \in Writers \ {w} : stage'[v] = stage[v] /\ order'[v] = order[v] /\ old'[v] = old[v],
           stage'[w] \notin {"idle", "returned"} => order'[w] \in Orders,
           ~shrunk /\ order'[w].tool \in Updates /\ stage'[w] \in {"place", "scope", "commands", "post"}
               => Sees(old'[w]),
           ~shrunk /\ stage'[w] \in {"commands", "post"} => Sees(Sent(w)')
    PROVE  ScopedInv'
<1>1. ScopedShape'
  BY DEF ScopedInv, ScopedShape, Underway
<1>2. SUFFICES ASSUME ~shrunk PROVE HasRead' /\ HasLooked' /\ StoredSees'
  BY <1>1 DEF ScopedInv
<1>3. StoredSees'
  BY <1>2 DEF ScopedInv, StoredSees, Sees, SeesOwn, Scope, RefsOf
<1>4. HasRead'
  BY <1>2 DEF ScopedInv, HasRead, Sees, SeesOwn, Scope, RefsOf
<1>5. ASSUME NEW v \in Writers, stage'[v] \in {"commands", "post"}
      PROVE  Sees(Sent(v))'
  <2>1. CASE v = w
    BY <1>2, <1>5, <2>1 DEF Sees, SeesOwn, Scope, RefsOf
  <2>2. CASE v # w
    <3>1. Sent(v)' = Sent(v) /\ Sees(Sent(v))
      BY <1>2, <1>5, <2>2 DEF ScopedInv, HasLooked, Sent
    <3> QED
      BY <3>1 DEF Sees, SeesOwn, Scope, RefsOf
  <2> QED
    BY <2>1, <2>2
<1>6. HasLooked'
  BY <1>5 DEF HasLooked
<1> QED
  BY <1>3, <1>4, <1>6

(* The steps of a call until it posts.                                     *)
LEMMA CallMoves ==
    ASSUME ScopedInv, NEW w \in Writers,
           AnyBegin(w) \/ Fail(w) \/ ReadObject(w) \/ Place(w) \/ Resolve(w) \/ Command(w)
    PROVE  ScopedInv'
<1> USE DEF ScopedInv, ScopedShape
<1>1. CASE AnyBegin(w)
  <2>1. PICK r \in Orders : stage[w] = "idle" /\ Begin(w, r)
    BY <1>1 DEF AnyBegin
  <2>2. UNCHANGED <<visible, shrunk, object, created>>
    BY <2>1 DEF Begin, stock
  <2>3. CASE End(w, "raised")
    BY <2>2, <2>3, OneCallMoves DEF End
  <2>4. CASE /\ order' = [order EXCEPT ![w] = r] /\ UNCHANGED <<old, verdict>>
             /\ stage' = [stage EXCEPT ![w] = CASE r.tool \in Updates -> "read"
                                                [] r.tool = "create_command" -> "post"
                                                [] OTHER -> "place"]
    <3>1. r.tool \in Creates => r.named = Slots
      BY OrdersAre
    <3>2. ASSUME stage'[w] \in {"commands", "post"} PROVE Sees(Sent(w)')
      <4>1. r.tool = "create_command"
        BY <2>4, <3>2
      <4>2. /\ r.named = Slots /\ r.at \subseteq Spaces
            /\ r.host = {} /\ r.service = {} /\ r.members = {}
        BY <4>1, OrdersAre DEF Creates
      <4>3. order'[w] = r
        BY <2>4
      <4> QED
        BY <4>2, <4>3 DEF Sent, Slots, Sees, SeesOwn, RefsOf
    <3>3. r.tool \in Updates => stage'[w] = "read"
      BY <2>4 DEF Updates
    <3> QED
      BY <2>2, <2>4, <3>2, <3>3, OneCallMoves
  <2> QED
    BY <2>1, <2>3, <2>4 DEF Begin
<1>2. CASE Fail(w)
  BY <1>2, OneCallMoves DEF Fail, End, world, stock
<1>3. CASE ReadObject(w)
  <2>1. ~shrunk => Sees(object)
    BY DEF StoredSees
  <2> QED
    BY <1>3, <2>1, OneCallMoves DEF ReadObject, world, stock, Underway
<1>4. CASE Command(w)
  <2>1. Sent(w)' = Sent(w)
    BY <1>4 DEF Command, Advance, Sent
  <2>2. ~shrunk => Sees(Sent(w)) /\ (order[w].tool \in Updates => Sees(old[w]))
    BY <1>4 DEF Command, HasLooked, HasRead
  <2> QED
    BY <1>4, <2>1, <2>2, OneCallMoves DEF Command, Advance, world, stock, Underway
<1>5. CASE Resolve(w)
  <2>1. stage[w] = "scope" /\ order[w] \in Orders /\ UNCHANGED <<visible, shrunk, object, created>>
    BY <1>5 DEF Resolve, world, stock, Underway
  <2>2. CASE End(w, "raised")
    BY <2>1, <2>2, OneCallMoves DEF End
  <2>3. CASE Advance(w, "commands") /\ \A f \in Looked(w) : Sent(w)[f] \subseteq Scope(Sent(w).at)
    <3>1. Sent(w)' = Sent(w)
      BY <2>3 DEF Advance, Sent
    <3>2. ~shrunk => Sees(Sent(w)) /\ (order[w].tool \in Updates => Sees(old[w]))
      BY <2>1, <2>3, ResolvedSees DEF HasRead
    <3> QED
      BY <2>1, <2>3, <3>1, <3>2, OneCallMoves DEF Advance
  <2> QED
    BY <1>5, <2>2, <2>3 DEF Resolve
<1>6. CASE Place(w)
  <2>1. stage[w] = "place" /\ order[w] \in Orders /\ UNCHANGED <<visible, shrunk, object, created>>
    BY <1>6 DEF Place, world, stock, Underway
  <2>2. CASE End(w, "raised")
    BY <2>1, <2>2, OneCallMoves DEF End
  <2>3. ~shrunk /\ order[w].tool \in Updates => Sees(old[w])
    BY <2>1 DEF HasRead
  <2>4. CASE Advance(w, "scope")
    BY <2>1, <2>3, <2>4, OneCallMoves DEF Advance
  <2>5. CASE Advance(w, "commands") /\ ~AsksScope(order[w])
    <3> DEFINE r == order[w]
    <3>1. Sent(w)' = Sent(w)
      BY <2>5 DEF Advance, Sent
    <3>2. ASSUME ~shrunk PROVE Sees(Sent(w))
      <4>1. CASE r.tool = "create_hostgroup"
        <5>1. r.named = Slots /\ r.at \subseteq Spaces /\ r.host = {} /\ r.service = {} /\ r.members = {}
          BY <2>1, <4>1, OrdersAre DEF Creates
        <5> QED
          BY <5>1 DEF Sent, Slots, Sees, SeesOwn, RefsOf
      <4>2. CASE r.named = {}
        <5>1. r.tool \in Updates
          BY <2>1, <4>2, OrdersAre DEF Slots
        <5>2. Sent(w).at = old[w].at /\ RefsOf(Sent(w)) = RefsOf(old[w])
          BY <4>2 DEF Sent, Slots, RefsOf
        <5> QED
          BY <2>3, <3>2, <5>1, <5>2 DEF Sees, SeesOwn
      <4> QED
        BY <2>5, <4>1, <4>2 DEF AsksScope
    <3> QED
      BY <2>1, <2>3, <2>5, <3>1, <3>2, OneCallMoves DEF Advance
  <2> QED
    BY <1>6, <2>2, <2>4, <2>5 DEF Place
<1> QED
  BY <1>1, <1>2, <1>3, <1>4, <1>5, <1>6

(* The posted object replaces the one that is updated, or joins the others. *)
LEMMA StoreSees == ScopedInv /\ (\E w \in Writers : Store(w)) => ScopedInv'
<1> SUFFICES ASSUME ScopedInv, NEW w \in Writers, Store(w) PROVE ScopedInv'
  OBVIOUS
<1> USE DEF ScopedInv, ScopedShape
<1>1. UNCHANGED <<visible, shrunk>> /\ \E v \in {"done", "raised"} : End(w, v)
  BY DEF Store, world
<1>2. /\ stage' = [stage EXCEPT ![w] = "returned"] /\ order' = [order EXCEPT ![w] = NoOrder]
      /\ old' = [old EXCEPT ![w] = Nothing]
  BY <1>1 DEF End
<1>3. ScopedShape'
  BY <1>1, <1>2 DEF Underway
<1>4. ASSUME ~shrunk PROVE HasRead' /\ HasLooked' /\ StoredSees'
  <2>1. Sees(Sent(w))
    BY <1>4 DEF Store, HasLooked
  <2>2. created' \cup {object'} \subseteq created \cup {object, Sent(w)}
    BY DEF Store
  <2>3. StoredSees'
    BY <1>1, <1>4, <2>1, <2>2 DEF StoredSees, Sees, SeesOwn, Scope, RefsOf
  <2>4. HasRead'
    BY <1>1, <1>2, <1>4 DEF HasRead, Sees, SeesOwn, Scope, RefsOf
  <2>5. ASSUME NEW v \in Writers, stage'[v] \in {"commands", "post"} PROVE Sees(Sent(v))'
    <3>1. v # w /\ Sent(v)' = Sent(v) /\ Sees(Sent(v))
      BY <1>2, <1>4, <2>5 DEF HasLooked, Sent
    <3> QED
      BY <1>1, <3>1 DEF Sees, SeesOwn, Scope, RefsOf
  <2> QED
    BY <2>3, <2>4, <2>5 DEF HasLooked
<1> QED
  BY <1>1, <1>3, <1>4

(* As long as nothing goes out of sight, a change of it shows more.        *)
LEMMA ShiftSees == ScopedInv /\ Shift => ScopedInv'
<1> SUFFICES ASSUME ScopedInv, Shift PROVE ScopedInv'
  OBVIOUS
<1> USE DEF ScopedInv, ScopedShape
<1>1. UNCHANGED <<object, created, stage, order, old>>
  BY DEF Shift, stock, writes
<1>2. PICK k \in Spaces, t \in Things :
        /\ visible' = [visible EXCEPT ![k] = IF t \in @ THEN @ \ {t} ELSE @ \cup {t}]
        /\ shrunk' = (shrunk \/ t \in visible[k])
  BY DEF Shift
<1>3. ScopedShape'
  BY <1>1, <1>2 DEF Underway
<1>4. ASSUME ~shrunk' PROVE HasRead' /\ HasLooked' /\ StoredSees'
  <2>1. ~shrunk /\ \A j \in Spaces : visible[j] \subseteq visible'[j]
    BY <1>2, <1>4
  <2>2. \A o : Sees(o) => SeesThen(o)
    BY <2>1, SeesMore
  <2>3. StoredSees'
    BY <1>1, <2>1, <2>2 DEF StoredSees, Sees, SeesOwn, Scope, RefsOf, SeesThen
  <2>4. HasRead'
    BY <1>1, <2>1, <2>2 DEF HasRead, Sees, SeesOwn, Scope, RefsOf, SeesThen
  <2>5. ASSUME NEW v \in Writers, stage'[v] \in {"commands", "post"} PROVE Sees(Sent(v))'
    <3>1. Sent(v)' = Sent(v) /\ SeesThen(Sent(v))
      BY <1>1, <2>1, <2>2, <2>5 DEF HasLooked, Sent
    <3> QED
      BY <3>1 DEF Sees, SeesOwn, Scope, RefsOf, SeesThen
  <2> QED
    BY <2>3, <2>4, <2>5 DEF HasLooked
<1> QED
  BY <1>3, <1>4

(* StaysInScope: for any number of calls and containers, however they      *)
(* overlap: as long as nothing goes out of sight, nothing stored names     *)
(* what its own containers cannot see.                                     *)
THEOREM InScope == ScopedSpec => []StaysInScope
<1>1. ScopedInit => ScopedInv
  BY DEF ScopedInit, ScopedInv, ScopedShape, HasRead, HasLooked, StoredSees, Sees, Underway, Contact, Group, Stored
<1>2. ScopedInv /\ [ScopedNext]_scopedVars => ScopedInv'
  <2> SUFFICES ASSUME ScopedInv, [ScopedNext]_scopedVars PROVE ScopedInv'
    OBVIOUS
  <2>1. CASE \E w \in Writers : AnyBegin(w) \/ Fail(w) \/ ReadObject(w) \/ Place(w) \/ Resolve(w) \/ Command(w)
    BY <2>1, CallMoves
  <2>2. CASE \E w \in Writers : Store(w)
    BY <2>2, StoreSees
  <2>3. CASE Shift
    BY <2>3, ShiftSees
  <2>4. CASE UNCHANGED scopedVars
    <3>1. UNCHANGED <<visible, shrunk, object, created, stage, order, old>>
      BY <2>4 DEF scopedVars, world, stock, writes
    <3>2. ScopedShape'
      BY <3>1 DEF ScopedInv, ScopedShape, Underway
    <3>3. ASSUME ~shrunk PROVE HasRead' /\ HasLooked' /\ StoredSees'
      <4>1. HasRead /\ HasLooked /\ StoredSees
        BY <3>3 DEF ScopedInv
      <4>2. HasRead'
        BY <3>1, <4>1 DEF HasRead, Sees, SeesOwn, Scope, RefsOf
      <4>3. StoredSees'
        BY <3>1, <4>1 DEF StoredSees, Sees, SeesOwn, Scope, RefsOf
      <4>4. ASSUME NEW v \in Writers, stage'[v] \in {"commands", "post"} PROVE Sees(Sent(v))'
        <5>1. Sent(v)' = Sent(v) /\ Sees(Sent(v))
          BY <3>1, <4>1, <4>4 DEF HasLooked, Sent
        <5> QED
          BY <3>1, <5>1 DEF Sees, SeesOwn, Scope, RefsOf
      <4> QED
        BY <4>2, <4>3, <4>4 DEF HasLooked
    <3> QED
      BY <3>1, <3>2, <3>3 DEF ScopedInv
  <2> QED
    BY <2>1, <2>2, <2>3, <2>4 DEF ScopedNext, NoWriter
<1>3. ScopedInv => StaysInScope
  BY DEF ScopedInv, StoredSees, Sees, StaysInScope
<1> QED
  BY <1>1, <1>2, <1>3, PTL DEF ScopedSpec

(* What a call is asked has the shape its tool gives it; what an update    *)
(* read is the kind of object its tool is for.                             *)
Kind(w) == IF order[w].tool = "update_contact" THEN Contact ELSE Group
ScopedTyped ==
    /\ ScopedTypeOK
    /\ \A w \in Writers : Underway(w) => Required(order[w])
    /\ \A w \in Writers :
         (order[w].tool \in Updates /\ stage[w] \in {"place", "scope", "commands", "post"}) => old[w] \in Kind(w)

(* The values of the parameters, per tool.                                 *)
LEMMA OrderFields ==
    ASSUME NEW r \in Orders
    PROVE  /\ r.tool \in Creates => /\ r.named = Slots /\ r.at \subseteq Spaces /\ r.host \subseteq Things
                                    /\ r.service \subseteq Things /\ r.members \subseteq Things
           /\ r.tool = "update_contact" =>
                /\ r.named \subseteq {"at", "host", "service"} /\ r.at \subseteq Spaces
                /\ "host" \in r.named => r.host \in Single
                /\ "service" \in r.named => r.service \in Single
           /\ r.tool = "update_contactgroup" => r.named \subseteq {"members"} /\ r.members \subseteq Things
<1>0. Single \subseteq SUBSET Things
  BY DEF Single
<1>1. CASE r \in CreateContact \cup CreateContactgroup
  BY <1>0, <1>1 DEF CreateContact, CreateContactgroup, Made, Places, Creates
<1>2. CASE r \in CreateHosttemplate \cup CreateServicetemplate
  BY <1>0, <1>2 DEF CreateHosttemplate, CreateServicetemplate, Made, Places, Creates
<1>3. CASE r \in CreateServicetemplategroup \cup CreateHostgroup
  BY <1>3 DEF CreateServicetemplategroup, CreateHostgroup, Made, Places, Creates
<1>4. CASE r \in CreateCommand
  BY <1>4 DEF CreateCommand, Made, Creates
<1>5. CASE r \in UpdateContact
  <2>1. PICK n \in SUBSET {"at", "host", "service"}, k \in SUBSET Spaces, h \in Single, s \in Single :
          /\ r.tool = "update_contact" /\ r.named = n /\ r.at = (IF "at" \in n THEN k ELSE {})
          /\ r.host = (IF "host" \in n THEN h ELSE {}) /\ r.service = (IF "service" \in n THEN s ELSE {})
    BY <1>5 DEF UpdateContact, Edits
  <2> QED
    BY <2>1 DEF Creates
<1>6. CASE r \in UpdateContactgroup
  <2>1. PICK n \in SUBSET {"members"}, m \in SUBSET Things :
          r.tool = "update_contactgroup" /\ r.named = n /\ r.members = (IF "members" \in n THEN m ELSE {})
    BY <1>6 DEF UpdateContactgroup, Edits
  <2> QED
    BY <2>1 DEF Creates
<1> QED
  BY <1>1, <1>2, <1>3, <1>4, <1>5, <1>6 DEF Orders

(* What is sent is an object; for an update, one of the kind it read.      *)
LEMMA SentIs ==
    ASSUME ScopedTyped, NEW w \in Writers, stage[w] = "post"
    PROVE  /\ order[w].tool \in Updates => Sent(w) \in Contact \cup Group
           /\ order[w].tool \notin Updates => Sent(w) \in Stored
<1> DEFINE r == order[w]
           o == old[w]
<1>1. r \in Orders /\ Required(r)
  BY DEF ScopedTyped, ScopedTypeOK, Underway
<1>2. /\ DOMAIN Sent(w) = Slots
      /\ \A f \in Slots : Sent(w)[f] = IF f \in r.named THEN r[f] ELSE o[f]
  BY DEF Sent
<1>3. \A v : (/\ v = [f \in Slots |-> v[f]] /\ v.at \subseteq Spaces /\ v.host \subseteq Things
              /\ v.service \subseteq Things /\ v.members \subseteq Things) => v \in Stored
  BY DEF Stored, Slots
<1>4. Sent(w) = [f \in Slots |-> Sent(w)[f]]
  BY DEF Sent
<1>5. CASE r.tool \notin Updates
  <2>1. r.tool \in Creates
    BY <1>1, <1>5, OrdersAre
  <2>2. /\ Sent(w).at = r.at /\ Sent(w).host = r.host /\ Sent(w).service = r.service /\ Sent(w).members = r.members
    BY <1>1, <1>2, <2>1, OrderFields DEF Slots
  <2>3. Sent(w) \in Stored
    BY <1>1, <1>3, <1>4, <2>1, <2>2, OrderFields
  <2> QED
    BY <1>5, <2>3
<1>6. CASE r.tool = "update_contact"
  <2>1. o \in Contact /\ o \in Stored /\ o.at # {} /\ o.host \in Single /\ o.service \in Single /\ o.members = {}
    BY <1>6 DEF ScopedTyped, Updates, Kind, Contact
  <2>2. /\ r.named \subseteq {"at", "host", "service"} /\ r.at \subseteq Spaces
        /\ ("host" \in r.named => r.host \in Single) /\ ("service" \in r.named => r.service \in Single)
        /\ ("at" \in r.named => r.at # {})
    BY <1>1, <1>6, OrderFields DEF Required, Updates
  <2>3. Sent(w).at = IF "at" \in r.named THEN r.at ELSE o.at
    BY <1>2 DEF Slots
  <2>4. Sent(w).host = IF "host" \in r.named THEN r.host ELSE o.host
    BY <1>2 DEF Slots
  <2>5. Sent(w).service = IF "service" \in r.named THEN r.service ELSE o.service
    BY <1>2 DEF Slots
  <2>6. Sent(w).members = o.members
    BY <1>2, <2>2 DEF Slots
  <2>7. Sent(w).at \subseteq Spaces /\ Sent(w).at # {} /\ Sent(w).host \in Single /\ Sent(w).service \in Single
    BY <2>1, <2>2, <2>3, <2>4, <2>5 DEF Stored
  <2>8. Sent(w) \in Stored
    BY <1>3, <1>4, <2>1, <2>6, <2>7 DEF Single
  <2> QED
    BY <1>6, <2>1, <2>6, <2>7, <2>8 DEF Contact, Updates
<1>7. CASE r.tool = "update_contactgroup"
  <2>1. o \in Group /\ o \in Stored /\ Cardinality(o.at) = 1 /\ o.host = {} /\ o.service = {} /\ o.members # {}
    BY <1>7 DEF ScopedTyped, Updates, Kind, Group
  <2>2. r.named \subseteq {"members"} /\ r.members \subseteq Things /\ ("members" \in r.named => r.members # {})
    BY <1>1, <1>7, OrderFields DEF Required, Updates
  <2>3. Sent(w).at = o.at /\ Sent(w).host = o.host /\ Sent(w).service = o.service
    BY <1>2, <2>2 DEF Slots
  <2>4. Sent(w).members = IF "members" \in r.named THEN r.members ELSE o.members
    BY <1>2 DEF Slots
  <2>5. Sent(w).members \subseteq Things /\ Sent(w).members # {} /\ Sent(w).at \subseteq Spaces
    BY <2>1, <2>2, <2>3, <2>4 DEF Stored
  <2>6. Sent(w) \in Stored
    BY <1>3, <1>4, <2>1, <2>3, <2>5
  <2> QED
    BY <1>7, <2>1, <2>3, <2>5, <2>6 DEF Group, Updates
<1> QED
  BY <1>5, <1>6, <1>7 DEF Updates

(* A call changes its own place only; what nobody asked is nothing.        *)
LEMMA NoOrderIs == NoOrder \in Orders /\ Nothing \in Stored
BY DEF NoOrder, Orders, CreateCommand, Made, Nothing, Stored, Slots

LEMMA TypedStays ==
    ASSUME ScopedTyped, [ScopedNext]_scopedVars
    PROVE  ScopedTyped'
<1> USE DEF ScopedTyped, ScopedTypeOK
<1>1. ASSUME NEW w \in Writers, UNCHANGED <<world, stock>> \/ Store(w) \/ (\E r \in Orders : Begin(w, r)),
             \A v \in Writers \ {w} : stage'[v] = stage[v] /\ order'[v] = order[v] /\ old'[v] = old[v],
             stage' \in [Writers -> {"idle", "read", "place", "scope", "commands", "post", "returned"}],
             order' \in [Writers -> Orders], old' \in [Writers -> Contact \cup Group \cup {Nothing}],
             verdict' \in [Writers -> {"open", "done", "raised"}],
             Underway(w)' => Required(order'[w]),
             (order'[w].tool \in Updates /\ stage'[w] \in {"place", "scope", "commands", "post"}) =>
                 old'[w] \in Kind(w)'
      PROVE  ScopedTyped'
  <2>1. visible' = visible /\ legal' = legal /\ shrunk' = shrunk /\ moves' \in 0..MaxMoves
    BY <1>1, MovesAssumption DEF world, Store, Begin, Spend, Cost
  <2>2. object' \in Contact \cup Group /\ created' \subseteq Stored
    <3>1. CASE Store(w)
      BY <3>1, SentIs DEF Store
    <3>2. CASE UNCHANGED <<world, stock>> \/ \E r \in Orders : Begin(w, r)
      BY <3>2 DEF stock, Begin
    <3> QED
      BY <1>1, <3>1, <3>2
  <2>3. ASSUME NEW v \in Writers \ {w}
        PROVE  /\ Underway(v)' => Required(order'[v])
               /\ Kind(v)' = Kind(v)
    <3>1. stage'[v] = stage[v] /\ order'[v] = order[v]
      BY <1>1
    <3>2. Underway(v)' => Required(order[v])
      BY <3>1 DEF Underway
    <3> QED
      BY <3>1, <3>2 DEF Kind
  <2>4. \A v \in Writers : Underway(v)' => Required(order'[v])
    BY <1>1, <2>3
  <2>5. \A v \in Writers :
          (order'[v].tool \in Updates /\ stage'[v] \in {"place", "scope", "commands", "post"}) => old'[v] \in Kind(v)'
    BY <1>1, <2>3
  <2> QED
    BY <1>1, <2>1, <2>2, <2>4, <2>5
<1>2. ASSUME NEW w \in Writers, NEW v \in {"done", "raised"}, End(w, v),
             UNCHANGED <<world, stock>> \/ Store(w) \/ (\E r \in Orders : Begin(w, r))
      PROVE  ScopedTyped'
  BY <1>1, <1>2, NoOrderIs DEF End, Underway
<1>3. ASSUME NEW w \in Writers, AnyBegin(w) PROVE ScopedTyped'
  <2>1. PICK r \in Orders : stage[w] = "idle" /\ Begin(w, r)
    BY <1>3 DEF AnyBegin
  <2>2. CASE End(w, "raised")
    BY <1>2, <2>1, <2>2
  <2>3. CASE /\ Required(r) /\ order' = [order EXCEPT ![w] = r] /\ UNCHANGED <<old, verdict>>
             /\ stage' = [stage EXCEPT ![w] = CASE r.tool \in Updates -> "read"
                                                [] r.tool = "create_command" -> "post"
                                                [] OTHER -> "place"]
    <3>1. order'[w] = r /\ stage'[w] \in {"read", "post", "place"}
      BY <2>3
    <3>2. r.tool \in Updates => stage'[w] = "read"
      <4>1. stage'[w] = CASE r.tool \in Updates -> "read"
                           [] r.tool = "create_command" -> "post"
                           [] OTHER -> "place"
        BY <2>3
      <4> QED
        BY <4>1 DEF Updates
    <3>3. stage' \in [Writers -> {"idle", "read", "place", "scope", "commands", "post", "returned"}]
      BY <2>3
    <3> QED
      BY <1>1, <2>1, <2>3, <3>1, <3>2, <3>3
  <2> QED
    BY <2>1, <2>2, <2>3 DEF Begin
<1>4. ASSUME NEW w \in Writers, Fail(w) PROVE ScopedTyped'
  BY <1>2, <1>4 DEF Fail
<1>5. ASSUME NEW w \in Writers, ReadObject(w) PROVE ScopedTyped'
  <2>1. Underway(w) /\ order'[w] = order[w] /\ old'[w] = object /\ object \in Kind(w) /\ Kind(w)' = Kind(w)
    BY <1>5 DEF ReadObject, Underway, Kind
  <2>2. Required(order'[w])
    BY <2>1
  <2> QED
    BY <1>1, <1>5, <2>1, <2>2 DEF ReadObject
<1>6. ASSUME NEW w \in Writers, NEW s \in {"scope", "commands", "post"}, stage[w] \in {"place", "scope", "commands"},
             Advance(w, s), UNCHANGED <<world, stock>>
      PROVE  ScopedTyped'
  <2>1. Underway(w) /\ order' = order /\ old' = old /\ Kind(w)' = Kind(w)
    BY <1>6 DEF Advance, Underway, Kind
  <2>2. Required(order'[w])
    BY <2>1
  <2> QED
    BY <1>1, <1>6, <2>1, <2>2 DEF Advance
<1>7. ASSUME NEW w \in Writers, Place(w) \/ Resolve(w) \/ Command(w) PROVE ScopedTyped'
  BY <1>2, <1>6, <1>7 DEF Place, Resolve, Command
<1>8. ASSUME NEW w \in Writers, Store(w) PROVE ScopedTyped'
  BY <1>2, <1>8 DEF Store
<1>9. CASE Shift
  <2>1. /\ UNCHANGED <<legal, object, created, stage, order, old, verdict>> /\ moves' \in 0..MaxMoves
        /\ visible' \in [Spaces -> SUBSET Things] /\ shrunk' \in BOOLEAN
    BY <1>9, MovesAssumption DEF Shift, stock, writes, Spend, Cost
  <2> QED
    BY <2>1 DEF Underway, Kind
<1>10. CASE UNCHANGED scopedVars
  BY <1>10 DEF scopedVars, world, stock, writes, Underway, Kind
<1> QED
  BY <1>3, <1>4, <1>5, <1>7, <1>8, <1>9, <1>10 DEF ScopedNext, NoWriter

(* What the calls and the objects are, for any number of them: a contact   *)
(* keeps a container and its time periods through every update, a contact  *)
(* group its container and a member, and every create makes an object.     *)
THEOREM ScopedTypes == ScopedSpec => []ScopedTypeOK
<1>1. ScopedInit => ScopedTyped
  <2> SUFFICES ASSUME ScopedInit PROVE ScopedTyped
    OBVIOUS
  <2>1. /\ visible \in [Spaces -> SUBSET Things] /\ legal \subseteq Spaces /\ moves = 0 /\ shrunk = FALSE
        /\ object \in Contact \cup Group /\ created = {}
    BY DEF ScopedInit
  <2>2. /\ stage = [w \in Writers |-> "idle"] /\ order = [w \in Writers |-> NoOrder]
        /\ old = [w \in Writers |-> Nothing] /\ verdict = [w \in Writers |-> "open"]
    BY DEF ScopedInit
  <2>3. \A w \in Writers : ~Underway(w) /\ stage[w] = "idle"
    BY <2>2 DEF Underway
  <2>4. 0 \in 0..MaxMoves
    BY MovesAssumption
  <2>5. order \in [Writers -> Orders]
    BY <2>2, NoOrderIs
  <2>6. old \in [Writers -> Contact \cup Group \cup {Nothing}]
    BY <2>2
  <2>7. /\ stage \in [Writers -> {"idle", "read", "place", "scope", "commands", "post", "returned"}]
        /\ verdict \in [Writers -> {"open", "done", "raised"}]
    BY <2>2
  <2>8. ScopedTypeOK
    BY <2>1, <2>4, <2>5, <2>6, <2>7 DEF ScopedTypeOK
  <2> QED
    BY <2>3, <2>8 DEF ScopedTyped
<1>2. ScopedTyped => ScopedTypeOK
  BY DEF ScopedTyped
<1> QED
  BY <1>1, <1>2, TypedStays, PTL DEF ScopedSpec

-----------------------------------------------------------------------------
(* Lifecycle.  The host a create_host made is known by an id nobody else   *)
(* was given, however often objects of its name come and go; so nothing    *)
(* but its own call connects its agent.                                    *)

Creating(c) == asked[c].op = "create_host"
Filed == {"host", "name", "disabled", "agent"}

EstateShape ==
    /\ made \in Nat /\ DOMAIN objects \subseteq 1..made
    /\ \A i \in DOMAIN objects : DOMAIN objects[i] = Filed
    /\ DOMAIN step = Clients /\ DOMAIN asked = Clients /\ DOMAIN aim = Clients /\ DOMAIN result = Clients

(* Where a call can be, and what it then has.                              *)
CallShape(c) ==
    /\ step[c] = "idle" => aim[c] = 0
    /\ step[c] # "returned" => result[c] = "open"
    /\ step[c] \in {"fallback", "page", "sending", "service", "scope", "edit", "posting"} => ~Creating(c)
    /\ step[c] \in {"adding", "connecting"} => Creating(c) /\ asked[c].port \in BOOLEAN
    /\ step[c] = "connecting" => asked[c].port
    /\ Creating(c) => aim[c] \in 0..made

OwnHost == \A c, d \in Clients :
    (c # d /\ Creating(c) /\ Creating(d) /\ aim[c] # 0) => aim[c] # aim[d]

Complete(c) ==
    (Creating(c) /\ (step[c] = "answer" \/ result[c] = "done") /\ aim[c] \in DOMAIN objects)
        => objects[aim[c]].agent = asked[c].port

(* The inductive invariant.                                                *)
LifeInv == EstateShape /\ OwnHost /\ \A c \in Clients : CallShape(c) /\ Complete(c)

(* A step of one call, or of nobody's: ids are not used again, and only an *)
(* object that is this call's own host may change its agent.               *)
LEMMA OneCallSteps ==
    ASSUME LifeInv, NEW c \in Clients, EstateShape', made \leq made',
           \A d \in Clients \ {c} : /\ step'[d] = step[d] /\ asked'[d] = asked[d]
                                    /\ aim'[d] = aim[d] /\ result'[d] = result[d],
           \A i \in DOMAIN objects' : \/ i > made
                                      \/ i \in DOMAIN objects /\ objects'[i].agent = objects[i].agent
                                      \/ Creating(c) /\ i = aim[c],
           Creating(c)' => aim'[c] \in {0, made + 1} \/ (Creating(c) /\ aim'[c] = aim[c]),
           CallShape(c)', Complete(c)'
    PROVE  LifeInv'
<1>1. OwnHost'
  BY DEF LifeInv, OwnHost, EstateShape, CallShape, Creating
<1>2. ASSUME NEW d \in Clients, d # c PROVE CallShape(d)' /\ Complete(d)'
  <2>1. CallShape(d)'
    BY <1>2 DEF LifeInv, EstateShape, CallShape, Creating
  <2>2. ASSUME Creating(d)', step'[d] = "answer" \/ result'[d] = "done", aim'[d] \in DOMAIN objects'
        PROVE  objects'[aim'[d]].agent = asked'[d].port
    <3>1. Creating(d) /\ aim[d] \in 0..made /\ aim[d] # 0 /\ aim'[d] = aim[d]
      BY <1>2, <2>2 DEF LifeInv, EstateShape, CallShape, Creating
    <3>2. ~(Creating(c) /\ aim[d] = aim[c])
      BY <1>2, <3>1 DEF LifeInv, OwnHost
    <3>3. aim[d] \in DOMAIN objects /\ objects'[aim[d]].agent = objects[aim[d]].agent
      BY <2>2, <3>1, <3>2 DEF LifeInv, EstateShape
    <3> QED
      BY <1>2, <2>2, <3>1, <3>3 DEF LifeInv, Complete
  <2> QED
    BY <2>1, <2>2 DEF Complete
<1> QED
  BY <1>1, <1>2 DEF LifeInv

(* A step of a call that changes nothing openITCOCKPIT holds.              *)
LEMMA Reads ==
    ASSUME LifeInv, NEW c \in Clients,
           \/ Raise(c) \/ Fallback(c) \/ ReadPage(c) \/ SendRefused(c) \/ FindService(c)
           \/ ReadScope(c) \/ ReadEdit(c) \/ Answer(c)
    PROVE  LifeInv'
<1>1. UNCHANGED <<objects, made, asked>> /\ DOMAIN step' = Clients /\ DOMAIN aim' = Clients /\ DOMAIN result' = Clients
  BY DEF Raise, Fallback, ReadPage, SendRefused, FindService, ReadScope, ReadEdit, Answer,
         GoTo, Return, estate, LifeInv, EstateShape
<1>2. \A d \in Clients \ {c} : /\ step'[d] = step[d] /\ aim'[d] = aim[d] /\ result'[d] = result[d]
  BY DEF Raise, Fallback, ReadPage, SendRefused, FindService, ReadScope, ReadEdit, Answer,
         GoTo, Return, estate, LifeInv, EstateShape
<1>3. EstateShape'
  BY <1>1 DEF LifeInv, EstateShape
<1>4. Creating(c) => aim'[c] = aim[c]
  BY DEF Raise, Fallback, ReadPage, SendRefused, FindService, ReadScope, ReadEdit, Answer, LifeInv, CallShape
<1>5. CallShape(c)' /\ Complete(c)'
  <2>1. CASE Answer(c)
    BY <1>1, <2>1 DEF Answer, Return, LifeInv, EstateShape, CallShape, Complete, Creating
  <2>2. CASE Raise(c)
    BY <1>1, <2>2 DEF Raise, Return, LifeInv, EstateShape, CallShape, Complete, Creating
  <2>3. CASE Fallback(c) \/ ReadPage(c) \/ SendRefused(c) \/ FindService(c) \/ ReadScope(c) \/ ReadEdit(c)
    <3>1. ~Creating(c)
      BY <2>3 DEF Fallback, ReadPage, SendRefused, FindService, ReadScope, ReadEdit, LifeInv, CallShape
    <3> QED
      BY <1>1, <2>3, <3>1 DEF Fallback, ReadPage, SendRefused, FindService, ReadScope, ReadEdit, GoTo, Return,
           LifeInv, EstateShape, CallShape, Complete, Creating
  <2> QED
    BY <2>1, <2>2, <2>3
<1>6. \A i \in DOMAIN objects' : i \in DOMAIN objects /\ objects'[i].agent = objects[i].agent
  BY <1>1
<1> QED
  BY <1>1, <1>2, <1>3, <1>4, <1>5, <1>6, OneCallSteps DEF LifeInv, EstateShape, Creating

(* The first request of a call.                                            *)
LEMMA Starts ==
    ASSUME LifeInv, NEW c \in Clients, Start(c)
    PROVE  LifeInv'
<1>1. PICK p \in Params : FindTarget(c, p) \/ FindHost(c, p) \/ ResolveHost(c, p)
  BY DEF Start
<1>2. /\ UNCHANGED <<objects, made>> /\ step[c] = "idle" /\ asked' = [asked EXCEPT ![c] = p]
      /\ DOMAIN step' = Clients /\ DOMAIN aim' = Clients /\ DOMAIN result' = Clients
      /\ \A d \in Clients \ {c} : /\ step'[d] = step[d] /\ aim'[d] = aim[d] /\ result'[d] = result[d]
  BY <1>1 DEF FindTarget, FindHost, ResolveHost, GoTo, Return, estate, LifeInv, EstateShape
<1>3. EstateShape' /\ aim[c] = 0 /\ result[c] = "open" /\ asked'[c] = p
  BY <1>2 DEF LifeInv, EstateShape, CallShape
<1>4. CASE FindTarget(c, p)
  <2>1. p.op # "create_host"
    BY <1>4 DEF FindTarget, Switches
  <2>2. ~Creating(c)' /\ step'[c] \notin {"idle", "adding", "connecting"}
        /\ (step'[c] # "returned" => result'[c] = "open")
    BY <1>3, <1>4, <2>1 DEF FindTarget, GoTo, Return, Creating, LifeInv, EstateShape
  <2> QED
    BY <1>2, <1>3, <2>2, OneCallSteps DEF CallShape, Complete, Creating, LifeInv, EstateShape
<1>5. CASE FindHost(c, p)
  <2>1. p.op # "create_host"
    BY <1>5 DEF FindHost
  <2>2. ~Creating(c)' /\ step'[c] \notin {"idle", "adding", "connecting"}
        /\ (step'[c] # "returned" => result'[c] = "open")
    BY <1>3, <1>5, <2>1 DEF FindHost, GoTo, Return, Creating, LifeInv, EstateShape
  <2> QED
    BY <1>2, <1>3, <2>2, OneCallSteps DEF CallShape, Complete, Creating, LifeInv, EstateShape
<1>6. CASE ResolveHost(c, p)
  <2>1. p.port \in BOOLEAN
    <3>1. p \in SwitchParams \/ p \in CreateHostParams \/ p \in CreateServiceParams \/ p \in UpdateServiceParams
      BY DEF Params
    <3> QED
      BY <3>1 DEF SwitchParams, CreateHostParams, CreateServiceParams, UpdateServiceParams
  <2>2. step'[c] = "adding" /\ aim'[c] = 0 /\ result'[c] = "open" /\ Creating(c)'
    BY <1>3, <1>6 DEF ResolveHost, GoTo, Creating, LifeInv, EstateShape
  <2> QED
    BY <1>2, <1>3, <2>1, <2>2, OneCallSteps DEF CallShape, Complete, Creating, LifeInv, EstateShape
<1> QED
  BY <1>1, <1>4, <1>5, <1>6

(* A new object gets an id of its own.                                     *)
LEMMA Fresh ==
    ASSUME EstateShape, NEW h, NEW n, made' = made + 1,
           objects' = [i \in DOMAIN objects \cup {made + 1} |->
                         IF i = made + 1 THEN [host |-> h, name |-> n, disabled |-> FALSE, agent |-> FALSE]
                         ELSE objects[i]]
    PROVE  /\ DOMAIN objects' \subseteq 1..made' /\ \A i \in DOMAIN objects' : DOMAIN objects'[i] = Filed
           /\ objects'[made + 1].agent = FALSE
           /\ \A i \in DOMAIN objects' : i > made \/ (i \in DOMAIN objects /\ objects'[i].agent = objects[i].agent)
<1>1. /\ DOMAIN objects' = DOMAIN objects \cup {made + 1}
      /\ objects'[made + 1] = [host |-> h, name |-> n, disabled |-> FALSE, agent |-> FALSE]
      /\ \A i \in DOMAIN objects : i # made + 1 /\ objects'[i] = objects[i]
  BY DEF EstateShape
<1>2. DOMAIN objects'[made + 1] = Filed /\ objects'[made + 1].agent = FALSE
  BY <1>1 DEF Filed
<1>3. \A i \in DOMAIN objects : DOMAIN objects'[i] = Filed /\ objects'[i].agent = objects[i].agent
  BY <1>1 DEF EstateShape
<1>4. DOMAIN objects' \subseteq 1..made' /\ made + 1 > made
  BY <1>1 DEF EstateShape
<1>5. ASSUME NEW i \in DOMAIN objects'
      PROVE  DOMAIN objects'[i] = Filed /\ (i > made \/ (i \in DOMAIN objects /\ objects'[i].agent = objects[i].agent))
  <2>1. i = made + 1 \/ i \in DOMAIN objects
    BY <1>1
  <2> QED
    BY <1>2, <1>3, <1>4, <2>1
<1> QED
  BY <1>2, <1>4, <1>5

(* What the other tools change is no agent, and no id comes back.          *)
LEMMA OthersChange ==
    ASSUME LifeInv, NEW c \in Clients, Apply(c) \/ PostService(c) \/ PostEdit(c)
    PROVE  LifeInv'
<1>1. /\ UNCHANGED <<asked, aim>> /\ step' = [step EXCEPT ![c] = "answer"] /\ UNCHANGED result
      /\ step[c] \in {"sending", "posting"} /\ made' \in {made, made + 1}
  BY DEF Apply, PostService, PostEdit, GoTo
<1>2. EstateShape' /\ \A i \in DOMAIN objects' : i > made \/ (i \in DOMAIN objects /\ objects'[i].agent = objects[i].agent)
  <2>1. CASE Apply(c)
    BY <1>1, <2>1 DEF Apply, Switched, Covers, LifeInv, EstateShape, Filed
  <2>2. CASE PostService(c)
    <3>1. PICK n : objects' = [i \in DOMAIN objects \cup {made + 1} |->
                      IF i = made + 1 THEN [host |-> scopeHost[c], name |-> n, disabled |-> FALSE, agent |-> FALSE]
                      ELSE objects[i]]
      BY <2>2 DEF PostService
    <3>2. made' = made + 1 /\ DOMAIN step' = Clients /\ EstateShape
      BY <1>1, <2>2 DEF PostService, LifeInv, EstateShape
    <3>3. /\ DOMAIN objects' \subseteq 1..made' /\ \A i \in DOMAIN objects' : DOMAIN objects'[i] = Filed
          /\ \A i \in DOMAIN objects' : i > made \/ (i \in DOMAIN objects /\ objects'[i].agent = objects[i].agent)
      BY <3>1, <3>2, Fresh
    <3> QED
      BY <1>1, <3>2, <3>3 DEF EstateShape
  <2>3. CASE PostEdit(c)
    BY <1>1, <2>3 DEF PostEdit, LifeInv, EstateShape, Filed
  <2> QED
    BY <2>1, <2>2, <2>3
<1>3. ~Creating(c) /\ ~Creating(c)' /\ CallShape(c)' /\ Complete(c)'
  BY <1>1 DEF LifeInv, EstateShape, CallShape, Complete, Creating
<1> QED
  BY <1>1, <1>2, <1>3, OneCallSteps DEF LifeInv, EstateShape

(* The new host, and the connection of its agent.                          *)
LEMMA HostsAppear ==
    ASSUME LifeInv, NEW c \in Clients, AddHost(c) \/ Connect(c)
    PROVE  LifeInv'
<1>1. CASE AddHost(c)
  <2>1. /\ UNCHANGED <<asked, result>> /\ made' = made + 1 /\ aim' = [aim EXCEPT ![c] = made + 1]
        /\ step' = [step EXCEPT ![c] = IF asked[c].port THEN "connecting" ELSE "answer"]
        /\ step[c] = "adding"
        /\ objects' = [i \in DOMAIN objects \cup {made + 1} |->
                         IF i = made + 1
                         THEN [host |-> 0, name |-> asked[c].hostname, disabled |-> FALSE, agent |-> FALSE]
                         ELSE objects[i]]
    BY <1>1 DEF AddHost, GoTo
  <2>2. /\ EstateShape' /\ objects'[made + 1].agent = FALSE
        /\ \A i \in DOMAIN objects' : i > made \/ (i \in DOMAIN objects /\ objects'[i].agent = objects[i].agent)
    <3>1. /\ EstateShape /\ DOMAIN step' = Clients /\ DOMAIN aim' = Clients
          /\ UNCHANGED <<asked, result>> /\ made' = made + 1
      BY <2>1 DEF LifeInv, EstateShape
    <3>2. /\ DOMAIN objects' \subseteq 1..made' /\ \A i \in DOMAIN objects' : DOMAIN objects'[i] = Filed
          /\ objects'[made + 1].agent = FALSE
          /\ \A i \in DOMAIN objects' : i > made \/ (i \in DOMAIN objects /\ objects'[i].agent = objects[i].agent)
      BY <2>1, <3>1, Fresh
    <3> QED
      BY <3>1, <3>2 DEF EstateShape
  <2>3. Creating(c) /\ asked[c].port \in BOOLEAN /\ result[c] = "open" /\ made \in Nat
    BY <2>1 DEF LifeInv, EstateShape, CallShape
  <2>4. aim'[c] = made + 1 /\ step'[c] = (IF asked[c].port THEN "connecting" ELSE "answer")
    BY <2>1 DEF LifeInv, EstateShape
  <2>5. CallShape(c)'
    BY <2>1, <2>3, <2>4 DEF CallShape, Creating
  <2>6. Complete(c)'
    <3>1. asked'[c] = asked[c] /\ result'[c] = "open"
      BY <2>1, <2>3
    <3>2. CASE asked[c].port = TRUE
      BY <2>4, <3>1, <3>2 DEF Complete
    <3>3. CASE asked[c].port = FALSE
      BY <2>2, <2>4, <3>1, <3>3 DEF Complete
    <3> QED
      BY <2>3, <3>2, <3>3
  <2>7. \A d \in Clients \ {c} : /\ step'[d] = step[d] /\ asked'[d] = asked[d]
                                  /\ aim'[d] = aim[d] /\ result'[d] = result[d]
    BY <2>1 DEF LifeInv, EstateShape
  <2>8. made \leq made'
    BY <2>1, <2>3
  <2> QED
    BY <2>2, <2>4, <2>5, <2>6, <2>7, <2>8, OneCallSteps
<1>2. CASE Connect(c)
  <2>1. /\ UNCHANGED <<asked, result, made, aim>> /\ step' = [step EXCEPT ![c] = "answer"]
        /\ step[c] = "connecting" /\ aim[c] \in DOMAIN objects
        /\ objects' = [objects EXCEPT ![aim[c]].agent = TRUE]
    BY <1>2 DEF Connect, GoTo
  <2>2. EstateShape' /\ \A i \in DOMAIN objects' \ {aim[c]} : i \in DOMAIN objects /\ objects'[i].agent = objects[i].agent
    BY <2>1 DEF LifeInv, EstateShape, Filed
  <2>3. objects'[aim[c]].agent = TRUE
    BY <2>1 DEF LifeInv, EstateShape, Filed
  <2>4. Creating(c) /\ asked[c].port \in BOOLEAN /\ asked[c].port /\ result[c] = "open" /\ aim[c] \in 0..made
    BY <2>1 DEF LifeInv, EstateShape, CallShape
  <2>5. CallShape(c)' /\ Complete(c)'
    BY <2>1, <2>3, <2>4 DEF CallShape, Complete, Creating, LifeInv, EstateShape
  <2>6. \A d \in Clients \ {c} : /\ step'[d] = step[d] /\ asked'[d] = asked[d]
                                  /\ aim'[d] = aim[d] /\ result'[d] = result[d]
    BY <2>1 DEF LifeInv, EstateShape
  <2>7. made \in Nat /\ made' = made /\ aim'[c] = aim[c]
    BY <2>1 DEF LifeInv, EstateShape
  <2> QED
    BY <2>2, <2>4, <2>5, <2>6, <2>7, OneCallSteps
<1> QED
  BY <1>1, <1>2

(* Other people rename, stop and resume.                                   *)
LEMMA OthersRename == LifeInv /\ ChangedElsewhere => LifeInv'
<1> SUFFICES ASSUME LifeInv, ChangedElsewhere PROVE LifeInv'
  OBVIOUS
<1>1. UNCHANGED <<made, step, asked, aim, result>>
  BY DEF ChangedElsewhere, calls
<1>2. PICK i \in DOMAIN objects, off \in BOOLEAN : \E n \in IF i \in Hosts THEN HostNames ELSE ServiceNames :
          objects' = [objects EXCEPT ![i].name = n, ![i].disabled = off]
  BY DEF ChangedElsewhere
<1>3. /\ DOMAIN objects' = DOMAIN objects
      /\ \A j \in DOMAIN objects : DOMAIN objects'[j] = Filed /\ objects'[j].agent = objects[j].agent
  BY <1>2 DEF LifeInv, EstateShape, Filed
<1>4. EstateShape'
  BY <1>1, <1>3 DEF LifeInv, EstateShape
<1>5. \A c \in Clients : CallShape(c)' /\ Complete(c)'
  BY <1>1, <1>3 DEF LifeInv, CallShape, Complete, Creating
<1> QED
  BY <1>1, <1>4, <1>5 DEF LifeInv, OwnHost, Creating

(* The inductive invariant holds of every call, from the start ...         *)
LEMMA LifeBegins == LifecycleInit => LifeInv
<1> SUFFICES ASSUME LifecycleInit PROVE LifeInv
  OBVIOUS
<1>1. PICK n \in 0..2 : made = n /\ objects \in [1..n -> Object]
  BY DEF LifecycleInit
<1>2. EstateShape
  BY <1>1 DEF LifecycleInit, EstateShape, Object, Filed
<1>3. OwnHost /\ \A c \in Clients : CallShape(c) /\ Complete(c)
  BY <1>1 DEF LifecycleInit, OwnHost, CallShape, Complete, Creating
<1> QED
  BY <1>2, <1>3 DEF LifeInv

(* ... and through every step.                                             *)
LEMMA LifeKeeps == LifeInv /\ [LifecycleNext]_lifecycleVars => LifeInv'
<1> SUFFICES ASSUME LifeInv, [LifecycleNext]_lifecycleVars PROVE LifeInv'
  OBVIOUS
<1>1. CASE UNCHANGED lifecycleVars
  <2>1. UNCHANGED <<objects, made, step, asked, aim, result>>
    BY <1>1 DEF lifecycleVars, estate, calls
  <2> QED
    BY <2>1 DEF LifeInv, EstateShape, OwnHost, CallShape, Complete, Creating
<1> QED
  BY <1>1, Reads, Starts, OthersChange, HostsAppear, OthersRename DEF LifecycleNext, NoneRuns

LEMMA LifeInvariant == LifecycleSpec => []LifeInv
BY LifeBegins, LifeKeeps, PTL DEF LifecycleSpec

(* ReportedIsComplete: for any number of calls, names and objects, however *)
(* often one deletes what another makes under the same name: a host that   *)
(* was reported has the agent connection its caller asked for.             *)
THEOREM Reported == LifecycleSpec => []ReportedIsComplete
<1>1. LifeInv => ReportedIsComplete
  BY DEF LifeInv, Complete, Creating, ReportedIsComplete
<1> QED
  BY <1>1, LifeInvariant, PTL

(* What the lookups of a call saw: a call that goes on to look among what  *)
(* was taken out of the monitoring had nothing of the name that was in it. *)
Flagged(o) == \A i \in DOMAIN o : o[i].disabled \in BOOLEAN
LookInv ==
    /\ Flagged(objects)
    /\ DOMAIN atFirst = Clients
    /\ \A c \in Clients :
        /\ Flagged(atFirst[c])
        /\ step[c] = "fallback" =>
             \A i \in DOMAIN atFirst[c] : Bears(atFirst[c], i, asked[c]) => atFirst[c][i].disabled

(* What openITCOCKPIT holds is flagged whatever is done to it.             *)
LEMMA FlagsStay == EstateShape /\ Flagged(objects) /\ [LifecycleNext]_lifecycleVars => Flagged(objects)'
<1> SUFFICES ASSUME EstateShape, Flagged(objects), [LifecycleNext]_lifecycleVars PROVE Flagged(objects)'
  OBVIOUS
<1>0. \A i \in DOMAIN objects : DOMAIN objects[i] = Filed /\ objects[i].disabled \in BOOLEAN
  BY DEF EstateShape, Flagged
<1>1. CASE objects' = objects
  BY <1>1 DEF Flagged
<1>2. CASE ChangedElsewhere
  <2>1. PICK i \in DOMAIN objects, off \in BOOLEAN, n \in HostNames \cup ServiceNames :
          objects' = [objects EXCEPT ![i].name = n, ![i].disabled = off]
    BY <1>2 DEF ChangedElsewhere
  <2> QED
    BY <1>0, <2>1 DEF Flagged, Filed
<1>3. ASSUME NEW c \in Clients, Apply(c) PROVE Flagged(objects)'
  <2>1. objects' = Switched(asked[c].op, aim[c])
    BY <1>3 DEF Apply
  <2> QED
    BY <1>0, <2>1 DEF Flagged, Switched, Filed
<1>4. ASSUME NEW c \in Clients, PostService(c) \/ AddHost(c) PROVE Flagged(objects)'
  <2>1. PICK h, n : objects' = [i \in DOMAIN objects \cup {made + 1} |->
                                 IF i = made + 1 THEN [host |-> h, name |-> n, disabled |-> FALSE, agent |-> FALSE]
                                 ELSE objects[i]]
    BY <1>4 DEF PostService, AddHost
  <2>2. ASSUME NEW i \in DOMAIN objects' PROVE objects'[i].disabled \in BOOLEAN
    <3>1. CASE i = made + 1
      BY <2>1, <3>1
    <3>2. CASE i # made + 1
      BY <1>0, <2>1, <3>2
    <3> QED
      BY <3>1, <3>2
  <2> QED
    BY <2>2 DEF Flagged
<1>5. ASSUME NEW c \in Clients, PostEdit(c) \/ Connect(c) PROVE Flagged(objects)'
  <2>1. PICK a \in DOMAIN objects :
          \/ \E n : objects' = [objects EXCEPT ![a].name = n]
          \/ objects' = [objects EXCEPT ![a].agent = TRUE]
    BY <1>5 DEF PostEdit, Connect
  <2>2. \A i \in DOMAIN objects : objects'[i].disabled = objects[i].disabled
    BY <1>0, <2>1 DEF Filed
  <2> QED
    BY <1>0, <2>1, <2>2 DEF Flagged
<1>6. ASSUME NEW c \in Clients,
             \/ Start(c) \/ Raise(c) \/ Fallback(c) \/ ReadPage(c) \/ SendRefused(c)
             \/ FindService(c) \/ ReadScope(c) \/ ReadEdit(c) \/ Answer(c)
      PROVE  objects' = objects
  BY <1>6 DEF Start, FindTarget, FindHost, ResolveHost, Raise, Fallback, ReadPage, SendRefused, FindService,
     ReadScope, ReadEdit, Answer, estate
<1> QED
  BY <1>1, <1>2, <1>3, <1>4, <1>5, <1>6 DEF LifecycleNext, NoneRuns, lifecycleVars, estate

(* One call looks, and leaves what the others saw.                         *)
LEMMA LooksStay == LifeInv /\ LookInv /\ [LifecycleNext]_lifecycleVars => LookInv'
<1> SUFFICES ASSUME LifeInv, LookInv, [LifecycleNext]_lifecycleVars PROVE LookInv'
  OBVIOUS
<1>0. EstateShape /\ Flagged(objects) /\ Flagged(objects)' /\ DOMAIN atFirst = Clients
      /\ DOMAIN step = Clients /\ DOMAIN asked = Clients
  BY FlagsStay DEF LifeInv, LookInv, EstateShape
<1>1. ASSUME UNCHANGED <<asked, atFirst>>, \A c \in Clients : step'[c] = "fallback" => step[c] = "fallback"
      PROVE  LookInv'
  BY <1>0, <1>1 DEF LookInv, Bears, Flagged
<1>2. ASSUME NEW c \in Clients, NEW p \in Params, FindTarget(c, p) \/ FindHost(c, p) \/ ResolveHost(c, p)
      PROVE  LookInv'
  <2>1. /\ asked' = [asked EXCEPT ![c] = p] /\ atFirst' = [atFirst EXCEPT ![c] = objects] /\ objects' = objects
    BY <1>2 DEF FindTarget, FindHost, ResolveHost, estate
  <2>2. \A d \in Clients \ {c} : step'[d] = step[d]
    BY <1>0, <1>2 DEF FindTarget, FindHost, ResolveHost, GoTo, Return
  <2>3. step'[c] = "fallback" => Named(p, FALSE) = {}
    BY <1>0, <1>2 DEF FindTarget, FindHost, ResolveHost, GoTo, Return
  <2>4. asked'[c] = p /\ atFirst'[c] = objects /\ \A d \in Clients \ {c} : asked'[d] = asked[d] /\ atFirst'[d] = atFirst[d]
    BY <1>0, <2>1
  <2>5. Flagged(atFirst[c])'
    BY <1>0, <2>4 DEF Flagged
  <2>6. step'[c] = "fallback" =>
          \A i \in DOMAIN objects : Bears(objects, i, p) => objects[i].disabled
    BY <1>0, <2>3 DEF Named, Flagged
  <2>7. ASSUME NEW d \in Clients
        PROVE  /\ Flagged(atFirst[d])'
               /\ step'[d] = "fallback" =>
                    \A i \in DOMAIN atFirst'[d] : Bears(atFirst'[d], i, asked'[d]) => atFirst'[d][i].disabled
    <3>1. CASE d = c
      BY <2>4, <2>5, <2>6, <3>1
    <3>2. CASE d # c
      BY <2>2, <2>4, <3>2 DEF LookInv, Flagged
    <3> QED
      BY <3>1, <3>2
  <2> QED
    BY <1>0, <2>1, <2>7 DEF LookInv, Bears
<1>3. ASSUME NEW c \in Clients,
             \/ Raise(c) \/ Fallback(c) \/ ReadPage(c) \/ Apply(c) \/ SendRefused(c)
             \/ FindService(c) \/ ReadScope(c) \/ ReadEdit(c) \/ PostService(c) \/ PostEdit(c)
             \/ AddHost(c) \/ Connect(c) \/ Answer(c)
      PROVE  LookInv'
  <2>1. UNCHANGED <<asked, atFirst>>
    BY <1>3 DEF Raise, Fallback, ReadPage, Apply, SendRefused, FindService, ReadScope, ReadEdit, PostService,
       PostEdit, AddHost, Connect, Answer
  <2>2. \E s \in {"returned", "page", "sending", "answer", "scope", "edit", "posting", "connecting"} :
          step' = [step EXCEPT ![c] = s]
    BY <1>3 DEF Raise, Fallback, ReadPage, Apply, SendRefused, FindService, ReadScope, ReadEdit, PostService,
       PostEdit, AddHost, Connect, Answer, GoTo, Return
  <2> QED
    BY <1>0, <1>1, <2>1, <2>2
<1>4. CASE ChangedElsewhere \/ UNCHANGED lifecycleVars
  BY <1>1, <1>4 DEF ChangedElsewhere, lifecycleVars, calls
<1> QED
  BY <1>2, <1>3, <1>4 DEF LifecycleNext, Start, NoneRuns

(* Only the lookup among what is out of the monitoring returns so: nothing *)
(* of the name is on the page it read.                                     *)
LEMMA NotFoundBy ==
    ASSUME LifeInv, [LifecycleNext]_lifecycleVars, NEW c \in Clients, step[c] = "fallback", result'[c] = "not_found"
    PROVE  \E P \in DisabledPages(asked[c]) : P \cap Named(asked[c], TRUE) = {}
<1>0. DOMAIN result = Clients /\ result[c] = "open"
  BY DEF LifeInv, EstateShape, CallShape
<1>1. ASSUME NEW d \in Clients, d # c, \E r : result' = [result EXCEPT ![d] = r] PROVE FALSE
  BY <1>0, <1>1
<1>2. ASSUME result' = result PROVE FALSE
  BY <1>0, <1>2
<1>3. ASSUME Raise(c) PROVE FALSE
  BY <1>0, <1>3 DEF Raise, Return
<1>4. ASSUME NEW d \in Clients,
             \/ Start(d) \/ Raise(d) \/ Fallback(d) \/ ReadPage(d) \/ Apply(d) \/ SendRefused(d)
             \/ FindService(d) \/ ReadScope(d) \/ ReadEdit(d) \/ PostService(d) \/ PostEdit(d)
             \/ AddHost(d) \/ Connect(d) \/ Answer(d)
      PROVE  result' = result \/ \E r : result' = [result EXCEPT ![d] = r]
  BY <1>4 DEF Start, FindTarget, FindHost, ResolveHost, Raise, Fallback, ReadPage, Apply, SendRefused,
     FindService, ReadScope, ReadEdit, PostService, PostEdit, AddHost, Connect, Answer, GoTo, Return
<1>5. ASSUME \/ Start(c) \/ ReadPage(c) \/ Apply(c) \/ SendRefused(c)
             \/ FindService(c) \/ ReadScope(c) \/ ReadEdit(c) \/ PostService(c) \/ PostEdit(c)
             \/ AddHost(c) \/ Connect(c) \/ Answer(c)
      PROVE  FALSE
  BY <1>5 DEF Start, FindTarget, FindHost, ResolveHost, ReadPage, Apply, SendRefused,
     FindService, ReadScope, ReadEdit, PostService, PostEdit, AddHost, Connect, Answer
<1>6. ASSUME Fallback(c) PROVE \E P \in DisabledPages(asked[c]) : P \cap Named(asked[c], TRUE) = {}
  BY <1>0, <1>6 DEF Fallback, GoTo
<1>7. ASSUME ChangedElsewhere \/ NoneRuns \/ UNCHANGED lifecycleVars PROVE result' = result
  BY <1>7 DEF ChangedElsewhere, NoneRuns, lifecycleVars, calls
<1> QED
  BY <1>1, <1>2, <1>3, <1>4, <1>5, <1>6, <1>7 DEF LifecycleNext

(* What the filter matches is finite.                                      *)
LEMMA MatchedIsFinite == ASSUME EstateShape, NEW p PROVE IsFiniteSet(Matched(p))
<1>1. made \in Nat /\ made \in Int /\ 1 \in Int
  BY DEF EstateShape
<1>2. IsFiniteSet(1..made)
  BY <1>1, FS_Interval
<1>3. Matched(p) \subseteq 1..made
  BY DEF EstateShape, Matched
<1> QED
  BY <1>2, <1>3, FS_Subset

(* A page with room for all that matched holds all of it.                  *)
LEMMA RoomyPageHoldsAll ==
    ASSUME EstateShape, NEW p, NEW P \in DisabledPages(p), Cardinality(Matched(p)) <= DISABLED_READ
    PROVE  P = Matched(p)
<1>1. IsFiniteSet(Matched(p))
  BY MatchedIsFinite
<1>2. P \subseteq Matched(p) /\ Cardinality(P) = Cardinality(Matched(p))
  BY DEF DisabledPages
<1> QED
  BY <1>1, <1>2, FS_Subset

(* What bears the names given is among what the filter matches.            *)
LEMMA NamedIsMatched == \A p : Named(p, TRUE) \subseteq Matched(p)
BY DEF Named, Matched, Bears, Contains

(* "No host found" is said of names that nothing bore at both lookups but  *)
(* what was put back into the monitoring between them, or was out of it    *)
(* when more such objects matched than one page holds, for any number of   *)
(* calls and of changes other people make.                                 *)
THEOREM NotFound == LifecycleSpec => NotFoundIsTrue
<1>1. LifecycleInit => LookInv
  <2> SUFFICES ASSUME LifecycleInit PROVE LookInv
    OBVIOUS
  <2>1. PICK n \in 0..2 : objects \in [1..n -> Object]
    BY DEF LifecycleInit
  <2> QED
    BY <2>1 DEF LifecycleInit, LookInv, Flagged, Object
<1>2. LifeInv /\ LookInv /\ [LifecycleNext]_lifecycleVars => LookInv'
  BY LooksStay
<1>3. LifeInv /\ LookInv /\ [LifecycleNext]_lifecycleVars =>
        [\A c \in Clients : (step[c] = "fallback" /\ result'[c] = "not_found") =>
          \A i \in DOMAIN objects \cap DOMAIN atFirst[c] :
             (Bears(objects, i, asked[c]) /\ Bears(atFirst[c], i, asked[c])) =>
                /\ atFirst[c][i].disabled
                /\ objects[i].disabled => Cardinality(Matched(asked[c])) > DISABLED_READ]_lifecycleVars
  <2> SUFFICES ASSUME LifeInv, LookInv, [LifecycleNext]_lifecycleVars,
                      NEW c \in Clients, step[c] = "fallback", result'[c] = "not_found",
                      NEW i \in DOMAIN objects \cap DOMAIN atFirst[c],
                      Bears(objects, i, asked[c]), Bears(atFirst[c], i, asked[c])
               PROVE  /\ atFirst[c][i].disabled
                      /\ objects[i].disabled => Cardinality(Matched(asked[c])) > DISABLED_READ
    OBVIOUS
  <2>1. atFirst[c][i].disabled
    BY DEF LookInv
  <2>2. ASSUME objects[i].disabled PROVE Cardinality(Matched(asked[c])) > DISABLED_READ
    <3>1. PICK P \in DisabledPages(asked[c]) : P \cap Named(asked[c], TRUE) = {}
      BY NotFoundBy
    <3>2. objects[i].disabled = TRUE
      BY <2>2 DEF LookInv, Flagged
    <3>3. i \in Named(asked[c], TRUE) /\ i \in Matched(asked[c])
      BY <3>2, NamedIsMatched DEF Named
    <3>4. ~(Cardinality(Matched(asked[c])) <= DISABLED_READ)
      BY <3>1, <3>3, RoomyPageHoldsAll DEF LifeInv
    <3>5. Cardinality(Matched(asked[c])) \in Nat
      BY MatchedIsFinite, FS_CardinalityType DEF LifeInv
    <3> QED
      BY <3>4, <3>5, PageAssumption
  <2> QED
    BY <2>1, <2>2
<1> QED
  BY <1>1, <1>2, <1>3, LifeInvariant, PTL DEF LifecycleSpec, NotFoundIsTrue

(* A post of a call that is at its last step is one of these two.          *)
LEMMA PostedBy ==
    ASSUME [LifecycleNext]_lifecycleVars, NEW c \in Clients, step[c] = "posting", c \in accepted' \ accepted
    PROVE  PostService(c) \/ PostEdit(c)
<1>1. ASSUME NEW d \in Clients,
             \/ Start(d) \/ Raise(d) \/ Fallback(d) \/ ReadPage(d) \/ SendRefused(d)
             \/ FindService(d) \/ ReadScope(d) \/ ReadEdit(d) \/ Connect(d) \/ Answer(d)
      PROVE  FALSE
  BY <1>1 DEF Start, FindTarget, FindHost, ResolveHost, Raise, Fallback, ReadPage, SendRefused, FindService,
     ReadScope, ReadEdit, Connect, Answer
<1>2. ASSUME NEW d \in Clients, Apply(d) \/ AddHost(d) \/ PostService(d) \/ PostEdit(d) PROVE d = c
  BY <1>2 DEF Apply, AddHost, PostService, PostEdit
<1>3. ASSUME Apply(c) \/ AddHost(c) PROVE FALSE
  BY <1>3 DEF Apply, AddHost
<1>4. ASSUME ChangedElsewhere \/ NoneRuns \/ UNCHANGED lifecycleVars PROVE FALSE
  BY <1>4 DEF ChangedElsewhere, NoneRuns, lifecycleVars, calls
<1> QED
  BY <1>1, <1>2, <1>3, <1>4 DEF LifecycleNext

(* A new service doubles none of a host whose services bear other names.   *)
LEMMA NewDoublesNone ==
    ASSUME EstateShape, NEW h, NEW n, \A i \in ServicesOf(h) : objects[i].name # n,
           NEW o, DOMAIN o = DOMAIN objects \cup {made + 1}, o[made + 1].host = h, o[made + 1].name = n,
           \A i \in DOMAIN objects : o[i] = objects[i]
    PROVE  Doubles(o) \subseteq Doubles(objects)
<1> SUFFICES ASSUME NEW p \in Doubles(o) PROVE p \in Doubles(objects)
  OBVIOUS
<1>0. made \in Nat /\ DOMAIN objects \subseteq 1..made
  BY DEF EstateShape
<1>1. /\ p \in (DOMAIN o) \X (DOMAIN o) /\ p[1] < p[2] /\ o[p[1]].host # 0
      /\ o[p[1]].host = o[p[2]].host /\ o[p[1]].name = o[p[2]].name
  BY DEF Doubles
<1>2. p[1] \in DOMAIN objects
  BY <1>0, <1>1
<1>3. p[2] # made + 1
  BY <1>1, <1>2 DEF ServicesOf
<1> QED
  BY <1>0, <1>1, <1>2, <1>3 DEF Doubles

(* Nor does one that is renamed to a name no other service of its host     *)
(* bears, or keeps its own.                                                *)
LEMMA RenamedDoublesNone ==
    ASSUME EstateShape, NEW a \in DOMAIN objects, NEW n,
           n = objects[a].name \/ \A i \in ServicesOf(objects[a].host) : objects[i].name # n,
           NEW o, o = [objects EXCEPT ![a].name = n]
    PROVE  Doubles(o) \subseteq Doubles(objects)
<1> SUFFICES ASSUME NEW p \in Doubles(o) PROVE p \in Doubles(objects)
  OBVIOUS
<1>0. DOMAIN objects \subseteq Nat /\ DOMAIN o = DOMAIN objects
  BY DEF EstateShape
<1>1. /\ p \in (DOMAIN o) \X (DOMAIN o) /\ p[1] < p[2] /\ o[p[1]].host # 0
      /\ o[p[1]].host = o[p[2]].host /\ o[p[1]].name = o[p[2]].name
  BY DEF Doubles
<1>2. /\ \A i \in DOMAIN objects : o[i].host = objects[i].host
      /\ \A i \in DOMAIN objects \ {a} : o[i].name = objects[i].name
      /\ o[a].name = n
  BY DEF EstateShape, Filed
<1>3. p[1] # p[2]
  BY <1>0, <1>1
<1>4. objects[p[1]].name = objects[p[2]].name
  BY <1>0, <1>1, <1>2, <1>3 DEF ServicesOf
<1> QED
  BY <1>0, <1>1, <1>2, <1>4 DEF Doubles

(* A call whose reads still hold when it posts makes no second service of  *)
(* one name on a host, unless it leaves the name to the template: the      *)
(* check of existingServices is enough for that, and for no more.          *)
THEOREM NoSecond == LifecycleSpec => NoSecondOfName
<1>1. LifeInv /\ [LifecycleNext]_lifecycleVars =>
        [\A c \in Clients :
          (/\ step[c] = "posting" /\ c \in accepted' \ accepted /\ ReadsHold(c)
           /\ asked[c].op = "create_service" => asked[c].new # NoName)
             => Doubles(objects') \subseteq Doubles(objects)]_lifecycleVars
  <2> SUFFICES ASSUME LifeInv, [LifecycleNext]_lifecycleVars, NEW c \in Clients,
                      step[c] = "posting", c \in accepted' \ accepted, ReadsHold(c),
                      asked[c].op = "create_service" => asked[c].new # NoName
               PROVE  Doubles(objects') \subseteq Doubles(objects)
    OBVIOUS
  <2>0. EstateShape /\ made \in Nat /\ DOMAIN objects \subseteq 1..made
    BY DEF LifeInv, EstateShape
  <2>1. CASE PostService(c)
    <3>1. asked[c].op = "create_service" /\ asked[c].new # NoName /\ asked[c].new \notin taken[c]
      BY <2>1 DEF PostService, Free
    <3>2. \A i \in ServicesOf(scopeHost[c]) : objects[i].name # asked[c].new
      BY <3>1 DEF ReadsHold, NamesOn
    <3>3. objects' = [i \in DOMAIN objects \cup {made + 1} |->
                      IF i = made + 1
                      THEN [host |-> scopeHost[c], name |-> asked[c].new, disabled |-> FALSE, agent |-> FALSE]
                      ELSE objects[i]]
      BY <2>1, <3>1 DEF PostService
    <3>4. made + 1 \notin DOMAIN objects
      BY <2>0
    <3> QED
      BY <2>0, <3>2, <3>3, <3>4, NewDoublesNone
  <2>2. CASE PostEdit(c)
    <3> DEFINE a == aim[c]
               n == IF asked[c].new = NoName THEN kept[c] ELSE asked[c].new
    <3>1. a \in DOMAIN objects /\ objects' = [objects EXCEPT ![a].name = n] /\ Free(c)
          /\ asked[c].op = "update_service"
      BY <2>2 DEF PostEdit
    <3>2. objects[a].host = scopeHost[c] /\ objects[a].name = asked[c].service /\ kept[c] = asked[c].service
      BY <2>0, <3>1 DEF ReadsHold
    <3>3. n = objects[a].name \/ \A i \in ServicesOf(objects[a].host) : objects[i].name # n
      BY <3>1, <3>2 DEF ReadsHold, NamesOn, Free
    <3> HIDE DEF n
    <3> QED
      BY <2>0, <3>1, <3>3, RenamedDoublesNone
  <2> QED
    BY <2>1, <2>2, PostedBy
<1> QED
  BY <1>1, LifeInvariant, PTL DEF LifecycleSpec, NoSecondOfName

(* What openITCOCKPIT holds is named by kind, and a call that is about to  *)
(* rename aims at a service: its id is not used again, so that the call    *)
(* never gives a host, made meanwhile, the name of a service.              *)
Kinds(o) == \A i \in DOMAIN o : o[i].name \in IF o[i].host = 0 THEN HostNames ELSE ServiceNames
ServiceSteps == {"service", "scope", "edit", "posting"}
CallTyped(c) ==
    /\ step[c] \in ServiceSteps => scopeHost[c] \in Ids /\ asked[c].op \in {"create_service", "update_service"}
    /\ step[c] = "edit" => asked[c].op = "update_service"
    /\ (step[c] \in {"scope", "edit", "posting"} /\ asked[c].op = "update_service") =>
          aim[c] \in 1..made /\ (aim[c] \in DOMAIN objects => objects[aim[c]].host # 0)
    /\ (step[c] = "posting" /\ asked[c].op = "update_service") => kept[c] \in ServiceNames
LifeTyped == LifeInv /\ LifecycleTypeOK /\ Kinds(objects) /\ \A c \in Clients : CallTyped(c)

(* What is stored of an object stays: its id, and which host it is of.     *)
HostsStay == \A i \in DOMAIN objects' : i <= made => i \in DOMAIN objects /\ objects'[i].host = objects[i].host

(* What an estate is.                                                      *)
LEMMA EstatesAre ==
    /\ \A o \in Estates : o \in [DOMAIN o -> Object] /\ DOMAIN o \subseteq Ids
    /\ \A S \in SUBSET Ids : \A o \in [S -> Object] : o \in Estates
BY DEF Estates

(* The parameters of each tool.                                            *)
LEMMA ParamsAre ==
    ASSUME NEW p \in Params
    PROVE  /\ p.hostname \in HostNames /\ p.service \in AnyName /\ p.new \in AnyName
           /\ p.op = "update_service" => p.service \in ServiceNames
           /\ p.op \in Switches \cup {"create_host", "create_service", "update_service"}
<1>1. CASE p \in SwitchParams
  BY <1>1 DEF SwitchParams, Switches, AnyName
<1>2. CASE p \in CreateHostParams
  BY <1>2 DEF CreateHostParams, AnyName
<1>3. CASE p \in CreateServiceParams
  BY <1>3 DEF CreateServiceParams, AnyName
<1>4. CASE p \in UpdateServiceParams
  BY <1>4 DEF UpdateServiceParams, AnyName
<1> QED
  BY <1>1, <1>2, <1>3, <1>4 DEF Params

(* Ids are given in order, and each of them is within the model's bound.   *)
LEMMA MadeOne ==
    ASSUME LifeTyped, NEW h \in Ids \cup {0}, NEW n, n \in IF h = 0 THEN HostNames ELSE ServiceNames,
           made < MaxObjects, made' = made + 1,
           objects' = [i \in DOMAIN objects \cup {made + 1} |->
                         IF i = made + 1 THEN [host |-> h, name |-> n, disabled |-> FALSE, agent |-> FALSE]
                         ELSE objects[i]]
    PROVE  objects' \in Estates /\ Kinds(objects') /\ HostsStay /\ made' \in 0..MaxObjects /\ DOMAIN objects' \subseteq 1..made'
<1> DEFINE new == [host |-> h, name |-> n, disabled |-> FALSE, agent |-> FALSE]
           S == DOMAIN objects \cup {made + 1}
<1>1. /\ made \in Nat /\ MaxObjects \in Nat /\ made + 1 \in Ids /\ DOMAIN objects \subseteq 1..made
      /\ objects \in [DOMAIN objects -> Object] /\ DOMAIN objects \subseteq Ids /\ Kinds(objects)
  BY BoundsAssumption, EstatesAre DEF LifeTyped, LifecycleTypeOK, Ids
<1>2. new \in Object /\ new.name = n /\ new.host = h
  BY DEF Object
<1> HIDE DEF new
<1>3. objects' = [i \in S |-> IF i = made + 1 THEN new ELSE objects[i]]
  BY DEF new
<1>4. DOMAIN objects' = S /\ objects'[made + 1] = new /\ \A i \in DOMAIN objects : objects'[i] = objects[i]
  BY <1>1, <1>3
<1>5. objects' \in [S -> Object]
  BY <1>1, <1>2, <1>3
<1>6. S \in SUBSET Ids
  BY <1>1
<1>7. objects' \in Estates
  BY <1>5, <1>6, EstatesAre
<1>8. Kinds(objects')
  BY <1>1, <1>2, <1>4 DEF Kinds
<1>9. HostsStay
  BY <1>1, <1>4 DEF HostsStay
<1> QED
  BY <1>1, <1>4, <1>7, <1>8, <1>9

(* One object is given other values of its own kind.                       *)
LEMMA ChangedOne ==
    ASSUME LifeTyped, made' = made, DOMAIN objects' = DOMAIN objects, objects' = [i \in DOMAIN objects |-> objects'[i]],
           \A i \in DOMAIN objects :
              /\ objects'[i] \in Object /\ objects'[i].host = objects[i].host
              /\ \/ objects'[i].name = objects[i].name
                 \/ objects'[i].name \in IF objects[i].host = 0 THEN HostNames ELSE ServiceNames
    PROVE  objects' \in Estates /\ Kinds(objects') /\ HostsStay /\ made' \in 0..MaxObjects /\ DOMAIN objects' \subseteq 1..made'
<1>1. DOMAIN objects \in SUBSET Ids /\ Kinds(objects) /\ DOMAIN objects \subseteq 1..made /\ made \in 0..MaxObjects
  BY EstatesAre DEF LifeTyped, LifecycleTypeOK
<1>2. objects' \in [DOMAIN objects -> Object]
  OBVIOUS
<1> QED
  BY <1>1, <1>2, EstatesAre DEF Kinds, HostsStay

(* Other people give an object a name of its kind.                         *)
LEMMA ElsewhereIs ==
    ASSUME ChangedElsewhere, \A i \in DOMAIN objects : objects[i] \in Object
    PROVE  /\ DOMAIN objects' = DOMAIN objects /\ objects' = [i \in DOMAIN objects |-> objects'[i]]
           /\ \A i \in DOMAIN objects :
                 /\ objects'[i] \in Object /\ objects'[i].host = objects[i].host
                 /\ \/ objects'[i].name = objects[i].name
                    \/ objects'[i].name \in IF objects[i].host = 0 THEN HostNames ELSE ServiceNames
<1>1. PICK k \in DOMAIN objects, off \in BOOLEAN : \E n \in IF k \in Hosts THEN HostNames ELSE ServiceNames :
          objects' = [objects EXCEPT ![k].name = n, ![k].disabled = off]
  BY DEF ChangedElsewhere
<1>2. PICK n : /\ n \in IF objects[k].host = 0 THEN HostNames ELSE ServiceNames
              /\ objects' = [objects EXCEPT ![k].name = n, ![k].disabled = off]
  BY <1>1 DEF Hosts
<1>3. /\ DOMAIN objects' = DOMAIN objects /\ objects' = [i \in DOMAIN objects |-> objects'[i]]
      /\ \A i \in DOMAIN objects : i # k => objects'[i] = objects[i]
  BY <1>2
<1>4. objects'[k] = [objects[k] EXCEPT !.name = n, !.disabled = off]
  BY <1>2 DEF Object
<1>5. objects'[k] \in Object /\ objects'[k].host = objects[k].host /\ objects'[k].name = n
  BY <1>2, <1>4 DEF Object
<1> QED
  BY <1>2, <1>3, <1>5

(* Whatever happens, objects stay of their kind and ids in their order.    *)
LEMMA EstateTyped ==
    ASSUME LifeTyped, [LifecycleNext]_lifecycleVars, IsFiniteSet(Clients)
    PROVE  /\ objects' \in Estates /\ Kinds(objects') /\ HostsStay /\ made' \in 0..MaxObjects
           /\ DOMAIN objects' \subseteq 1..made' /\ made <= made' /\ elsewhere' \in 0..MaxActors
<1>0. /\ objects \in Estates /\ Kinds(objects) /\ made \in 0..MaxObjects /\ elsewhere \in 0..MaxActors
      /\ DOMAIN objects \subseteq 1..made /\ made <= made /\ MaxActors \in Nat
      /\ \A i \in DOMAIN objects : objects[i] \in Object /\ i \in Ids
      /\ \A c \in Clients : asked[c] \in Params /\ aim[c] \in Ids \cup {0} /\ CallTyped(c)
  BY BoundsAssumption, EstatesAre DEF LifeTyped, LifecycleTypeOK
<1>1. CASE objects' = objects /\ made' = made /\ elsewhere' = elsewhere
  BY <1>0, <1>1 DEF HostsStay
<1>2. ASSUME NEW c \in Clients, Apply(c) PROVE objects' \in Estates /\ Kinds(objects') /\ HostsStay
  <2>1. aim[c] \in DOMAIN objects /\ made' = made
    BY <1>2 DEF Apply
  <2>2. CASE asked[c].op = "delete"
    <3> DEFINE S == DOMAIN objects \ Covers(aim[c])
    <3>1. objects' = [j \in S |-> objects[j]] /\ S \subseteq DOMAIN objects
      BY <1>2, <2>2 DEF Apply, Switched
    <3> HIDE DEF S
    <3>2. objects' \in [S -> Object] /\ S \in SUBSET Ids
      BY <1>0, <3>1
    <3>3. objects' \in Estates
      BY <3>2, EstatesAre
    <3> QED
      BY <1>0, <3>1, <3>3 DEF Kinds, HostsStay
  <2>3. CASE asked[c].op # "delete"
    <3>1. objects' = [j \in DOMAIN objects |->
                        IF j \in Covers(aim[c]) THEN [objects[j] EXCEPT !.disabled = (asked[c].op = "stop")]
                        ELSE objects[j]]
      BY <1>2, <2>3 DEF Apply, Switched
    <3>2. \A j \in DOMAIN objects : /\ objects'[j] \in Object /\ objects'[j].host = objects[j].host
                                    /\ objects'[j].name = objects[j].name
      BY <1>0, <3>1 DEF Object
    <3> QED
      BY <2>1, <3>1, <3>2, ChangedOne
  <2> QED
    BY <2>2, <2>3
<1>3. ASSUME NEW c \in Clients, Apply(c) PROVE made' = made /\ elsewhere' = elsewhere /\ DOMAIN objects' \subseteq 1..made
  BY <1>0, <1>3 DEF Apply, Switched
<1>4. ASSUME NEW c \in Clients, PostService(c)
      PROVE  objects' \in Estates /\ Kinds(objects') /\ HostsStay /\ made' \in 0..MaxObjects
             /\ DOMAIN objects' \subseteq 1..made' /\ made <= made' /\ elsewhere' = elsewhere
  <2>1. PICK n \in IF asked[c].new = NoName THEN ServiceNames ELSE {asked[c].new} :
          objects' = [i \in DOMAIN objects \cup {made + 1} |->
                        IF i = made + 1 THEN [host |-> scopeHost[c], name |-> n, disabled |-> FALSE, agent |-> FALSE]
                        ELSE objects[i]]
    BY <1>4 DEF PostService
  <2>2. n \in ServiceNames
    BY <1>0, ParamsAre DEF AnyName
  <2>3. scopeHost[c] \in Ids /\ made < MaxObjects /\ made' = made + 1 /\ elsewhere' = elsewhere
    BY <1>0, <1>4 DEF PostService, CallTyped, ServiceSteps
  <2>4. /\ scopeHost[c] \in Ids \cup {0} /\ n \in IF scopeHost[c] = 0 THEN HostNames ELSE ServiceNames
        /\ made <= made'
    BY <1>0, <2>2, <2>3 DEF Ids
  <2>5. /\ objects' \in Estates /\ Kinds(objects') /\ HostsStay /\ made' \in 0..MaxObjects
        /\ DOMAIN objects' \subseteq 1..made'
    BY <2>1, <2>3, <2>4, MadeOne
  <2> QED
    BY <2>3, <2>4, <2>5
<1>5. ASSUME NEW c \in Clients, AddHost(c)
      PROVE  objects' \in Estates /\ Kinds(objects') /\ HostsStay /\ made' \in 0..MaxObjects
             /\ DOMAIN objects' \subseteq 1..made' /\ made <= made' /\ elsewhere' = elsewhere
  <2>1. /\ made < MaxObjects /\ made' = made + 1 /\ elsewhere' = elsewhere
        /\ objects' = [i \in DOMAIN objects \cup {made + 1} |->
                        IF i = made + 1
                        THEN [host |-> 0, name |-> asked[c].hostname, disabled |-> FALSE, agent |-> FALSE]
                        ELSE objects[i]]
    BY <1>5 DEF AddHost
  <2>2. /\ asked[c].hostname \in IF 0 = 0 THEN HostNames ELSE ServiceNames
        /\ made <= made' /\ 0 \in Ids \cup {0}
    BY <1>0, <2>1, ParamsAre
  <2>3. /\ objects' \in Estates /\ Kinds(objects') /\ HostsStay /\ made' \in 0..MaxObjects
        /\ DOMAIN objects' \subseteq 1..made'
    BY <2>1, <2>2, MadeOne
  <2> QED
    BY <2>1, <2>2, <2>3
<1>6. ASSUME NEW c \in Clients, PostEdit(c)
      PROVE  objects' \in Estates /\ Kinds(objects') /\ HostsStay /\ made' = made
             /\ DOMAIN objects' \subseteq 1..made' /\ elsewhere' = elsewhere
  <2> DEFINE n == IF asked[c].new = NoName THEN kept[c] ELSE asked[c].new
  <2>1. /\ aim[c] \in DOMAIN objects /\ made' = made /\ elsewhere' = elsewhere
        /\ objects' = [objects EXCEPT ![aim[c]].name = n]
        /\ step[c] = "posting" /\ asked[c].op = "update_service"
    BY <1>6 DEF PostEdit
  <2>2. n \in ServiceNames /\ objects[aim[c]].host # 0
    BY <1>0, <2>1, ParamsAre DEF CallTyped, AnyName
  <2> HIDE DEF n
  <2>3. objects' = [i \in DOMAIN objects |-> objects'[i]] /\ DOMAIN objects' = DOMAIN objects
    BY <2>1
  <2>4. \A i \in DOMAIN objects : i # aim[c] => objects'[i] = objects[i]
    BY <2>1
  <2>5. objects'[aim[c]] = [objects[aim[c]] EXCEPT !.name = n]
    BY <2>1
  <2>6. objects'[aim[c]] \in Object /\ objects'[aim[c]].host = objects[aim[c]].host /\ objects'[aim[c]].name = n
    BY <1>0, <2>1, <2>2, <2>5 DEF Object
  <2> QED
    BY <1>0, <2>1, <2>2, <2>3, <2>4, <2>6, ChangedOne
<1>7. ASSUME NEW c \in Clients, Connect(c)
      PROVE  objects' \in Estates /\ Kinds(objects') /\ HostsStay /\ made' = made
             /\ DOMAIN objects' \subseteq 1..made' /\ elsewhere' = elsewhere
  <2>1. /\ aim[c] \in DOMAIN objects /\ made' = made /\ elsewhere' = elsewhere
        /\ objects' = [objects EXCEPT ![aim[c]].agent = TRUE]
    BY <1>7 DEF Connect
  <2>2. objects' = [i \in DOMAIN objects |-> objects'[i]] /\ DOMAIN objects' = DOMAIN objects
    BY <2>1
  <2>3. \A i \in DOMAIN objects : i # aim[c] => objects'[i] = objects[i]
    BY <2>1
  <2>4. objects'[aim[c]] = [objects[aim[c]] EXCEPT !.agent = TRUE]
    BY <2>1
  <2>5. /\ objects'[aim[c]] \in Object /\ objects'[aim[c]].host = objects[aim[c]].host
        /\ objects'[aim[c]].name = objects[aim[c]].name
    BY <1>0, <2>1, <2>4 DEF Object
  <2> QED
    BY <1>0, <2>1, <2>2, <2>3, <2>5, ChangedOne
<1>8. CASE ChangedElsewhere
  <2>4. made' = made /\ elsewhere' = elsewhere + 1 /\ RoomForOne
    BY <1>8 DEF ChangedElsewhere
  <2>8. objects' \in Estates /\ Kinds(objects') /\ HostsStay /\ DOMAIN objects' \subseteq 1..made'
    BY <1>0, <1>8, <2>4, ElsewhereIs, ChangedOne
  <2>9. elsewhere' \in 0..MaxActors
    <3> DEFINE begun == {c \in Clients : step[c] # "idle"}
    <3>1. Cardinality(begun) \in Nat
      BY FS_Subset, FS_CardinalityType
    <3>2. elsewhere + Cardinality(begun) < MaxActors
      BY <2>4 DEF RoomForOne
    <3> HIDE DEF begun
    <3> QED
      BY <1>0, <2>4, <3>1, <3>2
  <2> QED
    BY <1>0, <2>4, <2>8, <2>9
<1>9. ASSUME NEW c \in Clients,
             \/ Start(c) \/ Raise(c) \/ Fallback(c) \/ ReadPage(c) \/ SendRefused(c)
             \/ FindService(c) \/ ReadScope(c) \/ ReadEdit(c) \/ Answer(c)
      PROVE  objects' = objects /\ made' = made /\ elsewhere' = elsewhere
  BY <1>9 DEF Start, FindTarget, FindHost, ResolveHost, Raise, Fallback, ReadPage, SendRefused, FindService,
     ReadScope, ReadEdit, Answer, estate
<1>10. CASE UNCHANGED lifecycleVars
  BY <1>1, <1>10 DEF lifecycleVars, estate
<1> QED
  BY <1>0, <1>1, <1>2, <1>3, <1>4, <1>5, <1>6, <1>7, <1>8, <1>9, <1>10 DEF LifecycleNext, NoneRuns

(* What a call knows of an object outlives what others do to it.           *)
LEMMA CallStays ==
    ASSUME HostsStay, made \in Nat, made <= made', made' \in Nat, NEW d \in Clients, CallTyped(d),
           step'[d] = step[d], asked'[d] = asked[d], aim'[d] = aim[d], scopeHost'[d] = scopeHost[d], kept'[d] = kept[d]
    PROVE  CallTyped(d)'
<1>1. CASE step[d] \in {"scope", "edit", "posting"} /\ asked[d].op = "update_service"
  <2>1. aim[d] \in 1..made /\ (aim[d] \in DOMAIN objects => objects[aim[d]].host # 0)
    BY <1>1 DEF CallTyped
  <2>2. aim[d] \in DOMAIN objects' => objects'[aim[d]].host # 0
    BY <2>1 DEF HostsStay
  <2> QED
    BY <1>1, <2>1, <2>2 DEF CallTyped, ServiceSteps, Ids
<1>2. CASE ~(step[d] \in {"scope", "edit", "posting"} /\ asked[d].op = "update_service")
  BY <1>2 DEF CallTyped, ServiceSteps, Ids
<1> QED
  BY <1>1, <1>2

(* The types of what calls keep.                                           *)
CallsTyped ==
    /\ step \in [Clients -> {"idle", "fallback", "page", "sending", "service", "scope", "edit",
                             "posting", "adding", "connecting", "answer", "returned"}]
    /\ asked \in [Clients -> Params]
    /\ aim \in [Clients -> Ids \cup {0}] /\ scopeHost \in [Clients -> Ids \cup {0}]
    /\ taken \in [Clients -> (SUBSET ServiceNames) \cup {Unread}]
    /\ kept \in [Clients -> HostNames \cup ServiceNames \cup {NoName}]
    /\ atFirst \in [Clients -> Estates]
    /\ accepted \in SUBSET Clients
    /\ result \in [Clients -> {"open", "not_sent", "done", "not_found", "raised"}]

(* What counts one has an element.                                         *)
LEMMA OneIsThere == \A S : Cardinality(S) = 1 => S # {}
BY FS_EmptySet

(* Every step of a call leaves what it keeps of its type, and the other    *)
(* calls alone.                                                            *)
OnlyOf(c) == \A d \in Clients \ {c} : /\ step'[d] = step[d] /\ asked'[d] = asked[d] /\ aim'[d] = aim[d]
                                      /\ scopeHost'[d] = scopeHost[d] /\ kept'[d] = kept[d]

LEMMA FirstTyped ==
    ASSUME LifeTyped, CallsTyped, NEW c \in Clients, Start(c)
    PROVE  CallsTyped' /\ OnlyOf(c) /\ CallTyped(c)'
<1> USE DEF CallsTyped
<1>1. PICK p \in Params : FindTarget(c, p) \/ FindHost(c, p) \/ ResolveHost(c, p)
  BY DEF Start
<1>2. objects \in Estates /\ DOMAIN objects \subseteq Ids
  BY EstatesAre DEF LifeTyped, LifecycleTypeOK
<1>3. CASE FindTarget(c, p)
  <2>1. /\ asked' = [asked EXCEPT ![c] = p] /\ atFirst' = [atFirst EXCEPT ![c] = objects]
        /\ UNCHANGED <<scopeHost, taken, kept, accepted>>
    BY <1>3 DEF FindTarget
  <2>2. /\ \/ aim' = aim
           \/ \E i \in Ids : aim' = [aim EXCEPT ![c] = i]
        /\ \E s \in {"page", "fallback", "returned"} : step' = [step EXCEPT ![c] = s]
        /\ result' = result \/ \E r \in {"not_found", "raised"} : result' = [result EXCEPT ![c] = r]
    BY <1>2, <1>3 DEF FindTarget, Named, GoTo, Return
  <2>3. CallsTyped' /\ step'[c] \in {"page", "fallback", "returned"}
    BY <1>2, <2>1, <2>2
  <2>4. OnlyOf(c)
    BY <2>1, <2>2 DEF OnlyOf
  <2> QED
    BY <2>3, <2>4 DEF CallTyped, ServiceSteps
<1>4. CASE FindHost(c, p)
  <2> DEFINE those == Named([p EXCEPT !.service = NoName], FALSE)
             h == CHOOSE i \in those : TRUE
  <2>1. /\ asked' = [asked EXCEPT ![c] = p] /\ atFirst' = [atFirst EXCEPT ![c] = objects]
        /\ UNCHANGED <<aim, taken, kept, accepted>> /\ p.op \in {"create_service", "update_service"}
    BY <1>4 DEF FindHost
  <2>2. those \subseteq Ids
    BY <1>2 DEF Named
  <2>3. CASE Cardinality(those) = 1
    <3>1. /\ scopeHost' = [scopeHost EXCEPT ![c] = h]
          /\ step' = [step EXCEPT ![c] = IF p.op = "create_service" THEN "scope" ELSE "service"] /\ result' = result
      BY <1>4, <2>3 DEF FindHost, GoTo
    <3> HIDE DEF those
    <3>2. those # {}
      BY <2>3, OneIsThere, Zenon
    <3>3. h \in Ids
      BY <2>2, <3>2
    <3> HIDE DEF h
    <3>4. CallsTyped' /\ OnlyOf(c)
      BY <1>2, <2>1, <3>1, <3>3 DEF OnlyOf
    <3>5. /\ scopeHost'[c] = h /\ asked'[c] = p
          /\ step'[c] = IF p.op = "create_service" THEN "scope" ELSE "service"
      BY <2>1, <3>1
    <3>6. CallTyped(c)'
      BY <2>1, <3>3, <3>5 DEF CallTyped, ServiceSteps, Ids
    <3> QED
      BY <3>4, <3>6
  <2>4. CASE Cardinality(those) # 1
    <3>1. /\ scopeHost' = scopeHost /\ step' = [step EXCEPT ![c] = "returned"]
          /\ \E r \in {"not_found", "raised"} : result' = [result EXCEPT ![c] = r]
      BY <1>4, <2>4 DEF FindHost, Return
    <3> HIDE DEF those
    <3>2. CallsTyped' /\ OnlyOf(c) /\ step'[c] = "returned"
      BY <1>2, <2>1, <3>1 DEF OnlyOf
    <3> QED
      BY <3>2 DEF CallTyped, ServiceSteps
  <2> QED
    BY <2>3, <2>4
<1>5. CASE ResolveHost(c, p)
  <2>1. /\ asked' = [asked EXCEPT ![c] = p] /\ atFirst' = [atFirst EXCEPT ![c] = objects]
        /\ UNCHANGED <<aim, scopeHost, taken, kept, accepted, result>> /\ step' = [step EXCEPT ![c] = "adding"]
    BY <1>5 DEF ResolveHost, GoTo
  <2>2. CallsTyped' /\ OnlyOf(c) /\ step'[c] = "adding"
    BY <1>2, <2>1 DEF OnlyOf
  <2> QED
    BY <2>2 DEF CallTyped, ServiceSteps
<1> QED
  BY <1>1, <1>3, <1>4, <1>5

LEMMA OthersTyped ==
    ASSUME LifeTyped, CallsTyped, NEW c \in Clients,
           \/ Raise(c) \/ Fallback(c) \/ ReadPage(c) \/ Apply(c) \/ SendRefused(c)
           \/ PostService(c) \/ PostEdit(c) \/ AddHost(c) \/ Connect(c) \/ Answer(c)
    PROVE  CallsTyped' /\ OnlyOf(c) /\ CallTyped(c)'
<1>1. DOMAIN objects \subseteq Ids /\ made \in 0..MaxObjects /\ MaxObjects \in Nat
  BY EstatesAre, BoundsAssumption DEF LifeTyped, LifecycleTypeOK
<1>2. UNCHANGED <<asked, scopeHost, taken, kept, atFirst>>
  BY DEF Raise, Fallback, ReadPage, Apply, SendRefused, PostService, PostEdit, AddHost, Connect, Answer
<1>3. accepted' = accepted \/ accepted' = accepted \cup {c}
  BY DEF Raise, Fallback, ReadPage, Apply, SendRefused, PostService, PostEdit, AddHost, Connect, Answer
<1>4. aim' = aim \/ \E i \in Ids : aim' = [aim EXCEPT ![c] = i]
  <2>1. CASE AddHost(c)
    <3>1. aim' = [aim EXCEPT ![c] = made + 1] /\ made < MaxObjects
      BY <2>1 DEF AddHost
    <3>2. made + 1 \in Ids
      BY <1>1, <3>1 DEF Ids
    <3> QED
      BY <3>1, <3>2
  <2>2. CASE Fallback(c)
    BY <1>1, <2>2 DEF Fallback, Named
  <2> QED
    BY <2>1, <2>2 DEF Raise, ReadPage, Apply, SendRefused, PostService, PostEdit, Connect, Answer
<1>5. /\ \E s \in {"page", "sending", "answer", "connecting", "returned"} : step' = [step EXCEPT ![c] = s]
      /\ \/ result' = result
         \/ \E r \in {"not_sent", "done", "not_found", "raised"} : result' = [result EXCEPT ![c] = r]
  BY DEF Raise, Fallback, ReadPage, Apply, SendRefused, PostService, PostEdit, AddHost, Connect, Answer, GoTo, Return
<1>6. CallsTyped' /\ OnlyOf(c) /\ step'[c] \in {"page", "sending", "answer", "connecting", "returned"}
  BY <1>2, <1>3, <1>4, <1>5 DEF CallsTyped, OnlyOf
<1> QED
  BY <1>6 DEF CallTyped, ServiceSteps

LEMMA ServiceStepsTyped ==
    ASSUME LifeTyped, CallsTyped, NEW c \in Clients, FindService(c) \/ ReadScope(c) \/ ReadEdit(c)
    PROVE  CallsTyped' /\ OnlyOf(c) /\ CallTyped(c)'
<1>0. /\ DOMAIN objects \subseteq Ids /\ DOMAIN objects \subseteq 1..made /\ Kinds(objects) /\ CallTyped(c)
      /\ asked[c] \in Params /\ UNCHANGED <<objects, made, asked, scopeHost, atFirst, accepted>>
  BY EstatesAre DEF LifeTyped, LifecycleTypeOK, CallsTyped, FindService, ReadScope, ReadEdit, estate
<1>1. CASE FindService(c)
  <2>1. step[c] = "service" /\ UNCHANGED <<taken, kept>>
    BY <1>1 DEF FindService
  <2>2. scopeHost[c] \in Ids /\ asked[c].op \in {"create_service", "update_service"}
    BY <1>0, <2>1 DEF CallTyped, ServiceSteps
  <2>3. CASE \E i \in Named(asked[c], FALSE) : aim' = [aim EXCEPT ![c] = i] /\ GoTo(c, "scope")
    <3>1. PICK i \in Named(asked[c], FALSE) :
            aim' = [aim EXCEPT ![c] = i] /\ step' = [step EXCEPT ![c] = "scope"] /\ result' = result
      BY <2>3 DEF GoTo
    <3>2. i \in DOMAIN objects /\ i \in Ids /\ i \in 1..made /\ Bears(objects, i, asked[c])
      BY <1>0 DEF Named
    <3>3. asked[c].op = "update_service" => objects[i].host # 0
      BY <1>0, <3>2, ParamsAre, NamesAssumption DEF Bears
    <3>4. CallsTyped' /\ OnlyOf(c)
      BY <1>0, <2>1, <3>1, <3>2 DEF CallsTyped, OnlyOf
    <3>5. step'[c] = "scope" /\ aim'[c] = i
      BY <3>1 DEF CallsTyped
    <3>6. CallTyped(c)'
      BY <1>0, <2>2, <3>2, <3>3, <3>5 DEF CallTyped, ServiceSteps, Ids
    <3> QED
      BY <3>4, <3>6
  <2>4. CASE Return(c, "not_found") /\ UNCHANGED aim
    <3>1. CallsTyped' /\ OnlyOf(c) /\ step'[c] = "returned"
      BY <1>0, <2>1, <2>4 DEF CallsTyped, OnlyOf, Return
    <3> QED
      BY <3>1 DEF CallTyped, ServiceSteps
  <2> QED
    BY <1>1, <2>3, <2>4 DEF FindService
<1>2. CASE ReadScope(c)
  <2> DEFINE s == IF asked[c].op = "create_service" THEN "posting" ELSE "edit"
             earlier == {taken[d] : d \in {e \in Clients : scopeHost[e] = scopeHost[c] /\ taken[e] # Unread}}
  <2>1. /\ step[c] = "scope" /\ step' = [step EXCEPT ![c] = s] /\ UNCHANGED <<aim, kept, result>>
    BY <1>2 DEF ReadScope, GoTo
  <2>7. PICK t \in {NamesOn(scopeHost[c])} \cup earlier : taken' = [taken EXCEPT ![c] = t]
    BY <1>2 DEF ReadScope
  <2>2. scopeHost[c] \in Ids /\ asked[c].op \in {"create_service", "update_service"}
    BY <1>0, <2>1 DEF CallTyped, ServiceSteps
  <2>3. t \in (SUBSET ServiceNames) \cup {Unread}
    <3>1. NamesOn(scopeHost[c]) \subseteq ServiceNames
      BY <1>0, <2>2 DEF NamesOn, ServicesOf, Kinds, Ids
    <3>2. earlier \subseteq (SUBSET ServiceNames) \cup {Unread}
      BY DEF CallsTyped
    <3> QED
      BY <2>7, <3>1, <3>2
  <2> HIDE DEF earlier
  <2>4. CallsTyped' /\ OnlyOf(c)
    BY <1>0, <2>1, <2>3, <2>7 DEF CallsTyped, OnlyOf
  <2>5. step'[c] = s
    BY <2>1 DEF CallsTyped
  <2>6. CallTyped(c)'
    BY <1>0, <2>1, <2>2, <2>5 DEF CallTyped, ServiceSteps, Ids
  <2> QED
    BY <2>4, <2>6
<1>3. CASE ReadEdit(c)
  <2> DEFINE k == objects[aim[c]].name
  <2>1. /\ step[c] = "edit" /\ aim[c] \in DOMAIN objects
        /\ kept' = [kept EXCEPT ![c] = k] /\ step' = [step EXCEPT ![c] = "posting"]
        /\ UNCHANGED <<aim, taken, result>>
    BY <1>3 DEF ReadEdit, GoTo
  <2>2. /\ scopeHost[c] \in Ids /\ asked[c].op = "update_service"
        /\ aim[c] \in 1..made /\ objects[aim[c]].host # 0
    BY <1>0, <2>1 DEF CallTyped, ServiceSteps
  <2>3. k \in ServiceNames
    BY <1>0, <2>1, <2>2 DEF Kinds
  <2> HIDE DEF k
  <2>4. CallsTyped' /\ OnlyOf(c) /\ step'[c] = "posting" /\ kept'[c] = k
    BY <1>0, <2>1, <2>3 DEF CallsTyped, OnlyOf
  <2>5. CallTyped(c)'
    BY <1>0, <2>1, <2>2, <2>3, <2>4 DEF CallTyped, ServiceSteps, Ids
  <2> QED
    BY <2>4, <2>5
<1> QED
  BY <1>1, <1>2, <1>3

(* All steps together.                                                     *)
LEMMA LifeStaysTyped ==
    ASSUME LifeTyped, [LifecycleNext]_lifecycleVars, IsFiniteSet(Clients)
    PROVE  LifeTyped'
<1>0. LifeInv /\ LifecycleTypeOK /\ CallsTyped /\ \A c \in Clients : CallTyped(c)
  BY DEF LifeTyped, LifecycleTypeOK, CallsTyped
<1>1. /\ objects' \in Estates /\ Kinds(objects') /\ HostsStay /\ made' \in 0..MaxObjects
      /\ DOMAIN objects' \subseteq 1..made' /\ made <= made' /\ elsewhere' \in 0..MaxActors
  BY EstateTyped
<1>2. LifeInv'
  BY <1>0, LifeKeeps
<1>3. made \in Nat /\ made' \in Nat
  BY <1>0, <1>1, BoundsAssumption DEF LifecycleTypeOK
<1>4. ASSUME CallsTyped', \A c \in Clients : CallTyped(c)' PROVE LifeTyped'
  <2>1. LifecycleTypeOK'
    BY <1>1, <1>4 DEF LifecycleTypeOK, CallsTyped
  <2>2. Kinds(objects)'
    BY <1>1 DEF Kinds
  <2> QED
    BY <1>2, <1>4, <2>1, <2>2 DEF LifeTyped
<1>5. ASSUME NEW c \in Clients, CallsTyped', OnlyOf(c), CallTyped(c)' PROVE LifeTyped'
  <2>1. \A d \in Clients \ {c} : CallTyped(d)'
    BY <1>0, <1>1, <1>3, <1>5, CallStays DEF OnlyOf
  <2> QED
    BY <1>4, <1>5, <2>1
<1>6. CASE UNCHANGED calls
  <2>1. CallsTyped' /\ UNCHANGED <<step, asked, aim, scopeHost, kept>>
    BY <1>0, <1>6 DEF calls, CallsTyped
  <2>2. \A c \in Clients : CallTyped(c)'
    BY <1>0, <1>1, <1>3, <2>1, CallStays
  <2> QED
    BY <1>4, <2>1, <2>2
<1>7. ASSUME NEW c \in Clients, Start(c) PROVE LifeTyped'
  BY <1>0, <1>5, <1>7, FirstTyped
<1>8. ASSUME NEW c \in Clients,
             \/ Raise(c) \/ Fallback(c) \/ ReadPage(c) \/ Apply(c) \/ SendRefused(c)
             \/ PostService(c) \/ PostEdit(c) \/ AddHost(c) \/ Connect(c) \/ Answer(c)
      PROVE  LifeTyped'
  BY <1>0, <1>5, <1>8, OthersTyped
<1>9. ASSUME NEW c \in Clients, FindService(c) \/ ReadScope(c) \/ ReadEdit(c) PROVE LifeTyped'
  BY <1>0, <1>5, <1>9, ServiceStepsTyped
<1>10. CASE ChangedElsewhere \/ NoneRuns \/ UNCHANGED lifecycleVars
  <2>1. UNCHANGED calls
    <3>1. CASE ChangedElsewhere
      BY <3>1 DEF ChangedElsewhere, calls
    <3>2. CASE UNCHANGED lifecycleVars
      BY <3>2 DEF lifecycleVars, estate, calls
    <3> QED
      BY <1>10, <3>1, <3>2 DEF NoneRuns
  <2> QED
    BY <1>6, <2>1
<1>11. \/ \E c \in Clients :
           \/ Start(c) \/ Raise(c)
           \/ Fallback(c) \/ ReadPage(c) \/ Apply(c) \/ SendRefused(c)
           \/ FindService(c) \/ ReadScope(c) \/ ReadEdit(c) \/ PostService(c) \/ PostEdit(c)
           \/ AddHost(c) \/ Connect(c) \/ Answer(c)
       \/ ChangedElsewhere \/ NoneRuns \/ UNCHANGED lifecycleVars
  BY DEF LifecycleNext
<1> QED
  BY <1>7, <1>8, <1>9, <1>10, <1>11

(* What openITCOCKPIT holds and what calls keep is of its type, for any    *)
(* finite number of calls, and any names and bounds: a host is never given *)
(* the name of a service, although an update sends a name back that it     *)
(* read, for an id that others may have deleted.                           *)
THEOREM LifecycleTyped == ASSUME IsFiniteSet(Clients) PROVE LifecycleSpec => []LifecycleTypeOK
<1>1. LifecycleInit => LifeTyped
  <2> SUFFICES ASSUME LifecycleInit PROVE LifeTyped
    OBVIOUS
  <2>1. PICK n \in 0..2 : /\ made = n /\ objects \in [1..n -> Object]
                          /\ \A i \in 1..n : objects[i].name \in IF objects[i].host = 0 THEN HostNames ELSE ServiceNames
    BY DEF LifecycleInit
  <2>2. 1..n \in SUBSET Ids /\ made \in 0..MaxObjects /\ DOMAIN objects \subseteq 1..made /\ 0 \in 0..MaxActors
    BY <2>1, BoundsAssumption DEF Ids
  <2>3. objects \in Estates /\ Kinds(objects)
    BY <2>1, <2>2, EstatesAre DEF Kinds
  <2>4. (CHOOSE p \in Params : p.op = "create_host") \in Params
    <3>1. PICK x \in HostNames : TRUE
      BY NamesAssumption
    <3>2. [op |-> "create_host", hostname |-> x, service |-> NoName, new |-> NoName, port |-> FALSE] \in Params
      BY DEF Params, CreateHostParams
    <3>3. \E p \in Params : p.op = "create_host"
      BY <3>2
    <3> QED
      BY <3>3
  <2>5. /\ elsewhere = 0 /\ step = [c \in Clients |-> "idle"]
        /\ asked = [c \in Clients |-> CHOOSE p \in Params : p.op = "create_host"]
        /\ aim = [c \in Clients |-> 0] /\ scopeHost = [c \in Clients |-> 0]
        /\ taken = [c \in Clients |-> Unread] /\ kept = [c \in Clients |-> NoName]
        /\ atFirst = [c \in Clients |-> objects] /\ accepted = {} /\ result = [c \in Clients |-> "open"]
    BY DEF LifecycleInit
  <2>6. LifecycleTypeOK
    BY <2>2, <2>3, <2>4, <2>5 DEF LifecycleTypeOK
  <2>7. \A c \in Clients : CallTyped(c)
    BY <2>5 DEF CallTyped, ServiceSteps
  <2> QED
    BY <2>3, <2>6, <2>7, LifeBegins DEF LifeTyped
<1>2. LifeTyped => LifecycleTypeOK
  BY DEF LifeTyped
<1> QED
  BY <1>1, <1>2, LifeStaysTyped, PTL DEF LifecycleSpec

-----------------------------------------------------------------------------
(* Names.  What a name was mapped to stays that template's name while the  *)
(* call goes on, and what it was mapped from stays a name it bore.         *)

(* Template names are used once.                                          *)
OneEach == \A t, u \in Templates : reference[t] = reference[u] => t = u
(* A template bears a name the call was given, or bore it meanwhile.       *)
Bore(t, i) == reference[t] = given[i] \/ <<t, given[i]>> \in bore

NamesShape ==
    /\ reference \in [Templates -> Labels] /\ display \in [Templates -> Labels]
    /\ shown \subseteq Templates /\ renames \in 0..MaxRenames
    /\ given \in Seq(Labels) /\ Len(given) \in 1..2
    /\ mapped \in Seq(Labels) /\ Len(mapped) <= Len(given)
    /\ bore \subseteq Templates \X Labels
    /\ phase \in {"given", "mapping", "returned"}
    /\ found \in Seq(shown) /\ (found = << >> \/ Len(found) = Len(given))

(* The inductive invariant.                                                *)
NamesInv ==
    /\ NamesShape
    /\ phase = "given" => mapped = << >>
    /\ \A t \in Templates : <<t, display[t]>> \in bore
    /\ OneEach => \A i \in 1..Len(mapped), t \in Templates : reference[t] = mapped[i] => Bore(t, i)
    /\ OneEach => \A i \in 1..Len(found) : Bore(found[i], i)
    /\ phase = "mapping" => ~AllMatch(given)
    /\ AllMatch(given) => \A i \in 1..Len(found) : reference[found[i]] = given[i]

(* The smallest of some numbers.                                           *)
LEMMA LeastOf ==
    ASSUME NEW S, S \subseteq Nat, S # {}
    PROVE  \E m \in S : \A n \in S : m <= n
<1>1. PICK m \in S : \A n \in S : ~ (<<n, m>> \in OpToRel(<, Nat))
  BY NatLessThanWellFounded, WFMin, Zenon
<1>2. ASSUME NEW n \in S PROVE m <= n
  <2>1. n \in Nat /\ m \in Nat /\ ~ (n < m)
    BY <1>1 DEF OpToRel
  <2> QED
    BY <2>1
<1> QED
  BY <1>2

(* A name that one template has is of that template.                       *)
LEMMA IdsAre ==
    ASSUME NEW names \in Seq(Labels), AllMatch(names), shown \subseteq Templates
    PROVE  /\ IdsOf(names) \in Seq(shown) /\ Len(IdsOf(names)) = Len(names)
           /\ \A i \in 1..Len(names) : reference[IdsOf(names)[i]] = names[i]
<1>1. ASSUME NEW i \in 1..Len(names)
      PROVE  (CHOOSE t \in Templates : t \in Matches(names[i])) \in Matches(names[i])
  <2>1. Matches(names[i]) # {}
    <3> DEFINE m == Matches(names[i])
    <3>1. Cardinality(m) = 1
      BY DEF AllMatch
    <3> HIDE DEF m
    <3>2. m # {}
      BY <3>1, FS_EmptySet
    <3> QED
      BY <3>2 DEF m
  <2>2. \E t \in Templates : t \in Matches(names[i])
    BY <2>1 DEF Matches
  <2> QED
    BY <2>2
<1>2. Len(names) \in Nat
  OBVIOUS
<1>3. \A i \in 1..Len(names) : IdsOf(names)[i] \in shown /\ reference[IdsOf(names)[i]] = names[i]
  BY <1>1 DEF IdsOf, Matches
<1>4. IdsOf(names) \in [1..Len(names) -> shown]
  BY <1>3 DEF IdsOf
<1> HIDE DEF IdsOf
<1>5. IdsOf(names) \in Seq(shown) /\ Len(IdsOf(names)) = Len(names)
  BY <1>2, <1>4
<1> QED
  BY <1>3, <1>5

(* A lookup begins with the names as they are given.                       *)
LEMMA NamesBegin == NamesInit => NamesInv
<1> SUFFICES ASSUME NamesInit PROVE NamesInv
  OBVIOUS
<1>1. given \in Seq(Labels) /\ Len(given) \in 1..2
  <2>1. CASE given \in UNION {[1..n -> Labels] : n \in 1..2}
    <3>1. PICK n \in 1..2 : given \in [1..n -> Labels]
      BY <2>1
    <3> QED
      BY <3>1
  <2>2. CASE \E n \in Labels : given = <<n>>
    BY <2>2
  <2> QED
    BY <2>1, <2>2 DEF NamesInit
<1>2. reference \in [Templates -> Labels] /\ display \in [Templates -> Labels] /\ shown \subseteq Templates
  BY DEF NamesInit
<1>3. mapped = << >> /\ found = << >> /\ Len(<< >>) = 0 /\ << >> \in Seq(Labels) /\ << >> \in Seq(shown)
  BY DEF NamesInit
<1>4. NamesShape
  BY <1>1, <1>2, <1>3, NamesBounds DEF NamesInit, NamesShape
<1> QED
  BY <1>3, <1>4 DEF NamesInit, NamesInv

(* Every step of a lookup, and every renaming, keeps the invariant.        *)
LEMMA NamesKeep == NamesInv /\ [NamesNext]_namesVars => NamesInv'
<1> SUFFICES ASSUME NamesInv, [NamesNext]_namesVars PROVE NamesInv'
  OBVIOUS
<1>0. /\ NamesShape /\ Len(mapped) \in Nat /\ Len(given) \in Nat
      /\ (phase = "given" => mapped = << >>)
      /\ \A t \in Templates : <<t, display[t]>> \in bore
      /\ OneEach => \A i \in 1..Len(mapped), t \in Templates : reference[t] = mapped[i] => Bore(t, i)
      /\ OneEach => \A i \in 1..Len(found) : Bore(found[i], i)
      /\ phase = "mapping" => ~AllMatch(given)
      /\ AllMatch(given) => \A i \in 1..Len(found) : reference[found[i]] = given[i]
  BY DEF NamesInv, NamesShape
<1>m. AllMatch(given)' = AllMatch(given)
  BY DEF NamesNext, Rename, TryGiven, MapNext, TryMapped, Returned, namesVars, AllMatch, Matches
<1>1. CASE Rename
  <2>1. PICK t \in Templates, n \in Labels :
          display' = [display EXCEPT ![t] = n] /\ bore' = bore \cup {<<t, n>>}
    BY <1>1 DEF Rename
  <2>2. UNCHANGED <<reference, shown, given, mapped, phase, found>> /\ renames < MaxRenames /\ renames' = renames + 1
    BY <1>1 DEF Rename
  <2>3. NamesShape'
    BY <1>0, <2>1, <2>2, NamesBounds DEF NamesShape
  <2>4. \A u \in Templates : <<u, display'[u]>> \in bore'
    BY <1>0, <2>1 DEF NamesShape
  <2> QED
    BY <1>0, <1>m, <2>1, <2>2, <2>3, <2>4 DEF NamesInv, OneEach, Bore
<1>2. CASE TryGiven
  <2>1. /\ UNCHANGED <<reference, display, shown, renames, given, mapped, bore>> /\ phase = "given"
        /\ phase' \in {"returned", "mapping"}
    BY <1>2 DEF TryGiven
  <2>2. CASE AllMatch(given)
    <3>1. found' = IdsOf(given) /\ phase' = "returned"
      BY <1>2, <2>2 DEF TryGiven
    <3>2. /\ found' \in Seq(shown) /\ Len(found') = Len(given)
          /\ \A i \in 1..Len(given) : reference[found'[i]] = given[i]
      BY <1>0, <2>2, <3>1, IdsAre DEF NamesShape
    <3>3. NamesShape'
      BY <1>0, <2>1, <3>2 DEF NamesShape
    <3> QED
      BY <1>0, <1>m, <2>1, <3>1, <3>2, <3>3 DEF NamesInv, OneEach, Bore
  <2>3. CASE ~AllMatch(given)
    <3>1. found' = found /\ phase' = "mapping"
      BY <1>2, <2>3 DEF TryGiven
    <3> QED
      BY <1>0, <1>m, <2>1, <2>3, <3>1 DEF NamesInv, NamesShape, OneEach, Bore
  <2> QED
    BY <2>2, <2>3
<1>3. CASE MapNext
  <2> DEFINE k == Len(mapped) + 1
             n == given[k]
             first == CHOOSE t \in Listed(n) : \A u \in Listed(n) : t <= u
             m == IF Listed(n) = {} THEN n ELSE reference[first]
  <2>1. /\ UNCHANGED <<reference, display, shown, renames, given, bore, phase, found>> /\ phase = "mapping"
        /\ Len(mapped) < Len(given) /\ mapped' = Append(mapped, m)
    BY <1>3 DEF MapNext
  <2>2. n \in Labels /\ given \in Seq(Labels) /\ mapped \in Seq(Labels) /\ reference \in [Templates -> Labels]
    BY <1>0, <2>1 DEF NamesShape
  <2>3. Listed(n) # {} => first \in Listed(n)
    <3>1. Listed(n) \subseteq Nat
      BY TemplatesAssumption DEF Listed
    <3>2. Listed(n) # {} => \E t \in Listed(n) : \A u \in Listed(n) : t <= u
      BY <3>1, LeastOf
    <3> QED
      BY <3>2
  <2>4. m \in Labels
    BY <2>2, <2>3 DEF Listed
  <2>5. ASSUME OneEach, NEW t \in Templates, reference[t] = m PROVE Bore(t, k)
    <3>1. CASE Listed(n) = {}
      BY <2>5, <3>1 DEF Bore
    <3>2. CASE Listed(n) # {}
      <4>1. first \in Templates /\ display[first] = n /\ m = reference[first]
        BY <2>3, <3>2 DEF Listed
      <4>2. t = first
        BY <2>5, <4>1 DEF OneEach
      <4>3. <<t, n>> \in bore
        BY <1>0, <4>1, <4>2
      <4> QED
        BY <4>3 DEF Bore
    <3> QED
      BY <3>1, <3>2
  <2> HIDE DEF m, first
  <2>6. /\ mapped' \in Seq(Labels) /\ Len(mapped') = k
        /\ mapped'[k] = m /\ \A i \in 1..Len(mapped) : mapped'[i] = mapped[i]
    BY <2>1, <2>2, <2>4, AppendProperties
  <2>7. NamesShape'
    BY <1>0, <2>1, <2>6 DEF NamesShape
  <2>8. ASSUME OneEach, NEW i \in 1..k, NEW t \in Templates, reference[t] = mapped'[i] PROVE Bore(t, i)
    <3>1. CASE i = k
      BY <2>5, <2>6, <2>8, <3>1
    <3>2. CASE i # k
      <4>1. i \in 1..Len(mapped)
        BY <1>0, <3>2
      <4> QED
        BY <1>0, <2>6, <2>8, <4>1
    <3> QED
      BY <3>1, <3>2
  <2> QED
    BY <1>0, <1>m, <2>1, <2>6, <2>7, <2>8 DEF NamesInv, OneEach, Bore
<1>4. CASE TryMapped
  <2>1. /\ UNCHANGED <<reference, display, shown, renames, given, mapped, bore>> /\ phase' = "returned"
        /\ Len(mapped) = Len(given) /\ phase = "mapping"
        /\ found' = IF mapped # given /\ AllMatch(mapped) THEN IdsOf(mapped) ELSE << >>
    BY <1>4 DEF TryMapped
  <2>0. /\ \A t \in Templates : <<t, display'[t]>> \in bore'
        /\ (OneEach => \A i \in 1..Len(mapped), t \in Templates : reference[t] = mapped[i] => Bore(t, i))'
    BY <1>0, <2>1 DEF OneEach, Bore
  <2>2. CASE mapped # given /\ AllMatch(mapped)
    <3>1. /\ found' \in Seq(shown) /\ Len(found') = Len(given)
          /\ \A i \in 1..Len(given) : reference[found'[i]] = mapped[i]
      BY <1>0, <2>1, <2>2, IdsAre DEF NamesShape
    <3>2. NamesShape'
      BY <1>0, <2>1, <3>1 DEF NamesShape
    <3>3. ASSUME OneEach, NEW i \in 1..Len(found') PROVE Bore(found'[i], i)
      <4>1. found'[i] \in Templates /\ i \in 1..Len(mapped) /\ reference[found'[i]] = mapped[i]
        BY <1>0, <2>1, <3>1 DEF NamesShape
      <4> QED
        BY <1>0, <3>3, <4>1
    <3> QED
      BY <1>0, <1>m, <2>0, <2>1, <3>2, <3>3 DEF NamesInv, OneEach, Bore
  <2>3. CASE ~(mapped # given /\ AllMatch(mapped))
    <3>1. found' = << >> /\ Len(found') = 0 /\ found' \in Seq(shown)
      BY <2>1, <2>3
    <3>2. NamesShape'
      BY <1>0, <2>1, <3>1 DEF NamesShape
    <3>3. \A i \in 1..Len(found') : Bore(found[i], i)'
      BY <3>1
    <3> QED
      BY <1>0, <1>m, <2>0, <2>1, <3>2, <3>3 DEF NamesInv, OneEach, Bore
  <2> QED
    BY <2>2, <2>3
<1>5. CASE UNCHANGED namesVars
  BY <1>0, <1>m, <1>5 DEF namesVars, NamesInv, NamesShape, OneEach, Bore
<1> QED
  BY <1>1, <1>2, <1>3, <1>4, <1>5 DEF NamesNext, Returned

(* The invariant holds throughout a lookup.                                *)
LEMMA NamesInvariant == NamesSpec => []NamesInv
BY NamesBegin, NamesKeep, PTL DEF NamesSpec

(* A service template returned for a name bears it as its template name,   *)
(* or as a display name it had during the call, and that only if the names *)
(* given are not all template names, however often templates are renamed   *)
(* between the requests of the lookup.                                     *)
THEOREM FoundByEitherName == NamesSpec => []EitherName
<1>1. NamesInv => EitherName
  BY DEF NamesInv, EitherName, OneEach, Bore
<1> QED
  BY <1>1, NamesInvariant, PTL

(* What the variables of a lookup are, for any number of templates, names  *)
(* and containers.                                                         *)
THEOREM NamesTyped == NamesSpec => []NamesTypeOK
<1> DEFINE Wanted == UNION {[1..n -> Labels] : n \in 1..2}
<1>1. NamesInit => paths \subseteq Paths /\ given \in Wanted
  <2> SUFFICES ASSUME NamesInit PROVE paths \subseteq Paths /\ given \in Wanted
    OBVIOUS
  <2>1. paths = {} \/ paths \in {S \in SUBSET Paths : Cardinality(S) <= MaxPaths}
    BY DEF NamesInit
  <2>2. CASE \E n \in Labels : given = <<n>>
    <3>1. given \in [1..1 -> Labels]
      BY <2>2
    <3> QED
      BY <2>1, <3>1
  <2>3. CASE given \in Wanted
    BY <2>1, <2>3
  <2> QED
    BY <2>2, <2>3 DEF NamesInit
<1>2. paths \subseteq Paths /\ given \in Wanted /\ [NamesNext]_namesVars => (paths \subseteq Paths /\ given \in Wanted)'
  <2> SUFFICES ASSUME paths \subseteq Paths, given \in Wanted, [NamesNext]_namesVars
               PROVE  (paths \subseteq Paths /\ given \in Wanted)'
    OBVIOUS
  <2>1. UNCHANGED <<paths, given>>
    BY DEF NamesNext, Rename, TryGiven, MapNext, TryMapped, Returned, namesVars
  <2> QED
    BY <2>1 DEF Paths
<1>3. NamesInv /\ paths \subseteq Paths /\ given \in Wanted => NamesTypeOK
  BY DEF NamesInv, NamesShape, NamesTypeOK
<1> QED
  BY <1>1, <1>2, <1>3, NamesInvariant, PTL DEF NamesSpec

(* One path is above another, or the same.                                 *)
Above(q, p) == p = q \/ Below(p, q)

(* Below compares a path with the beginning of another.                    *)
LEMMA BelowIs ==
    ASSUME NEW p \in Seq(Steps), NEW q \in Seq(Steps)
    PROVE  Above(q, p) <=> (Len(q) <= Len(p) /\ \A i \in 1..Len(q) : q[i] = p[i])
<1> DEFINE b == SubSeq(p, 1, Len(q))
<1>0. Len(p) \in Nat /\ Len(q) \in Nat
  OBVIOUS
<1>1. ASSUME Len(q) <= Len(p) PROVE b \in Seq(Steps) /\ Len(b) = Len(q) /\ \A i \in 1..Len(q) : b[i] = p[i]
  <2>1. \A i \in 1..Len(q) : p[i] \in Steps
    BY <1>0, <1>1
  <2>2. /\ b \in Seq(Steps) /\ Len(b) = (IF 1 <= Len(q) THEN Len(q) - 1 + 1 ELSE 0)
        /\ \A i \in 1..(Len(q) - 1 + 1) : b[i] = p[1 + i - 1]
    BY <1>0, <2>1, SubSeqProperties
  <2> HIDE DEF b
  <2> QED
    BY <1>0, <2>2
<1>2. ASSUME Above(q, p) PROVE Len(q) <= Len(p) /\ \A i \in 1..Len(q) : q[i] = p[i]
  BY <1>0, <1>1, <1>2 DEF Above, Below
<1>3. ASSUME Len(q) <= Len(p), \A i \in 1..Len(q) : q[i] = p[i] PROVE Above(q, p)
  <2>1. CASE Len(q) = Len(p)
    BY <1>3, <2>1, SeqEqual DEF Above
  <2>2. CASE Len(q) < Len(p)
    <3>1. b = q
      <4> HIDE DEF b
      <4> QED
        BY <1>1, <1>3, SeqEqual
    <3> QED
      BY <2>2, <3>1 DEF Above, Below
  <2> QED
    BY <1>0, <1>3, <2>1, <2>2
<1> QED
  BY <1>2, <1>3

(* The shortest container above one is a top container, and no other above *)
(* it is: all that are above one are above each other.                     *)
LEMMA TopsAre ==
    ASSUME paths \subseteq Paths, NEW p \in paths
    PROVE  Cardinality({q \in Top(paths) : p = q \/ Below(p, q)}) = 1
<1>0. paths \subseteq Seq(Steps)
  <2> SUFFICES ASSUME NEW x \in Paths PROVE x \in Seq(Steps)
    OBVIOUS
  <2>1. PICK n \in 1..MaxDepth : x \in [1..n -> Steps]
    BY DEF Paths
  <2> QED
    BY <2>1, NamesBounds
<1>l. \A x \in paths : Len(x) \in Nat
  BY <1>0
<1> DEFINE S == {q \in paths : Above(q, p)}
           L == {Len(q) : q \in S}
<1>1. \E q \in S : \A r \in S : Len(q) <= Len(r)
  <2>1. p \in S
    BY DEF Above
  <2>2. L \subseteq Nat /\ L # {}
    BY <1>l, <2>1
  <2>3. PICK m \in L : \A n \in L : m <= n
    <3> HIDE DEF L
    <3> QED
      BY <2>2, LeastOf
  <2> QED
    BY <2>3
<1>2. PICK q \in S : \A r \in S : Len(q) <= Len(r)
  BY <1>1
<1>3. q \in Top(paths)
  <2>1. ASSUME NEW r \in paths, Below(q, r) PROVE FALSE
    <3>1. Above(r, q) /\ Len(r) < Len(q)
      BY <2>1 DEF Above, Below
    <3>2. Above(r, p)
      <4>1. p \in Seq(Steps) /\ q \in Seq(Steps) /\ r \in Seq(Steps)
        BY <1>0
      <4>2. /\ Len(r) <= Len(q) /\ \A i \in 1..Len(r) : r[i] = q[i]
            /\ Len(q) <= Len(p) /\ \A i \in 1..Len(q) : q[i] = p[i]
        BY <3>1, <4>1, BelowIs
      <4>3. Len(r) <= Len(p) /\ \A i \in 1..Len(r) : r[i] = p[i]
        BY <1>l, <4>2
      <4> QED
        BY <4>1, <4>3, BelowIs
    <3> QED
      BY <1>2, <1>l, <3>1, <3>2
  <2> QED
    BY <2>1 DEF Top
<1>4. ASSUME NEW r \in Top(paths), p = r \/ Below(p, r) PROVE r = q
  <2>1. r \in S /\ r \in paths /\ Len(q) <= Len(r)
    BY <1>2, <1>4 DEF Top, Above
  <2>2. p \in Seq(Steps) /\ q \in Seq(Steps) /\ r \in Seq(Steps)
    BY <1>0, <2>1
  <2>3. /\ Len(r) <= Len(p) /\ \A i \in 1..Len(r) : r[i] = p[i]
        /\ Len(q) <= Len(p) /\ \A i \in 1..Len(q) : q[i] = p[i]
    BY <2>1, <2>2, BelowIs
  <2>4. \A i \in 1..Len(q) : q[i] = r[i]
    BY <1>l, <2>1, <2>3
  <2>5. Above(q, r)
    BY <2>1, <2>2, <2>4, BelowIs
  <2> QED
    BY <1>4, <2>5 DEF Above, Top
<1>5. {x \in Top(paths) : p = x \/ Below(p, x)} = {q}
  <2>1. p = q \/ Below(p, q)
    BY DEF Above
  <2> QED
    BY <1>3, <1>4, <2>1
<1> QED
  BY <1>5, FS_Singleton

(* The trees at the top containers hold every container the user sees, and *)
(* each once, for containers of any depth with any gaps between them.      *)
THEOREM TopsCover == NamesSpec => []TopsCoverOnce
<1>1. NamesInit => paths \subseteq Paths
  BY DEF NamesInit
<1>2. paths \subseteq Paths /\ [NamesNext]_namesVars => (paths \subseteq Paths)'
  BY DEF NamesNext, Rename, TryGiven, MapNext, TryMapped, Returned, namesVars
<1>3. paths \subseteq Paths => TopsCoverOnce
  BY TopsAre DEF TopsCoverOnce
<1> QED
  BY <1>1, <1>2, <1>3, PTL DEF NamesSpec
=============================================================================
