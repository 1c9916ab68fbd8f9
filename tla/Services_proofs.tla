--------------------------- MODULE Services_proofs ---------------------------
(***************************************************************************)
(* What holds of the services for any rows, native nodes, elements, styles *)
(* and tasks: the layers of NodeEvents agree and JS is heard, a mark of    *)
(* RenderMarks for painting waits in the queue, an animator of             *)
(* NodeAnimations is ticked, ImageLoader keeps account of its cache and    *)
(* answers a load once, the deque and the set of UniqueWeakPtrQueue are    *)
(* one queue.  The services share no state, and each part below is about   *)
(* one of them.                                                            *)
(***************************************************************************)
EXTENDS MCServices, MCAnimations, ListTheorems, FiniteSetTheorems, TLAPS

(***************************************************************************)
(* NodeEvents.                                                             *)
(***************************************************************************)
Registries == [listeners : SUBSET Listeners, targets : SUBSET Targets,
               keepers : SUBSET Keepers, native : SUBSET (Handles \X Types)]

Registered(keepers) == {<<k[1], k[3]>> : k \in keepers}
Targeted(listeners) == {<<l[1], l[4], l[2]>> : l \in listeners}
Kept(targets, nodes) == {<<x[2], x[1], Type[x[3]]>> : x \in {y \in targets : y[2] \in nodes}}

-----------------------------------------------------------------------------
(* The operators of the registry.                                          *)

(* event_adapter.cpp: without the keepers in gone, ArkUI still has exactly *)
(* the registrations of the keepers that are left.                         *)
LEMMA AdapterForgets ==
    ASSUME NEW r \in Registries, NEW gone, r.native = Registered(r.keepers)
    PROVE  LET s == unRegisterNodeEvent(r, gone)
           IN  /\ s \in Registries
               /\ s.listeners = r.listeners /\ s.targets = r.targets
               /\ s.keepers = r.keepers \ gone
               /\ s.native = Registered(s.keepers)
<1> DEFINE s == unRegisterNodeEvent(r, gone)
<1>1. /\ s \in Registries
      /\ s.listeners = r.listeners /\ s.targets = r.targets
      /\ s.keepers = r.keepers \ gone
      /\ s.native = {x \in r.native : hasRegister(gone, x[1], x[2])
                                        => hasRegister(r.keepers \ gone, x[1], x[2])}
  BY DEF unRegisterNodeEvent, Registries
<1>2. ASSUME NEW x \in s.native PROVE x \in Registered(s.keepers)
  <2>1. PICK k \in r.keepers : x = <<k[1], k[3]>>
    BY <1>1 DEF Registered
  <2>2. CASE k \notin gone
    BY <1>1, <2>1, <2>2 DEF Registered
  <2>3. CASE k \in gone
    <3>1. hasRegister(gone, x[1], x[2])
      BY <2>1, <2>3 DEF hasRegister
    <3>2. PICK j \in r.keepers \ gone : j[1] = x[1] /\ j[3] = x[2]
      BY <1>1, <3>1 DEF hasRegister
    <3>3. x = <<j[1], j[3]>>
      BY <2>1, <3>2
    <3> QED BY <1>1, <3>2, <3>3 DEF Registered
  <2> QED BY <2>2, <2>3
<1>3. ASSUME NEW x \in Registered(s.keepers) PROVE x \in s.native
  <2>1. PICK k \in r.keepers \ gone : x = <<k[1], k[3]>>
    BY <1>1 DEF Registered
  <2>2. x \in r.native
    BY <2>1 DEF Registered
  <2>3. hasRegister(r.keepers \ gone, x[1], x[2])
    BY <2>1 DEF hasRegister
  <2> QED BY <1>1, <2>2, <2>3
<1>4. s.native = Registered(s.keepers)
  BY <1>2, <1>3
<1> QED BY <1>1, <1>4

(* addEventListener on a node that exists keeps the layers in agreement.   *)
LEMMA AddAgrees ==
    ASSUME NodeEventsAssumption, NEW r \in Registries, NEW nodes \in SUBSET Handles,
           Consistent(r, nodes),
           NEW e \in Rows, NEW names \in SUBSET Names, NEW js \in BOOLEAN, NEW h \in nodes
    PROVE  LET s == addEventListener(r, e, names, js, h)
           IN  /\ s \in Registries /\ Consistent(s, nodes)
               /\ s.listeners = r.listeners \cup {<<e, n, js, h>> : n \in names}
<1> DEFINE s == addEventListener(r, e, names, js, h)
           seen == {Type[x[3]] : x \in {y \in r.targets : y[1] = e /\ y[2] = h}}
           new == {Type[n] : n \in names} \ seen
           added == {<<e, n, js, h>> : n \in names}
<1>1. /\ r.targets = Targeted(r.listeners) /\ r.keepers = Kept(r.targets, nodes)
      /\ r.native = Registered(r.keepers)
  BY DEF Consistent, Targeted, Kept, Registered
<1>2. /\ s \in Registries
      /\ s.listeners = r.listeners \cup added
      /\ s.targets = r.targets \cup {<<e, h, n>> : n \in names}
      /\ s.keepers = r.keepers \cup {<<h, e, t>> : t \in new}
      /\ s.native = r.native \cup {<<h, t>> : t \in {u \in new : ~hasRegister(r.keepers, h, u)}}
  <2> DEFINE T == r.targets \cup {<<e, h, n>> : n \in names}
             K == r.keepers \cup {<<h, e, t>> : t \in new}
             N == r.native \cup {<<h, t>> : t \in {u \in new : ~hasRegister(r.keepers, h, u)}}
             L == r.listeners \cup added
  <2>1. registerEvent(r, e, names, h) = [r EXCEPT !.targets = T, !.keepers = K, !.native = N]
    BY DEF registerEvent
  <2>2. registerEvent(r, e, names, h).listeners = r.listeners
    BY <2>1 DEF Registries
  <2>3. s = [[r EXCEPT !.targets = T, !.keepers = K, !.native = N] EXCEPT !.listeners = L]
    BY <2>1, <2>2 DEF addEventListener
  <2>4. new \subseteq Types
    BY DEF NodeEventsAssumption
  <2>5. L \in SUBSET Listeners /\ T \in SUBSET Targets
    <3>1. added \subseteq Listeners /\ {<<e, h, n>> : n \in names} \subseteq Targets
      BY DEF Listeners, Targets
    <3> QED BY <3>1 DEF Registries
  <2>6. K \in SUBSET Keepers
    <3>1. {<<h, e, t>> : t \in new} \subseteq Keepers
      BY <2>4 DEF Keepers
    <3> QED BY <3>1 DEF Registries
  <2>7. N \in SUBSET (Handles \X Types)
    <3>1. {<<h, t>> : t \in {u \in new : ~hasRegister(r.keepers, h, u)}} \subseteq Handles \X Types
      BY <2>4
    <3> QED BY <3>1 DEF Registries
  <2> HIDE DEF s, T, K, N, L
  <2>8. /\ s \in Registries
        /\ s.listeners = L /\ s.targets = T /\ s.keepers = K /\ s.native = N
    BY <2>3, <2>5, <2>6, <2>7 DEF Registries
  <2> QED BY <2>8, Zenon DEF L, T, K, N
<1>5. s.targets = Targeted(s.listeners)
  <2>1. s.targets \subseteq Targeted(s.listeners)
    <3>1. ASSUME NEW n \in names PROVE <<e, h, n>> \in Targeted(s.listeners)
      <4>1. <<e, n, js, h>> \in s.listeners
        BY <1>2
      <4> QED BY <4>1 DEF Targeted
    <3>2. Targeted(r.listeners) \subseteq Targeted(s.listeners)
      BY <1>2 DEF Targeted
    <3> QED BY <1>1, <1>2, <3>1, <3>2
  <2>2. ASSUME NEW l \in s.listeners PROVE <<l[1], l[4], l[2]>> \in s.targets
    <3>1. CASE l \in r.listeners
      BY <1>1, <1>2, <3>1 DEF Targeted
    <3>2. CASE l \in added
      BY <1>2, <3>2
    <3> QED BY <1>2, <3>1, <3>2
  <2> QED BY <2>1, <2>2 DEF Targeted
<1>6. s.keepers = Kept(s.targets, nodes)
  <2>1. ASSUME NEW k \in s.keepers PROVE k \in Kept(s.targets, nodes)
    <3>1. CASE k \in r.keepers
      BY <1>1, <1>2, <3>1 DEF Kept
    <3>2. CASE k \in {<<h, e, t>> : t \in new}
      <4>1. PICK n \in names : k = <<h, e, Type[n]>>
        BY <3>2
      <4>2. <<e, h, n>> \in s.targets
        BY <1>2
      <4> QED BY <4>1, <4>2 DEF Kept
    <3> QED BY <1>2, <3>1, <3>2
  <2>2. ASSUME NEW k \in Kept(s.targets, nodes) PROVE k \in s.keepers
    <3>1. PICK x \in s.targets : x[2] \in nodes /\ k = <<x[2], x[1], Type[x[3]]>>
      BY DEF Kept
    <3>2. CASE x \in r.targets
      BY <1>1, <1>2, <3>1, <3>2 DEF Kept
    <3>3. CASE x \in {<<e, h, n>> : n \in names}
      <4>1. PICK n \in names : x = <<e, h, n>>
        BY <3>3
      <4>2. k = <<h, e, Type[n]>>
        BY <3>1, <4>1
      <4>3. CASE Type[n] \in seen
        <5>1. PICK y \in r.targets : y[1] = e /\ y[2] = h /\ Type[y[3]] = Type[n]
          BY <4>3
        <5>2. <<y[2], y[1], Type[y[3]]>> \in r.keepers
          BY <1>1, <5>1 DEF Kept
        <5> QED BY <1>2, <4>2, <5>1, <5>2
      <4>4. CASE Type[n] \notin seen
        BY <1>2, <4>2, <4>4
      <4> QED BY <4>3, <4>4
    <3> QED BY <1>2, <3>1, <3>2, <3>3
  <2> QED BY <2>1, <2>2
<1>7. s.native = Registered(s.keepers)
  <2>1. ASSUME NEW x \in s.native PROVE x \in Registered(s.keepers)
    <3>1. CASE x \in r.native
      BY <1>1, <1>2, <3>1 DEF Registered
    <3>2. CASE x \in {<<h, t>> : t \in {u \in new : ~hasRegister(r.keepers, h, u)}}
      <4>1. PICK t \in new : x = <<h, t>>
        BY <3>2
      <4>2. <<h, e, t>> \in s.keepers
        BY <1>2
      <4> QED BY <4>1, <4>2 DEF Registered
    <3> QED BY <1>2, <3>1, <3>2
  <2>2. ASSUME NEW x \in Registered(s.keepers) PROVE x \in s.native
    <3>1. PICK k \in s.keepers : x = <<k[1], k[3]>>
      BY DEF Registered
    <3>2. CASE k \in r.keepers
      BY <1>1, <1>2, <3>1, <3>2 DEF Registered
    <3>3. CASE k \in {<<h, e, t>> : t \in new}
      <4>1. PICK t \in new : k = <<h, e, t>>
        BY <3>3
      <4>2. x = <<h, t>>
        BY <3>1, <4>1
      <4>3. CASE hasRegister(r.keepers, h, t)
        BY <1>1, <1>2, <4>2, <4>3 DEF hasRegister, Registered
      <4>4. CASE ~hasRegister(r.keepers, h, t)
        BY <1>2, <4>2, <4>4
      <4> QED BY <4>3, <4>4
    <3> QED BY <1>2, <3>1, <3>2, <3>3
  <2> QED BY <2>1, <2>2
<1>8. Consistent(s, nodes)
  BY <1>5, <1>6, <1>7 DEF Consistent, Targeted, Kept, Registered
<1> HIDE DEF s
<1>9. s \in Registries /\ Consistent(s, nodes) /\ s.listeners = r.listeners \cup added
  BY <1>2, <1>8
<1> QED BY <1>9 DEF s

(* unRegisterEvent gives up exactly the keepers that no target needs.      *)
LEMMA TargetsGivenUp ==
    ASSUME NodeEventsAssumption, NEW r \in Registries, NEW nodes \in SUBSET Handles,
           r.keepers = Kept(r.targets, nodes), r.native = Registered(r.keepers),
           NEW e \in Rows, NEW gone \in SUBSET (Handles \X Names)
    PROVE  LET s == unRegisterEvent(r, e, gone)
           IN  /\ s \in Registries
               /\ s.listeners = r.listeners
               /\ s.targets = r.targets \ {<<e, g[1], g[2]>> : g \in gone}
               /\ s.keepers = Kept(s.targets, nodes)
               /\ s.native = Registered(s.keepers)
<1> DEFINE left == r.targets \ {<<e, g[1], g[2]>> : g \in gone}
           q == [r EXCEPT !.targets = left]
           Idle(k) == /\ k[2] = e
                      /\ \E g \in gone : g[1] = k[1] /\ Type[g[2]] = k[3]
                      /\ ~\E x \in left : x[1] = e /\ x[2] = k[1] /\ Type[x[3]] = k[3]
           given == {k \in r.keepers : Idle(k)}
           s == unRegisterNodeEvent(q, given)
<1>1. unRegisterEvent(r, e, gone) = s
  BY DEF unRegisterEvent
<1>2. /\ q \in Registries /\ q.listeners = r.listeners /\ q.targets = left
      /\ q.keepers = r.keepers /\ q.native = r.native
  BY DEF Registries
<1> HIDE DEF q
<1>3. q.native = Registered(q.keepers)
  BY <1>2
<1>4. /\ s \in Registries
      /\ s.listeners = q.listeners /\ s.targets = q.targets
      /\ s.keepers = q.keepers \ given
      /\ s.native = Registered(s.keepers)
  BY <1>2, <1>3, AdapterForgets
<1> HIDE DEF s
<1>5. ASSUME NEW k \in r.keepers \ given PROVE k \in Kept(left, nodes)
  <2>1. PICK x \in r.targets : x[2] \in nodes /\ k = <<x[2], x[1], Type[x[3]]>>
    BY DEF Kept
  <2>2. CASE x \in left
    BY <2>1, <2>2 DEF Kept
  <2>3. CASE x \notin left
    <3>1. PICK g \in gone : x = <<e, g[1], g[2]>>
      BY <2>1, <2>3
    <3>2. k[2] = e /\ g[1] = k[1] /\ Type[g[2]] = k[3]
      BY <2>1, <3>1
    <3>3. PICK y \in left : y[1] = e /\ y[2] = k[1] /\ Type[y[3]] = k[3]
      BY <3>2
    <3>4. k = <<y[2], y[1], Type[y[3]]>> /\ y[2] \in nodes
      BY <2>1, <3>2, <3>3
    <3> QED BY <3>4 DEF Kept
  <2> QED BY <2>2, <2>3
<1>6. ASSUME NEW k \in Kept(left, nodes) PROVE k \in r.keepers \ given
  <2>1. PICK x \in left : x[2] \in nodes /\ k = <<x[2], x[1], Type[x[3]]>>
    BY DEF Kept
  <2>2. k \in r.keepers
    BY <2>1 DEF Kept
  <2>3. k \notin given
    BY <2>1
  <2> QED BY <2>2, <2>3
<1>7. s.keepers = Kept(s.targets, nodes)
  BY <1>2, <1>4, <1>5, <1>6
<1> QED BY <1>1, <1>2, <1>4, <1>7

(* Drop: the names that lose their last listener on a node lose their      *)
(* target, and nothing else does.                                          *)
LEMMA DropAgrees ==
    ASSUME NodeEventsAssumption, NEW r \in Registries, NEW nodes \in SUBSET Handles,
           Consistent(r, nodes), NEW e \in Rows,
           NEW removed \in SUBSET r.listeners, \A l \in removed : l[1] = e
    PROVE  LET s == Drop(r, e, removed)
           IN  /\ s \in Registries /\ Consistent(s, nodes)
               /\ s.listeners = r.listeners \ removed
<1> DEFINE left == r.listeners \ removed
           q == [r EXCEPT !.listeners = left]
           Wanted(l) == \E m \in left : m[1] = l[1] /\ m[2] = l[2] /\ m[4] = l[4]
           gone == {<<l[4], l[2]>> : l \in {m \in removed : ~Wanted(m)}}
           s == unRegisterEvent(q, e, gone)
<1>1. Drop(r, e, removed) = s
  BY DEF Drop
<1>2. /\ r.targets = Targeted(r.listeners) /\ r.keepers = Kept(r.targets, nodes)
      /\ r.native = Registered(r.keepers)
  BY DEF Consistent, Targeted, Kept, Registered
<1>3. /\ q \in Registries /\ q.listeners = left /\ q.targets = r.targets
      /\ q.keepers = r.keepers /\ q.native = r.native
  BY DEF Registries
<1>4. gone \in SUBSET (Handles \X Names)
  <2>1. r.listeners \subseteq Listeners
    BY DEF Registries
  <2>2. \A l \in removed : <<l[4], l[2]>> \in Handles \X Names
    BY <2>1 DEF Listeners
  <2> QED BY <2>2
<1> HIDE DEF q, gone
<1>5. /\ s \in Registries
      /\ s.listeners = q.listeners
      /\ s.targets = q.targets \ {<<e, g[1], g[2]>> : g \in gone}
      /\ s.keepers = Kept(s.targets, nodes)
      /\ s.native = Registered(s.keepers)
  <2>1. q.keepers = Kept(q.targets, nodes) /\ q.native = Registered(q.keepers)
    BY <1>2, <1>3
  <2> QED BY <1>3, <1>4, <2>1, TargetsGivenUp
<1> HIDE DEF s
<1>6. ASSUME NEW x \in s.targets PROVE x \in Targeted(left)
  <2>1. PICK l \in r.listeners : x = <<l[1], l[4], l[2]>>
    BY <1>2, <1>3, <1>5 DEF Targeted
  <2>2. CASE l \in left
    BY <2>1, <2>2 DEF Targeted
  <2>3. CASE l \in removed
    <3>1. ASSUME ~Wanted(l) PROVE FALSE
      <4>1. <<l[4], l[2]>> \in gone
        BY <2>3, <3>1 DEF gone
      <4>2. x = <<e, <<l[4], l[2]>>[1], <<l[4], l[2]>>[2]>>
        BY <2>1, <2>3
      <4> QED BY <1>5, <4>1, <4>2
    <3>2. PICK m \in left : m[1] = l[1] /\ m[2] = l[2] /\ m[4] = l[4]
      BY <3>1
    <3> QED BY <2>1, <3>2 DEF Targeted
  <2> QED BY <2>2, <2>3
<1>7. ASSUME NEW l \in left PROVE <<l[1], l[4], l[2]>> \in s.targets
  <2>1. <<l[1], l[4], l[2]>> \in q.targets
    BY <1>2, <1>3 DEF Targeted
  <2>2. ASSUME NEW g \in gone, <<l[1], l[4], l[2]>> = <<e, g[1], g[2]>> PROVE FALSE
    <3>1. PICK m \in removed : ~Wanted(m) /\ g = <<m[4], m[2]>>
      BY DEF gone
    <3>2. l[1] = m[1] /\ l[2] = m[2] /\ l[4] = m[4]
      BY <2>2, <3>1
    <3> QED BY <3>1, <3>2
  <2> QED BY <1>5, <2>1, <2>2
<1>8. s.targets = Targeted(s.listeners)
  <2>1. Targeted(left) \subseteq s.targets
    BY <1>7 DEF Targeted
  <2> QED BY <1>3, <1>5, <1>6, <2>1
<1>9. Consistent(s, nodes)
  BY <1>5, <1>8 DEF Consistent, Targeted, Kept, Registered
<1> QED BY <1>1, <1>3, <1>5, <1>9

(* The native nodes in D go: their keepers with them, and no other.        *)
LEMMA DisposeAgrees ==
    ASSUME NodeEventsAssumption, NEW r \in Registries, NEW nodes \in SUBSET Handles,
           Consistent(r, nodes), NEW D
    PROVE  LET s == unRegisterNodeEvent(r, {k \in r.keepers : k[1] \in D})
           IN  /\ s \in Registries /\ Consistent(s, nodes \ D)
               /\ s.listeners = r.listeners
<1> DEFINE gone == {k \in r.keepers : k[1] \in D}
           s == unRegisterNodeEvent(r, gone)
<1>1. /\ r.targets = Targeted(r.listeners) /\ r.keepers = Kept(r.targets, nodes)
      /\ r.native = Registered(r.keepers)
  BY DEF Consistent, Targeted, Kept, Registered
<1>2. /\ s \in Registries
      /\ s.listeners = r.listeners /\ s.targets = r.targets
      /\ s.keepers = r.keepers \ gone
      /\ s.native = Registered(s.keepers)
  BY <1>1, AdapterForgets
<1> HIDE DEF s
<1>3. ASSUME NEW k \in s.keepers PROVE k \in Kept(s.targets, nodes \ D)
  <2>1. PICK x \in r.targets : x[2] \in nodes /\ k = <<x[2], x[1], Type[x[3]]>>
    BY <1>1, <1>2 DEF Kept
  <2>2. x[2] \notin D
    BY <1>2, <2>1
  <2> QED BY <1>2, <2>1, <2>2 DEF Kept
<1>4. ASSUME NEW k \in Kept(s.targets, nodes \ D) PROVE k \in s.keepers
  <2>1. PICK x \in r.targets : x[2] \in nodes \ D /\ k = <<x[2], x[1], Type[x[3]]>>
    BY <1>2 DEF Kept
  <2>2. k \in r.keepers
    BY <1>1, <2>1 DEF Kept
  <2> QED BY <1>2, <2>1, <2>2
<1>5. s.keepers = Kept(s.targets, nodes \ D)
  BY <1>3, <1>4
<1>6. Consistent(s, nodes \ D)
  BY <1>1, <1>2, <1>5 DEF Consistent, Targeted, Kept, Registered
<1> QED BY <1>2, <1>6 DEF s

(* ~EventGenerator_HM: nothing of the element is left in any layer.        *)
LEMMA DestroyAgrees ==
    ASSUME NodeEventsAssumption, NEW r \in Registries, NEW nodes \in SUBSET Handles,
           Consistent(r, nodes), NEW e \in Rows
    PROVE  LET s == destroyEmitter(r, e)
           IN  /\ s \in Registries /\ Consistent(s, nodes)
               /\ s.listeners = {l \in r.listeners : l[1] # e}
<1> DEFINE L == {l \in r.listeners : l[1] # e}
           T == {x \in r.targets : x[1] # e}
           q == [r EXCEPT !.listeners = L, !.targets = T]
           gone == {k \in r.keepers : k[2] = e}
           s == unRegisterNodeEvent(q, gone)
<1>1. /\ r.targets = Targeted(r.listeners) /\ r.keepers = Kept(r.targets, nodes)
      /\ r.native = Registered(r.keepers)
  BY DEF Consistent, Targeted, Kept, Registered
<1>2. destroyEmitter(r, e) = s
  BY DEF destroyEmitter, Registries
<1>3. /\ q \in Registries /\ q.listeners = L /\ q.targets = T
      /\ q.keepers = r.keepers /\ q.native = r.native
  BY DEF Registries
<1> HIDE DEF q
<1>4. /\ s \in Registries
      /\ s.listeners = L /\ s.targets = T
      /\ s.keepers = r.keepers \ gone
      /\ s.native = Registered(s.keepers)
  <2>1. q.native = Registered(q.keepers)
    BY <1>1, <1>3
  <2> QED BY <1>3, <2>1, AdapterForgets
<1> HIDE DEF s
<1>5. s.targets = Targeted(s.listeners)
  BY <1>1, <1>4 DEF Targeted
<1>6. ASSUME NEW k \in s.keepers PROVE k \in Kept(s.targets, nodes)
  <2>1. PICK x \in r.targets : x[2] \in nodes /\ k = <<x[2], x[1], Type[x[3]]>>
    BY <1>1, <1>4 DEF Kept
  <2>2. x[1] # e
    BY <1>4, <2>1
  <2> QED BY <1>4, <2>1, <2>2 DEF Kept
<1>7. ASSUME NEW k \in Kept(s.targets, nodes) PROVE k \in s.keepers
  <2>1. PICK x \in T : x[2] \in nodes /\ k = <<x[2], x[1], Type[x[3]]>>
    BY <1>4 DEF Kept
  <2>2. k \in r.keepers
    BY <1>1, <2>1 DEF Kept
  <2> QED BY <1>4, <2>1, <2>2
<1>8. s.keepers = Kept(s.targets, nodes)
  BY <1>6, <1>7
<1>9. Consistent(s, nodes)
  BY <1>4, <1>5, <1>8 DEF Consistent, Targeted, Kept, Registered
<1> QED BY <1>2, <1>4, <1>9

-----------------------------------------------------------------------------
(* The layers agree.  Native nodes are told apart by the rows that hold    *)
(* them, and no listener is for a node that is still to be made.           *)
Ind ==
    /\ TypeOK
    /\ named \in [Rows -> SUBSET Names]
    /\ \A d \in cached : handle[d] \in live
    /\ \A c, d \in Rows : handle[c] = handle[d] /\ c # d => handle[c] = None
    /\ \A l \in reg.listeners : l[4] \in made
    /\ LayersAgree

LEMMA InitInd == ASSUME NodeEventsAssumption, Init PROVE Ind
<1>1. TypeOK
  BY DEF Init, TypeOK
<1>2. LayersAgree
  BY DEF Init, LayersAgree, Consistent
<1> QED BY <1>1, <1>2 DEF Init, Ind

(* Adding and removing listeners: the registry, and nothing else, changes. *)
LEMMA RegistryOnly ==
    ASSUME Ind, reg' \in Registries, Consistent(reg', live),
           \A l \in reg'.listeners : l[4] \in made,
           UNCHANGED <<live, made, alive, handle, cached>>,
           named' \in [Rows -> SUBSET Names]
    PROVE  Ind'
<1>1. TypeOK'
  BY DEF Ind, TypeOK, Registries
<1>2. LayersAgree'
  BY DEF LayersAgree, Consistent
<1> QED BY <1>1, <1>2 DEF Ind

(* What a row that takes over a native node leaves in the registry.        *)
LEMMA ReusedRegistry ==
    ASSUME NodeEventsAssumption, Ind, NEW e \in Rows, NEW prior \in Rows,
           NEW dropped \in SUBSET Rows, attachReused(e, prior, dropped)
    PROVE  /\ reg' \in Registries /\ Consistent(reg', live')
           /\ handle[prior] \in live'
           /\ reg'.listeners = {l \in reg.listeners : ~(l[1] = prior /\ l[4] = handle[prior])}
                                \cup {<<e, n, TRUE, handle[prior]>> : n \in named[e]}
           /\ twice' = twice \cup ({<<e, n, TRUE, handle[prior]>> : n \in named[e]} \cap
                                     {l \in reg.listeners : ~(l[1] = prior /\ l[4] = handle[prior])})
<1> DEFINE h == handle[prior]
           disposed == {handle[d] : d \in dropped}
           nodes == live \ disposed
           free == unRegisterNodeEvent(reg, {k \in reg.keepers : k[1] \in disposed})
           mine == {l \in free.listeners : l[1] = prior /\ l[4] = h}
           cleared == clearNodeEvent(free, prior, h)
<1>1. /\ reg' = updateListenEvent(cleared, e, h) /\ live' = nodes
      /\ twice' = TwiceAfter(cleared, e, h)
      /\ prior \in cached \cap alive /\ dropped \subseteq cached \ alive
  BY DEF attachReused
<1>2. reg \in Registries /\ Consistent(reg, live) /\ live \in SUBSET Handles
  BY DEF Ind, TypeOK, LayersAgree, Registries
<1>3. free \in Registries /\ Consistent(free, nodes) /\ free.listeners = reg.listeners
  BY <1>2, DisposeAgrees
<1>4. h \in nodes
  <2>1. h \in live
    BY <1>1 DEF Ind
  <2>2. ASSUME NEW d \in dropped, h = handle[d] PROVE FALSE
    <3>1. d # prior
      BY <1>1
    <3>2. h # None
      BY <1>2, <2>1 DEF NodeEventsAssumption
    <3> QED BY <2>2, <3>1, <3>2 DEF Ind
  <2> QED BY <2>1, <2>2
<1> HIDE DEF free
<1>5. /\ cleared \in Registries /\ Consistent(cleared, nodes)
      /\ cleared.listeners = free.listeners \ mine
  <2>1. cleared = Drop(free, prior, mine)
    BY DEF clearNodeEvent
  <2>2. mine \in SUBSET free.listeners /\ \A l \in mine : l[1] = prior
    OBVIOUS
  <2>3. nodes \in SUBSET Handles
    BY <1>2
  <2> HIDE DEF mine, cleared, nodes, h
  <2> QED BY <1>3, <2>1, <2>2, <2>3, DropAgrees
<1>6. cleared.listeners = {l \in reg.listeners : ~(l[1] = prior /\ l[4] = h)}
  BY <1>3, <1>5
<1> HIDE DEF cleared
<1>7. /\ reg' \in Registries /\ Consistent(reg', nodes)
      /\ reg'.listeners = cleared.listeners \cup {<<e, n, TRUE, h>> : n \in named[e]}
  <2>1. named[e] \in SUBSET Names
    BY DEF Ind
  <2>2. nodes \in SUBSET Handles
    BY <1>2
  <2> DEFINE js == TRUE
  <2>3. reg' = addEventListener(cleared, e, named[e], js, h) /\ js \in BOOLEAN
    BY <1>1 DEF updateListenEvent
  <2> HIDE DEF mine, disposed, nodes, h, js
  <2>5. /\ reg' \in Registries /\ Consistent(reg', nodes)
        /\ reg'.listeners = cleared.listeners \cup {<<e, n, js, h>> : n \in named[e]}
    BY <1>4, <1>5, <2>1, <2>2, <2>3, AddAgrees
  <2> QED BY <2>5 DEF js
<1>8. twice' = twice \cup ({<<e, n, TRUE, h>> : n \in named[e]} \cap cleared.listeners)
  BY <1>1 DEF TwiceAfter
<1> QED BY <1>1, <1>4, <1>6, <1>7, <1>8

(* The same for a row that is built with a native node of its own.         *)
LEMMA BuiltRegistry ==
    ASSUME NodeEventsAssumption, Ind, NEW e \in Rows, NEW h \in Handles, attachBuilt(e, h)
    PROVE  /\ reg' \in Registries /\ Consistent(reg', live')
           /\ reg'.listeners = reg.listeners \cup {<<e, n, TRUE, h>> : n \in named[e]}
           /\ twice' = twice
<1> DEFINE disposed == {handle[d] : d \in cached}
           nodes == live \ disposed
           free == unRegisterNodeEvent(reg, {k \in reg.keepers : k[1] \in disposed})
<1>1. /\ reg' = updateListenEvent(free, e, h) /\ live' = nodes \cup {h}
      /\ twice' = TwiceAfter(free, e, h) /\ h \notin made
  BY DEF attachBuilt
<1>2. reg \in Registries /\ Consistent(reg, live) /\ live \in SUBSET Handles
  BY DEF Ind, TypeOK, LayersAgree, Registries
<1>3. free \in Registries /\ Consistent(free, nodes) /\ free.listeners = reg.listeners
  BY <1>2, DisposeAgrees
<1> HIDE DEF free
<1>4. \A l \in free.listeners : l[4] # h
  BY <1>1, <1>3 DEF Ind
<1>5. Consistent(free, nodes \cup {h})
  <2>1. \A x \in free.targets : x[2] # h
    BY <1>3, <1>4 DEF Consistent
  <2>2. {y \in free.targets : y[2] \in nodes \cup {h}} = {y \in free.targets : y[2] \in nodes}
    BY <2>1
  <2> QED BY <1>3, <2>2 DEF Consistent
<1>6. /\ reg' \in Registries /\ Consistent(reg', nodes \cup {h})
      /\ reg'.listeners = free.listeners \cup {<<e, n, TRUE, h>> : n \in named[e]}
  <2>1. named[e] \in SUBSET Names
    BY DEF Ind
  <2>2. nodes \cup {h} \in SUBSET Handles
    BY <1>2
  <2> DEFINE js == TRUE
  <2>3. reg' = addEventListener(free, e, named[e], js, h) /\ js \in BOOLEAN
    BY <1>1 DEF updateListenEvent
  <2> HIDE DEF nodes, js
  <2>4. h \in nodes \cup {h}
    OBVIOUS
  <2>5. /\ reg' \in Registries /\ Consistent(reg', nodes \cup {h})
        /\ reg'.listeners = free.listeners \cup {<<e, n, js, h>> : n \in named[e]}
    BY <1>3, <1>5, <2>1, <2>2, <2>3, <2>4, AddAgrees
  <2> QED BY <2>5 DEF js
<1>7. twice' = twice
  <2>1. \A n \in named[e] : <<e, n, TRUE, h>>[4] = h
    OBVIOUS
  <2>2. {<<e, n, TRUE, h>> : n \in named[e]} \cap free.listeners = {}
    BY <1>4, <2>1, Zenon
  <2> QED BY <1>1, <2>2, Zenon DEF TwiceAfter
<1> QED BY <1>1, <1>3, <1>6, <1>7

(* The same for a row that JS destroys.                                    *)
LEMMA DestroyedRegistry ==
    ASSUME NodeEventsAssumption, Ind, NEW e \in Rows, destroy(e)
    PROVE  /\ reg' \in Registries /\ Consistent(reg', live')
           /\ reg'.listeners = {l \in reg.listeners : l[1] # e}
<1> DEFINE q == destroyEmitter(reg, e)
<1>1. reg \in Registries /\ Consistent(reg, live) /\ live \in SUBSET Handles
  BY DEF Ind, TypeOK, LayersAgree, Registries
<1>2. /\ q \in Registries /\ Consistent(q, live)
      /\ q.listeners = {l \in reg.listeners : l[1] # e}
  BY <1>1, DestroyAgrees
<1> HIDE DEF q
<1>3. CASE reg' = q /\ live' = live
  BY <1>2, <1>3
<1>4. CASE reg' = disposeArkNode(q, handle[e]) /\ live' = live \ {handle[e]}
  <2> DEFINE D == {handle[e]}
  <2>1. reg' = unRegisterNodeEvent(q, {k \in q.keepers : k[1] \in D})
    <3>1. {k \in q.keepers : k[1] = handle[e]} = {k \in q.keepers : k[1] \in D}
      OBVIOUS
    <3> QED BY <1>4, <3>1 DEF disposeArkNode
  <2>2. live' = live \ D
    BY <1>4
  <2> HIDE DEF D
  <2>3. reg' \in Registries /\ Consistent(reg', live \ D) /\ reg'.listeners = q.listeners
    BY <1>1, <1>2, <2>1, DisposeAgrees
  <2> QED BY <1>2, <2>2, <2>3
<1> QED BY <1>3, <1>4 DEF destroy, q

LEMMA StepInd == ASSUME NodeEventsAssumption, Ind, [Next]_vars PROVE Ind'
<1>1. /\ reg \in Registries /\ Consistent(reg, live) /\ live \in SUBSET Handles
      /\ made \subseteq Handles /\ live \subseteq made
      /\ alive \subseteq Rows /\ cached \subseteq Rows
      /\ handle \in [Rows -> live \cup {None}] /\ None \notin live
  BY DEF Ind, TypeOK, LayersAgree, Registries, NodeEventsAssumption
<1>2. ASSUME NEW e \in Rows, NEW n \in Names, addNodeEventListener(e, n) PROVE Ind'
  <2>1. named' \in [Rows -> SUBSET Names]
    BY <1>2 DEF addNodeEventListener, Ind
  <2>2. CASE reg' = reg
    BY <1>1, <1>2, <2>1, <2>2, RegistryOnly DEF addNodeEventListener, Ind
  <2>3. CASE handle[e] # None /\ reg' = addEventListener(reg, e, {n}, TRUE, handle[e])
    <3> DEFINE js == TRUE
           ns == {n}
    <3>1. /\ reg' = addEventListener(reg, e, ns, js, handle[e]) /\ js \in BOOLEAN
          /\ handle[e] \in live /\ ns \in SUBSET Names
      BY <1>1, <2>3
    <3> HIDE DEF js, ns
    <3>2. /\ reg' \in Registries /\ Consistent(reg', live)
          /\ reg'.listeners = reg.listeners \cup {<<e, m, js, handle[e]>> : m \in ns}
      BY <1>1, <3>1, AddAgrees
    <3>3. \A l \in reg'.listeners : l[4] \in made
      BY <1>1, <3>1, <3>2 DEF Ind
    <3> QED BY <1>2, <2>1, <3>2, <3>3, RegistryOnly DEF addNodeEventListener
  <2> QED BY <1>2, <2>2, <2>3 DEF addNodeEventListener
<1>3. ASSUME NEW e \in Rows, NEW n \in Names, NEW js \in BOOLEAN,
             reg' = removeEventListener(reg, e, n, js),
             UNCHANGED <<live, made, alive, handle, cached>>,
             named' \in [Rows -> SUBSET Names]
      PROVE  Ind'
  <2> DEFINE gone == {l \in reg.listeners : l[1] = e /\ l[2] = n /\ l[3] = js}
  <2>1. reg' = Drop(reg, e, gone) /\ gone \in SUBSET reg.listeners
    BY <1>3 DEF removeEventListener
  <2>2. \A l \in gone : l[1] = e
    OBVIOUS
  <2> HIDE DEF gone
  <2>3. /\ reg' \in Registries /\ Consistent(reg', live)
        /\ reg'.listeners = reg.listeners \ gone
    BY <1>1, <2>1, <2>2, DropAgrees
  <2>4. \A l \in reg'.listeners : l[4] \in made
    BY <2>3 DEF Ind
  <2> QED BY <1>3, <2>3, <2>4, RegistryOnly
<1>4. ASSUME NEW e \in Rows, NEW n \in Names, removeNodeEventListener(e, n) PROVE Ind'
  <2>1. named' \in [Rows -> SUBSET Names]
    BY <1>4 DEF removeNodeEventListener, Ind
  <2> QED BY <1>3, <1>4, <2>1 DEF removeNodeEventListener
<1>5. ASSUME NEW e \in Rows, NEW n \in Names, unRegisterEventByName_NoCallBack(e, n) PROVE Ind'
  <2>1. named' \in [Rows -> SUBSET Names]
    BY <1>5 DEF unRegisterEventByName_NoCallBack, Ind
  <2> QED BY <1>3, <1>5, <2>1 DEF unRegisterEventByName_NoCallBack
<1>6. ASSUME NEW e \in Rows, NEW n \in Names, NEW h \in Handles,
             registerEvent_NoCallBack(e, n, h)
      PROVE  Ind'
  <2> DEFINE js == FALSE
             ns == {n}
  <2>1. /\ reg' = addEventListener(reg, e, ns, js, h) /\ js \in BOOLEAN
        /\ h \in live /\ ns \in SUBSET Names
    BY <1>6 DEF registerEvent_NoCallBack
  <2> HIDE DEF js, ns
  <2>2. /\ reg' \in Registries /\ Consistent(reg', live)
        /\ reg'.listeners = reg.listeners \cup {<<e, m, js, h>> : m \in ns}
    BY <1>1, <2>1, AddAgrees
  <2>3. \A l \in reg'.listeners : l[4] \in made
    BY <1>1, <2>1, <2>2 DEF Ind
  <2>4. named' \in [Rows -> SUBSET Names]
    BY <1>6 DEF registerEvent_NoCallBack, Ind
  <2> QED BY <1>6, <2>2, <2>3, <2>4, RegistryOnly DEF registerEvent_NoCallBack
<1>7. ASSUME NEW e \in Rows, attachInitialized(e) PROVE Ind'
  <2>1. TypeOK' /\ LayersAgree'
    BY <1>7 DEF attachInitialized, Ind, TypeOK, LayersAgree, Consistent
  <2> QED BY <1>7, <2>1 DEF attachInitialized, Ind
<1>8. ASSUME NEW e \in Rows, onItemRecycled(e) PROVE Ind'
  <2>1. TypeOK' /\ LayersAgree'
    BY <1>8 DEF onItemRecycled, Ind, TypeOK, LayersAgree, Consistent
  <2>2. handle[e] \in live
    BY <1>1, <1>8 DEF onItemRecycled
  <2> QED BY <1>8, <2>1, <2>2 DEF onItemRecycled, Ind
<1>9. ASSUME NEW e \in Rows, NEW prior \in Rows, NEW dropped \in SUBSET Rows,
             attachReused(e, prior, dropped)
      PROVE  Ind'
  <2> DEFINE h == handle[prior]
             disposed == {handle[d] : d \in dropped}
             fresh == {<<e, n, TRUE, h>> : n \in named[e]}
  <2>1. /\ reg' \in Registries /\ Consistent(reg', live') /\ h \in live'
        /\ reg'.listeners = {l \in reg.listeners : ~(l[1] = prior /\ l[4] = h)} \cup fresh
    BY <1>9, ReusedRegistry
  <2>2. /\ live' = live \ disposed /\ made' = made /\ alive' = alive /\ named' = named
        /\ e \in alive /\ handle[e] = None /\ prior \in cached \cap alive
        /\ dropped \subseteq cached \ alive /\ cached' = cached \ (dropped \cup {prior})
        /\ handle' = [d \in Rows |-> IF d = e THEN h
                                    ELSE IF d \in dropped \cup {prior} THEN None
                                    ELSE handle[d]]
    BY <1>9 DEF attachReused
  <2>3. \A d \in Rows \ (dropped \cup {prior}) : handle[d] # None => handle[d] \in live'
    BY <1>1, <2>2 DEF Ind
  <2>4. handle' \in [Rows -> live' \cup {None}]
    BY <2>1, <2>2, <2>3
  <2>5. TypeOK'
    BY <1>1, <2>1, <2>2, <2>4 DEF TypeOK, Registries
  <2>6. \A d \in cached' : handle'[d] \in live'
    BY <1>1, <2>2, <2>3 DEF Ind
  <2>7. \A c, d \in Rows : handle'[c] = handle'[d] /\ c # d => handle'[c] = None
    BY <1>1, <2>2 DEF Ind
  <2>8. \A l \in reg'.listeners : l[4] \in made'
    <3>1. \A n \in named[e] : <<e, n, TRUE, h>>[4] \in made
      BY <1>1, <2>1, <2>2
    <3>2. \A l \in fresh : l[4] \in made
      BY <3>1, Zenon
    <3> HIDE DEF fresh
    <3> QED BY <2>1, <2>2, <3>2 DEF Ind
  <2>9. LayersAgree'
    BY <2>1 DEF LayersAgree, Consistent
  <2> QED BY <2>2, <2>5, <2>6, <2>7, <2>8, <2>9 DEF Ind
<1>10. ASSUME NEW e \in Rows, NEW h \in Handles, attachBuilt(e, h) PROVE Ind'
  <2> DEFINE disposed == {handle[d] : d \in cached}
             fresh == {<<e, n, TRUE, h>> : n \in named[e]}
  <2>1. /\ reg' \in Registries /\ Consistent(reg', live')
        /\ reg'.listeners = reg.listeners \cup fresh
    BY <1>10, BuiltRegistry
  <2>2. /\ live' = (live \ disposed) \cup {h} /\ made' = made \cup {h} /\ h \notin made
        /\ alive' = alive /\ named' = named /\ cached' = {}
        /\ handle' = [d \in Rows |-> IF d = e THEN h ELSE IF d \in cached THEN None ELSE handle[d]]
    BY <1>10 DEF attachBuilt
  <2>3. \A d \in Rows \ cached : handle[d] # None => handle[d] \in live'
    BY <1>1, <2>2 DEF Ind
  <2>4. handle' \in [Rows -> live' \cup {None}]
    BY <2>2, <2>3
  <2>5. TypeOK'
    BY <1>1, <2>1, <2>2, <2>4 DEF TypeOK, Registries
  <2>6. \A c, d \in Rows : handle'[c] = handle'[d] /\ c # d => handle'[c] = None
    <3>1. \A d \in Rows : handle[d] # h \/ handle[d] = None
      BY <1>1, <2>2
    <3> QED BY <1>1, <2>2, <3>1 DEF Ind, NodeEventsAssumption
  <2>7. \A l \in reg'.listeners : l[4] \in made'
    <3>1. \A n \in named[e] : <<e, n, TRUE, h>>[4] \in made'
      BY <2>2
    <3>2. \A l \in fresh : l[4] \in made'
      BY <3>1, Zenon
    <3> HIDE DEF fresh
    <3> QED BY <2>1, <2>2, <3>2 DEF Ind
  <2>8. LayersAgree'
    BY <2>1 DEF LayersAgree, Consistent
  <2> QED BY <2>2, <2>5, <2>6, <2>7, <2>8 DEF Ind
<1>11. ASSUME NEW e \in Rows, destroy(e) PROVE Ind'
  <2>1. /\ reg' \in Registries /\ Consistent(reg', live')
        /\ reg'.listeners = {l \in reg.listeners : l[1] # e}
    BY <1>11, DestroyedRegistry
  <2>2. /\ alive' = alive \ {e} /\ made' = made /\ cached' = cached
        /\ named' = [named EXCEPT ![e] = {}]
        /\ \/ live' = live /\ handle' = handle
           \/ /\ e \notin cached /\ handle[e] # None
              /\ live' = live \ {handle[e]} /\ handle' = [handle EXCEPT ![e] = None]
    BY <1>11 DEF destroy
  <2>3. handle' \in [Rows -> live' \cup {None}]
    BY <1>1, <2>2 DEF Ind
  <2>4. TypeOK'
    BY <1>1, <2>1, <2>2, <2>3 DEF TypeOK, Registries
  <2>5. \A d \in cached' : handle'[d] \in live'
    BY <1>1, <2>2 DEF Ind
  <2>6. \A c, d \in Rows : handle'[c] = handle'[d] /\ c # d => handle'[c] = None
    BY <1>1, <2>2 DEF Ind
  <2>7. LayersAgree'
    BY <2>1 DEF LayersAgree, Consistent
  <2> QED BY <2>1, <2>2, <2>4, <2>5, <2>6, <2>7 DEF Ind
<1>12. CASE UNCHANGED vars
  BY <1>12 DEF vars, Ind, TypeOK, LayersAgree, Consistent
<1> QED
  BY <1>2, <1>4, <1>5, <1>6, <1>7, <1>8, <1>9, <1>10, <1>11, <1>12 DEF Next

(* The listeners, the targets, the keepers and ArkUI's registrations agree *)
(* in every state, for any rows, native nodes, names and types of events   *)
(* (event_emitter, event_generator_hm, event_adapter).                     *)
THEOREM LayersAlwaysAgree == Spec => []LayersAgree
<1>1. Init => Ind
  BY NodeEventsAssumption, InitInd
<1>2. Ind /\ [Next]_vars => Ind'
  BY NodeEventsAssumption, StepInd
<1>3. Ind => LayersAgree
  BY DEF Ind
<1> QED BY <1>1, <1>2, <1>3, PTL DEF Spec

-----------------------------------------------------------------------------
(* What JS listens for reaches it.  The two values of call_js_, by name.   *)
ForJs == TRUE
ForWidget == FALSE

LEMMA TwoKinds == ForJs \in BOOLEAN /\ ForWidget \in BOOLEAN /\ ForJs # ForWidget
BY DEF ForJs, ForWidget

(* A listener of JS is on the row's node, and every name that has          *)
(* callbacks has one.                                                      *)
OnOwnNode ==
    \A e \in Rows, n \in Names, h \in Handles :
        <<e, n, ForJs, h>> \in reg.listeners => e \in alive /\ h = handle[e]
Bound ==
    \A e \in alive, n \in Names :
        n \in called[e] /\ handle[e] # None => <<e, n, ForJs, handle[e]>> \in reg.listeners
HInd ==
    /\ Ind
    /\ called \in [Rows -> SUBSET Names]
    /\ \A e \in Rows : called[e] \subseteq named[e]
    /\ twice = {}
    /\ OnOwnNode /\ Bound

(* One listener added, or those of a name and kind removed.                *)
LEMMA AddedListener ==
    ASSUME NodeEventsAssumption, Ind, NEW e \in Rows, NEW n \in Names, NEW js \in BOOLEAN,
           NEW h \in live, reg' = addEventListener(reg, e, {n}, js, h)
    PROVE  reg'.listeners = reg.listeners \cup {<<e, n, js, h>>}
<1> DEFINE ns == {n}
<1>1. reg \in Registries /\ Consistent(reg, live) /\ live \in SUBSET Handles
  BY DEF Ind, TypeOK, LayersAgree, Registries
<1>2. reg' = addEventListener(reg, e, ns, js, h) /\ ns \in SUBSET Names
  OBVIOUS
<1> HIDE DEF ns
<1>3. reg'.listeners = reg.listeners \cup {<<e, m, js, h>> : m \in ns}
  BY <1>1, <1>2, AddAgrees
<1> QED BY <1>3 DEF ns

LEMMA RemovedListeners ==
    ASSUME NodeEventsAssumption, Ind, NEW e \in Rows, NEW n \in Names, NEW js \in BOOLEAN,
           reg' = removeEventListener(reg, e, n, js)
    PROVE  reg'.listeners = reg.listeners \ {l \in reg.listeners : l[1] = e /\ l[2] = n /\ l[3] = js}
<1> DEFINE gone == {l \in reg.listeners : l[1] = e /\ l[2] = n /\ l[3] = js}
<1>1. reg \in Registries /\ Consistent(reg, live) /\ live \in SUBSET Handles
  BY DEF Ind, TypeOK, LayersAgree, Registries
<1>2. reg' = Drop(reg, e, gone) /\ gone \in SUBSET reg.listeners
  BY DEF removeEventListener
<1>3. \A l \in gone : l[1] = e
  OBVIOUS
<1> HIDE DEF gone
<1>4. reg'.listeners = reg.listeners \ gone
  BY <1>1, <1>2, <1>3, DropAgrees
<1> QED BY <1>4 DEF gone

LEMMA HIndImpliesHeard == ASSUME NodeEventsAssumption, HInd PROVE Heard
<1>1. /\ reg \in Registries /\ Consistent(reg, live) /\ live \in SUBSET Handles
      /\ alive \subseteq Rows /\ handle \in [Rows -> live \cup {None}]
  BY DEF HInd, Ind, TypeOK, LayersAgree, Registries
<1>2. ASSUME NEW l \in reg.listeners, l[3] PROVE l[4] = handle[l[1]]
  <2>1. l \in Listeners
    BY <1>1 DEF Registries
  <2>2. PICK e \in Rows, n \in Names, js \in BOOLEAN, h \in Handles : l = <<e, n, js, h>>
    BY <2>1 DEF Listeners
  <2>3. l[1] = e /\ l[3] = js /\ l[4] = h
    BY <2>2
  <2>4. js = ForJs
    BY <1>2, <2>3, Zenon DEF ForJs
  <2>5. <<e, n, ForJs, h>> \in reg.listeners
    BY <2>2, <2>4, Zenon
  <2> QED BY <2>3, <2>5 DEF HInd, OnOwnNode
<1>3. ASSUME NEW e \in alive, handle[e] # None, NEW n \in called[e]
      PROVE  /\ <<handle[e], Type[n]>> \in reg.native
             /\ <<e, n>> \in dispatchEvent(handle[e], Type[n])
             /\ triggerEvents(e, handle[e], n) # {}
  <2> DEFINE h == handle[e]
  <2>1. e \in Rows /\ n \in Names /\ h \in live
    BY <1>1, <1>3 DEF HInd
  <2>2. <<e, n, ForJs, h>> \in reg.listeners
    BY <1>3, <2>1 DEF HInd, Bound
  <2> HIDE DEF h
  <2>3. <<e, h, n>> \in reg.targets
    BY <1>1, <2>2 DEF Consistent
  <2> DEFINE x == <<e, h, n>>
             k == <<x[2], x[1], Type[x[3]]>>
  <2>4. <<h, e, Type[n]>> \in reg.keepers
    <3>1. x \in reg.targets /\ x[2] \in live /\ k = <<h, e, Type[n]>>
      BY <2>1, <2>3
    <3>2. k \in reg.keepers
      BY <1>1, <3>1, Zenon DEF Consistent
    <3> QED BY <3>1, <3>2
  <2>5. <<h, Type[n]>> \in reg.native
    <3>1. <<<<h, e, Type[n]>>[1], <<h, e, Type[n]>>[3]>> \in reg.native
      BY <1>1, <2>4, Zenon DEF Consistent
    <3> QED BY <3>1
  <2>6. <<e, n>> \in dispatchEvent(h, Type[n])
    BY <2>1, <2>3, <2>4 DEF dispatchEvent
  <2>7. triggerEvents(e, h, n) # {}
    BY <2>2, Zenon DEF triggerEvents, ForJs
  <2> QED BY <2>5, <2>6, <2>7 DEF h
<1>4. twice = {}
  BY DEF HInd
<1> QED BY <1>2, <1>3, <1>4, Zenon DEF Heard

LEMMA StepHeard ==
    ASSUME NodeEventsAssumption, AvoidTwice, HInd, [Next]_vars
    PROVE  HInd'
<1> USE TwoKinds
<1>1. /\ Ind /\ live \in SUBSET Handles /\ None \notin live /\ None \notin Handles
      /\ alive \subseteq Rows /\ cached \subseteq Rows
      /\ handle \in [Rows -> live \cup {None}]
      /\ named \in [Rows -> SUBSET Names] /\ called \in [Rows -> SUBSET Names]
      /\ \A d \in Rows : called[d] \subseteq named[d]
      /\ twice = {} /\ OnOwnNode /\ Bound
  BY DEF HInd, Ind, TypeOK, NodeEventsAssumption
<1>2. Ind'
  BY <1>1, StepInd
<1>3. ASSUME NEW e \in Rows, NEW n \in Names, addNodeEventListener(e, n) PROVE HInd'
  <2>1. /\ called' = [called EXCEPT ![e] = @ \cup {n}] /\ named' = [named EXCEPT ![e] = @ \cup {n}]
        /\ e \in alive /\ alive' = alive /\ handle' = handle /\ twice' = {}
        /\ \/ handle[e] = None /\ reg' = reg
           \/ handle[e] \in live /\ reg' = addEventListener(reg, e, {n}, ForJs, handle[e])
    BY <1>1, <1>3 DEF addNodeEventListener, ForJs
  <2>2. /\ called' \in [Rows -> SUBSET Names]
        /\ \A d \in Rows : called'[d] \subseteq named'[d]
    BY <1>1, <2>1
  <2>3. OnOwnNode' /\ Bound'
    <3>1. CASE handle[e] = None /\ reg' = reg
      BY <1>1, <2>1, <3>1 DEF OnOwnNode, Bound
    <3>2. CASE handle[e] \in live /\ reg' = addEventListener(reg, e, {n}, ForJs, handle[e])
      <4> DEFINE h == handle[e]
      <4>1. h \in live /\ reg' = addEventListener(reg, e, {n}, ForJs, h)
        BY <3>2
      <4> HIDE DEF h
      <4>2. reg'.listeners = reg.listeners \cup {<<e, n, ForJs, h>>}
        BY <1>1, <4>1, AddedListener
      <4>3. reg'.listeners = reg.listeners \cup {<<e, n, ForJs, handle[e]>>}
        BY <4>2 DEF h
      <4> QED BY <1>1, <2>1, <4>3 DEF OnOwnNode, Bound
    <3> QED BY <2>1, <3>1, <3>2
  <2> QED BY <1>2, <2>1, <2>2, <2>3 DEF HInd
<1>4. ASSUME NEW e \in Rows, NEW n \in Names, removeNodeEventListener(e, n) PROVE HInd'
  <2>1. /\ called' = [called EXCEPT ![e] = @ \ {n}] /\ named' = [named EXCEPT ![e] = @ \cup {n}]
        /\ alive' = alive /\ handle' = handle /\ twice' = {}
        /\ reg' = removeEventListener(reg, e, n, ForJs)
    BY <1>1, <1>4 DEF removeNodeEventListener, ForJs
  <2>2. /\ called' \in [Rows -> SUBSET Names]
        /\ \A d \in Rows : called'[d] \subseteq named'[d]
    BY <1>1, <2>1
  <2>3. reg'.listeners = reg.listeners
                          \ {l \in reg.listeners : l[1] = e /\ l[2] = n /\ l[3] = ForJs}
    BY <1>1, <2>1, RemovedListeners
  <2>4. OnOwnNode'
    BY <1>1, <2>1, <2>3 DEF OnOwnNode
  <2>5. ASSUME NEW d \in alive, NEW m \in Names, m \in called'[d], handle[d] # None
        PROVE  <<d, m, ForJs, handle[d]>> \in reg'.listeners
    <3>1. m \in called[d] /\ ~(d = e /\ m = n)
      BY <1>1, <2>1, <2>5
    <3>2. <<d, m, ForJs, handle[d]>> \in reg.listeners
      BY <1>1, <2>5, <3>1 DEF Bound
    <3> QED BY <2>3, <3>1, <3>2
  <2>6. Bound'
    BY <2>1, <2>5 DEF Bound
  <2> QED BY <1>2, <2>1, <2>2, <2>4, <2>6 DEF HInd
<1>5. ASSUME NEW e \in Rows, NEW n \in Names, unRegisterEventByName_NoCallBack(e, n) PROVE HInd'
  <2>1. /\ UNCHANGED <<called, named, alive, handle, twice>>
        /\ reg' = removeEventListener(reg, e, n, ForWidget)
    BY <1>5 DEF unRegisterEventByName_NoCallBack, ForWidget
  <2>2. reg'.listeners = reg.listeners
                          \ {l \in reg.listeners : l[1] = e /\ l[2] = n /\ l[3] = ForWidget}
    BY <1>1, <2>1, RemovedListeners
  <2>3. OnOwnNode' /\ Bound'
    BY <1>1, <2>1, <2>2 DEF OnOwnNode, Bound
  <2> QED BY <1>1, <1>2, <2>1, <2>3 DEF HInd
<1>6. ASSUME NEW e \in Rows, NEW n \in Names, NEW h \in Handles,
             registerEvent_NoCallBack(e, n, h)
      PROVE  HInd'
  <2>1. /\ UNCHANGED <<called, named, alive, handle, twice>> /\ h \in live
        /\ reg' = addEventListener(reg, e, {n}, ForWidget, h)
    BY <1>6 DEF registerEvent_NoCallBack, ForWidget
  <2>2. reg'.listeners = reg.listeners \cup {<<e, n, ForWidget, h>>}
    BY <1>1, <2>1, AddedListener
  <2>3. OnOwnNode' /\ Bound'
    BY <1>1, <2>1, <2>2 DEF OnOwnNode, Bound
  <2> QED BY <1>1, <1>2, <2>1, <2>3 DEF HInd
<1>7. ASSUME NEW e \in Rows, attachInitialized(e) \/ onItemRecycled(e) PROVE HInd'
  <2>1. UNCHANGED <<reg, called, named, alive, handle, twice>>
    BY <1>7 DEF attachInitialized, onItemRecycled
  <2> QED BY <1>1, <1>2, <2>1 DEF HInd, OnOwnNode, Bound
<1>8. ASSUME NEW e \in Rows, NEW prior \in Rows, NEW dropped \in SUBSET Rows,
             attachReused(e, prior, dropped)
      PROVE  HInd'
  <2> DEFINE h == handle[prior]
             kept == {l \in reg.listeners : ~(l[1] = prior /\ l[4] = h)}
             fresh == {<<e, n, ForJs, h>> : n \in named[e]}
  <2>1. /\ UNCHANGED <<alive, named, called>>
        /\ e \in alive /\ handle[e] = None /\ prior \in cached /\ dropped \cap alive = {}
        /\ handle' = [d \in Rows |-> IF d = e THEN h
                                    ELSE IF d \in dropped \cup {prior} THEN None
                                    ELSE handle[d]]
    BY <1>8 DEF attachReused
  <2>2. h \in live /\ e # prior
    BY <1>1, <2>1 DEF Ind
  <2>3. reg'.listeners = kept \cup fresh /\ twice' = twice \cup (fresh \cap kept)
    BY <1>1, <1>8, ReusedRegistry, Zenon DEF ForJs
  <2>4. twice' = {}
    BY <1>1, <2>1, <2>2, <2>3 DEF OnOwnNode
  <2>5. ASSUME NEW d \in Rows, NEW n \in Names, NEW x \in Handles,
               <<d, n, ForJs, x>> \in reg'.listeners
        PROVE  d \in alive /\ x = handle'[d]
    <3>1. CASE <<d, n, ForJs, x>> \in kept
      BY <1>1, <2>1, <2>2, <3>1 DEF OnOwnNode
    <3>2. CASE <<d, n, ForJs, x>> \in fresh
      BY <2>1, <3>2
    <3> QED BY <2>3, <2>5, <3>1, <3>2
  <2>6. ASSUME NEW d \in alive, NEW n \in Names, n \in called[d], handle'[d] # None
        PROVE  <<d, n, ForJs, handle'[d]>> \in reg'.listeners
    <3>1. CASE d = e
      <4>1. n \in named[e] /\ handle'[d] = h
        BY <1>1, <2>1, <2>6, <3>1
      <4> QED BY <2>3, <3>1, <4>1
    <3>2. CASE d # e
      <4>1. d # prior /\ handle'[d] = handle[d]
        BY <1>1, <2>1, <2>6, <3>2
      <4>2. <<d, n, ForJs, handle[d]>> \in reg.listeners
        BY <1>1, <2>6, <4>1 DEF Bound
      <4> QED BY <2>3, <4>1, <4>2
    <3> QED BY <3>1, <3>2
  <2>7. OnOwnNode' /\ Bound'
    BY <2>1, <2>5, <2>6 DEF OnOwnNode, Bound
  <2> QED BY <1>1, <1>2, <2>1, <2>4, <2>7 DEF HInd
<1>9. ASSUME NEW e \in Rows, NEW h \in Handles, attachBuilt(e, h) PROVE HInd'
  <2> DEFINE fresh == {<<e, n, ForJs, h>> : n \in named[e]}
  <2>1. /\ UNCHANGED <<alive, named, called>>
        /\ e \in alive /\ handle[e] = None /\ cached \cap alive = {} /\ h \notin made
        /\ handle' = [d \in Rows |-> IF d = e THEN h ELSE IF d \in cached THEN None ELSE handle[d]]
    BY <1>9 DEF attachBuilt
  <2>2. reg'.listeners = reg.listeners \cup fresh /\ twice' = twice
    BY <1>1, <1>9, BuiltRegistry, Zenon DEF ForJs
  <2>3. ASSUME NEW d \in Rows, NEW n \in Names, NEW x \in Handles,
               <<d, n, ForJs, x>> \in reg'.listeners
        PROVE  d \in alive /\ x = handle'[d]
    <3>1. CASE <<d, n, ForJs, x>> \in reg.listeners
      BY <1>1, <2>1, <3>1 DEF OnOwnNode
    <3>2. CASE <<d, n, ForJs, x>> \in fresh
      BY <2>1, <3>2
    <3> QED BY <2>2, <2>3, <3>1, <3>2
  <2>4. ASSUME NEW d \in alive, NEW n \in Names, n \in called[d], handle'[d] # None
        PROVE  <<d, n, ForJs, handle'[d]>> \in reg'.listeners
    <3>1. CASE d = e
      <4>1. n \in named[e] /\ handle'[d] = h
        BY <1>1, <2>1, <2>4, <3>1
      <4> QED BY <2>2, <3>1, <4>1
    <3>2. CASE d # e
      <4>1. handle'[d] = handle[d]
        BY <1>1, <2>1, <2>4, <3>2
      <4> QED BY <1>1, <2>2, <2>4, <4>1 DEF Bound
    <3> QED BY <3>1, <3>2
  <2>5. OnOwnNode' /\ Bound'
    BY <2>1, <2>3, <2>4 DEF OnOwnNode, Bound
  <2> QED BY <1>1, <1>2, <2>1, <2>2, <2>5 DEF HInd
<1>10. ASSUME NEW e \in Rows, destroy(e) PROVE HInd'
  <2>1. reg'.listeners = {l \in reg.listeners : l[1] # e}
    BY <1>1, <1>10, DestroyedRegistry
  <2>2. /\ alive' = alive \ {e} /\ twice' = {}
        /\ named' = [named EXCEPT ![e] = {}] /\ called' = [called EXCEPT ![e] = {}]
        /\ \A d \in Rows \ {e} : handle'[d] = handle[d]
    BY <1>1, <1>10 DEF destroy
  <2>3. /\ called' \in [Rows -> SUBSET Names]
        /\ \A d \in Rows : called'[d] \subseteq named'[d]
    BY <1>1, <2>2
  <2>4. OnOwnNode' /\ Bound'
    BY <1>1, <2>1, <2>2 DEF OnOwnNode, Bound
  <2> QED BY <1>2, <2>2, <2>3, <2>4 DEF HInd
<1>11. CASE UNCHANGED vars
  BY <1>1, <1>2, <1>11 DEF vars, HInd, OnOwnNode, Bound
<1> QED
  BY <1>3, <1>4, <1>5, <1>6, <1>7, <1>8, <1>9, <1>10, <1>11 DEF Next

(* Where JS adds no callback in the place of a listener left behind, what  *)
(* it listens for reaches it once and only from the row's own native node, *)
(* for any rows, native nodes, names and types of events (event.cpp, Build *)
(* of a reuse_element, recycleManager).                                    *)
THEOREM AlwaysHeard == ASSUME AvoidTwice PROVE Spec => []Heard
<1>1. Init => HInd
  <2>1. ASSUME Init PROVE HInd
    BY <2>1, NodeEventsAssumption, InitInd DEF Init, HInd, OnOwnNode, Bound
  <2> QED BY <2>1
<1>2. HInd /\ [Next]_vars => HInd'
  BY NodeEventsAssumption, StepHeard
<1>3. HInd => Heard
  BY NodeEventsAssumption, HIndImpliesHeard
<1> QED BY <1>1, <1>2, <1>3, PTL DEF Spec


-----------------------------------------------------------------------------
(***************************************************************************)
(* RenderMarks.  A page is changed by composing operators, one per function*)
(* of the code, so the proof is a lemma per operator: from a page in order *)
(* it makes a page in order.                                               *)
(***************************************************************************)
Anyone == Marks!All \cup {None}

Pages == [home : [RenderNodes -> Anyone],
          fixed : SUBSET Anyone, hidden : SUBSET Anyone, marked : SUBSET Anyone,
          drawn : SUBSET Anyone, stale : SUBSET Anyone, dirty : SUBSET Anyone,
          cold : SUBSET Anyone, fresh : SUBSET Anyone,
          toLayout : BOOLEAN, toPaint : SUBSET Anyone]

-----------------------------------------------------------------------------
(***************************************************************************)
(* The tree of render nodes, whatever else is in the page: what is above a *)
(* node is the least set with its parent and theirs, and a chain.          *)
(***************************************************************************)
(* A step applied over and over.                                           *)
Iterates(g, A, N, b, step) ==
    /\ g \in [0 .. N -> A]
    /\ g[0] = b /\ \A k \in 1 .. N : g[k] = step[g[k - 1]]

LEMMA IteratesExist ==
    ASSUME NEW A, NEW N \in Nat, NEW b \in A, NEW step \in [A -> A]
    PROVE  \E g : Iterates(g, A, N, b, step)
<1> DEFINE Upto(k) == \E g \in [0 .. k -> A] :
               g[0] = b /\ \A i \in 1 .. k : g[i] = step[g[i - 1]]
           T == {k \in Nat : Upto(k)}
<1>1. Upto(0)
  <2> DEFINE g == [k \in 0 .. 0 |-> b]
  <2>1. g \in [0 .. 0 -> A] /\ g[0] = b /\ \A i \in 1 .. 0 : g[i] = step[g[i - 1]]
    OBVIOUS
  <2> QED BY <2>1
<1>2. ASSUME NEW k \in Nat, Upto(k) PROVE Upto(k + 1)
  <2>1. PICK g \in [0 .. k -> A] : g[0] = b /\ \A i \in 1 .. k : g[i] = step[g[i - 1]]
    BY <1>2
  <2> DEFINE h == [i \in 0 .. k + 1 |-> IF i = k + 1 THEN step[g[k]] ELSE g[i]]
  <2>2. h \in [0 .. k + 1 -> A] /\ h[0] = b
    BY <2>1
  <2>3. ASSUME NEW i \in 1 .. k + 1 PROVE h[i] = step[h[i - 1]]
    <3>1. CASE i = k + 1
      <4>1. i - 1 = k /\ k \in 0 .. k + 1 /\ k # k + 1
        BY <3>1
      <4> QED BY <3>1, <4>1
    <3>2. CASE i # k + 1
      <4>1. i \in 1 .. k /\ i - 1 \in 0 .. k /\ i - 1 # k + 1
        BY <3>2
      <4> QED BY <2>1, <3>2, <4>1
    <3> QED BY <3>1, <3>2
  <2> HIDE DEF h
  <2> QED BY <2>2, <2>3
<1> HIDE DEF Upto
<1>3. 0 \in T /\ \A k \in Nat : k \in T => k + 1 \in T
  BY <1>1, <1>2
<1>4. N \in T
  <2> HIDE DEF T
  <2> QED BY <1>3, Induction
<1> QED BY <1>4 DEF Upto, Iterates

(* Parents are elements, the page, or nobody.                              *)
LEMMA ParentWithin ==
    ASSUME NEW d, d \in Pages, NEW n \in Anyone
    PROVE  Marks!ParentRef(d, n) \in Anyone
  BY DEF Marks!ParentRef, Pages, Anyone, Marks!All

LEMMA SameCount ==
    ASSUME NEW S
    PROVE  Marks!Cardinality(S) = Cardinality(S) /\ (Marks!IsFiniteSet(S) <=> IsFiniteSet(S))
<1>1. Marks!Cardinality(S) = Cardinality(S)
  BY DEF Cardinality, Marks!Cardinality
<1>2. Marks!IsFiniteSet(S) <=> IsFiniteSet(S)
  BY DEF IsFiniteSet, Marks!IsFiniteSet
<1> QED BY <1>1, <1>2

LEMMA AllFinite == IsFiniteSet(Marks!All) /\ Cardinality(Marks!All) \in Nat
<1>1. IsFiniteSet(RenderNodes)
  BY MarksAssumption, SameCount DEF Marks!ConstantsApart
<1>2. IsFiniteSet(RenderNodes \cup {Root})
  BY <1>1, FS_AddElement
<1> QED BY <1>2, FS_CardinalityType DEF Marks!All

(* The sets Above goes through, and that the last of them has every parent *)
(* of its members: until then each has a member more than the one before.  *)
Ascends(up, d, n, N) ==
    /\ up \in [0 .. N -> SUBSET Anyone]
    /\ up[0] = {Marks!ParentRef(d, n)}
    /\ \A k \in 1 .. N : up[k] = up[k - 1] \cup {Marks!ParentRef(d, m) : m \in up[k - 1]}
    /\ Marks!Above(d, n) = up[N] \ {None}

LEMMA AboveTrace ==
    ASSUME NEW d, d \in Pages, NEW n \in Anyone
    PROVE  \E up : Ascends(up, d, n, Cardinality(Marks!All))
<1> DEFINE N == Cardinality(Marks!All)
           Step(S) == S \cup {Marks!ParentRef(d, m) : m \in S}
           step == [S \in SUBSET Anyone |-> Step(S)]
           b == {Marks!ParentRef(d, n)}
           Eq(f) == f = [k \in 0 .. N |-> IF k = 0 THEN b ELSE Step(f[k - 1])]
           up == CHOOSE f : Eq(f)
<1>1. N \in Nat
  BY AllFinite
<1>2. step \in [SUBSET Anyone -> SUBSET Anyone] /\ b \in SUBSET Anyone
  BY ParentWithin
<1>9. N = Marks!Cardinality(Marks!All)
  BY SameCount
<1>3. PICK g \in [0 .. N -> SUBSET Anyone] :
           g[0] = b /\ \A k \in 1 .. N : g[k] = step[g[k - 1]]
  <2>1. \E g : Iterates(g, SUBSET Anyone, N, b, step)
    <3> HIDE DEF step, b, N
    <3> QED BY <1>1, <1>2, IteratesExist
  <2> QED BY <2>1 DEF Iterates
<1>4. \A k \in 1 .. N : g[k] = Step(g[k - 1])
  <2> SUFFICES ASSUME NEW k \in 1 .. N PROVE g[k] = Step(g[k - 1])
    OBVIOUS
  <2>1. k - 1 \in 0 .. N
    BY <1>1
  <2>2. g[k - 1] \in SUBSET Anyone
    BY <2>1
  <2>3. step[g[k - 1]] = Step(g[k - 1])
    <3> HIDE DEF Step
    <3> QED BY <2>2
  <2> HIDE DEF step, Step
  <2> QED BY <1>3, <2>3
<1>5. Eq(g)
  <2> HIDE DEF Step, b, N
  <2>1. \A k \in 0 .. N : g[k] = IF k = 0 THEN b ELSE Step(g[k - 1])
    <3> SUFFICES ASSUME NEW k \in 0 .. N, k # 0 PROVE k \in 1 .. N
      BY <1>3, <1>4
    <3> QED BY <1>1
  <2> QED BY <2>1
<1>6. Eq(up)
  <2> HIDE DEF Eq
  <2> QED BY <1>5
<1>7. Marks!Above(d, n) = up[N] \ {None}
  BY <1>9, Zenon DEF Marks!Above
<1>8. up = g
  <2> HIDE DEF Step, b, up
  <2> DEFINE S == {k \in Nat : k \in 0 .. N => up[k] = g[k]}
  <2>0. DOMAIN up = 0 .. N /\ up = [k \in 0 .. N |-> up[k]]
    BY <1>6
  <2>1. 0 \in S
    <3>1. 0 \in 0 .. N
      BY <1>1
    <3>2. up[0] = b
      BY <3>1, <1>6
    <3> QED BY <1>3, <3>2
  <2>2. ASSUME NEW k \in Nat, k \in S PROVE k + 1 \in S
    <3> SUFFICES ASSUME k + 1 \in 0 .. N PROVE up[k + 1] = g[k + 1]
      OBVIOUS
    <3>1. k \in 0 .. N /\ k + 1 \in 1 .. N /\ k + 1 # 0 /\ (k + 1) - 1 = k
      BY <1>1
    <3>2. up[k + 1] = Step(up[k])
      BY <1>6, <3>1
    <3>3. g[k + 1] = Step(g[k])
      BY <1>4, <3>1
    <3> QED BY <2>2, <3>1, <3>2, <3>3
  <2>3. Nat \subseteq S
    <3> HIDE DEF S
    <3> QED BY <2>1, <2>2, Induction
  <2>4. \A k \in 0 .. N : up[k] = g[k]
    BY <2>3
  <2> QED BY <2>0, <2>4
<1>10. g[0] = b /\ Marks!Above(d, n) = g[N] \ {None}
  BY <1>3, <1>7, <1>8
<1>11. Ascends(g, d, n, N)
  <2> HIDE DEF N, up, step
  <2> QED BY <1>3, <1>4, <1>10 DEF Ascends
<1> QED BY <1>11

(* d's nodes and nobody are as many as the sets can grow to.               *)
LEMMA AnyoneFinite ==
    IsFiniteSet(Anyone) /\ Cardinality(Anyone) = Cardinality(Marks!All) + 1
<1>1. None \notin Marks!All
  BY MarksAssumption DEF Marks!ConstantsApart, Marks!All
<1> QED BY <1>1, AllFinite, FS_AddElement DEF Anyone

(* A set of nodes with every parent but nobody: what is above stays above. *)
Closed(d, P) == \A m \in P : Marks!ParentRef(d, m) \in P \cup {None}

(* A set that grows by the parents of its members until it is closed.      *)
LEMMA GrowsOrCloses ==
    ASSUME NEW d, d \in Pages, NEW S \in SUBSET Anyone, NEW k \in Nat,
           Cardinality(S) >= k \/ \A m \in S : Marks!ParentRef(d, m) \in S,
           NEW R, R = S \cup {Marks!ParentRef(d, m) : m \in S}
    PROVE  Cardinality(R) >= k + 1 \/ \A m \in R : Marks!ParentRef(d, m) \in R
<1>1. R \subseteq Anyone
  BY ParentWithin
<1>2. CASE \A m \in S : Marks!ParentRef(d, m) \in S
  <2>1. R = S BY <1>2
  <2> QED BY <1>2, <2>1
<1>3. CASE ~ \A m \in S : Marks!ParentRef(d, m) \in S
  <2>1. PICK m \in S : Marks!ParentRef(d, m) \notin S
    BY <1>3
  <2> DEFINE x == Marks!ParentRef(d, m)
             Q == S \cup {x}
  <2>2. Q \in SUBSET R
    OBVIOUS
  <2>3. IsFiniteSet(R) /\ IsFiniteSet(S)
    BY <1>1, AnyoneFinite, FS_Subset
  <2>4. Cardinality(Q) = Cardinality(S) + 1
    <3> HIDE DEF x
    <3>1. x \notin S BY <2>1 DEF x
    <3> QED BY <2>3, <3>1, FS_AddElement
  <2>5. Cardinality(Q) <= Cardinality(R)
    <3> HIDE DEF Q
    <3> QED BY <2>2, <2>3, FS_Subset
  <2>6. Cardinality(S) \in Nat /\ Cardinality(R) \in Nat
    BY <2>3, FS_CardinalityType
  <2>7. Cardinality(S) >= k
    BY <1>3
  <2> HIDE DEF Q
  <2> QED BY <2>4, <2>5, <2>6, <2>7
<1> QED BY <1>2, <1>3

(* Above is the least set with the parent of n and with every parent of    *)
(* its members, nobody apart.                                              *)
LEMMA AboveLeast ==
    ASSUME NEW d, d \in Pages, NEW n \in Anyone
    PROVE  /\ Marks!Above(d, n) \subseteq Marks!All
           /\ Marks!ParentRef(d, n) \in Marks!Above(d, n) \cup {None}
           /\ Closed(d, Marks!Above(d, n))
           /\ \A P : Marks!ParentRef(d, n) \in P \cup {None} /\ Closed(d, P)
                        => Marks!Above(d, n) \subseteq P
<1> DEFINE N == Cardinality(Marks!All)
<1>1. N \in Nat
  BY AllFinite
<1> HIDE DEF N
<1>2. PICK up :
           /\ up \in [0 .. N -> SUBSET Anyone]
           /\ up[0] = {Marks!ParentRef(d, n)}
           /\ \A k \in 1 .. N :
                 up[k] = up[k - 1] \cup {Marks!ParentRef(d, m) : m \in up[k - 1]}
           /\ Marks!Above(d, n) = up[N] \ {None}
  <2>1. \E up : Ascends(up, d, n, N)
    BY AboveTrace DEF N
  <2> QED BY <2>1 DEF Ascends
<1>3. ASSUME NEW k \in Nat, k + 1 \in 0 .. N
      PROVE  /\ k \in 0 .. N
             /\ up[k] \in SUBSET Anyone
             /\ up[k + 1] = up[k] \cup {Marks!ParentRef(d, m) : m \in up[k]}
  <2>1. k \in 0 .. N /\ k + 1 \in 1 .. N /\ (k + 1) - 1 = k
    BY <1>1, <1>3
  <2> QED BY <1>2, <2>1
<1>4. Marks!ParentRef(d, None) = None
  BY DEF Marks!ParentRef
<1>5. N \in 0 .. N /\ 0 \in 0 .. N
  BY <1>1
<1>6. Marks!Above(d, n) \subseteq Marks!All
  BY <1>2, <1>5 DEF Anyone
<1>7. Marks!ParentRef(d, n) \in up[N]
  <2> DEFINE T == {k \in Nat : k \in 0 .. N => Marks!ParentRef(d, n) \in up[k]}
  <2>1. 0 \in T BY <1>2
  <2>2. ASSUME NEW k \in Nat, k \in T PROVE k + 1 \in T
    BY <1>3, <2>2
  <2>3. Nat \subseteq T
    <3> HIDE DEF T
    <3> QED BY <2>1, <2>2, Induction
  <2> QED BY <1>1, <1>5, <2>3
<1>8. \A m \in up[N] : Marks!ParentRef(d, m) \in up[N]
  <2> DEFINE Open(k) == Cardinality(up[k]) >= k + 1
             Shut(k) == \A m \in up[k] : Marks!ParentRef(d, m) \in up[k]
             T == {k \in Nat : k \in 0 .. N => Open(k) \/ Shut(k)}
  <2>1. 0 \in T
    <3>1. Cardinality(up[0]) = 1
      BY <1>2, FS_Singleton
    <3> QED BY <3>1
  <2>2. ASSUME NEW k \in Nat, k \in T PROVE k + 1 \in T
    <3> SUFFICES ASSUME k + 1 \in 0 .. N PROVE Open(k + 1) \/ Shut(k + 1)
      OBVIOUS
    <3>1. Open(k) \/ Shut(k)
      BY <1>3, <2>2
    <3> HIDE DEF T
    <3> QED BY <1>3, <3>1, GrowsOrCloses
  <2>3. Nat \subseteq T
    <3> HIDE DEF T
    <3> QED BY <2>1, <2>2, Induction
  <2>4. Open(N) \/ Shut(N)
    BY <1>1, <1>5, <2>3
  <2>5. CASE Open(N)
    <3>1. up[N] \in SUBSET Anyone
      BY <1>2, <1>5
    <3>2. Cardinality(up[N]) <= N + 1 /\ Cardinality(up[N]) \in Nat
      BY <3>1, AnyoneFinite, FS_Subset, FS_CardinalityType DEF N
    <3>3. Cardinality(up[N]) = Cardinality(Anyone)
      BY <1>1, <2>5, <3>2, AnyoneFinite DEF N
    <3>4. up[N] = Anyone
      BY <3>1, <3>3, AnyoneFinite, FS_Subset
    <3> QED BY <3>4, ParentWithin
  <2> QED BY <2>4, <2>5
<1>9. Closed(d, Marks!Above(d, n))
  BY <1>2, <1>8 DEF Closed
<1>10. ASSUME NEW P, Marks!ParentRef(d, n) \in P \cup {None}, Closed(d, P)
       PROVE  Marks!Above(d, n) \subseteq P
  <2> DEFINE T == {k \in Nat : k \in 0 .. N => up[k] \subseteq P \cup {None}}
  <2>1. 0 \in T BY <1>2, <1>10
  <2>2. ASSUME NEW k \in Nat, k \in T PROVE k + 1 \in T
    BY <1>3, <1>4, <1>10, <2>2 DEF Closed
  <2>3. Nat \subseteq T
    <3> HIDE DEF T
    <3> QED BY <2>1, <2>2, Induction
  <2>4. up[N] \subseteq P \cup {None}
    BY <1>1, <1>5, <2>3
  <2> QED BY <1>2, <2>4
<1> QED BY <1>2, <1>6, <1>7, <1>9, <1>10

(* The same, for a set closed only as far as it is above n.                *)
LEMMA AboveWithin ==
    ASSUME NEW d, d \in Pages, NEW n \in Anyone, NEW P,
           Marks!ParentRef(d, n) \in P \cup {None},
           \A a \in P \cap Marks!Above(d, n) : Marks!ParentRef(d, a) \in P \cup {None}
    PROVE  Marks!Above(d, n) \subseteq P
<1> DEFINE Q == P \cap Marks!Above(d, n)
<1>1. Marks!ParentRef(d, n) \in Q \cup {None}
  BY AboveLeast
<1>2. Closed(d, Q)
  BY AboveLeast DEF Closed
<1>3. Marks!Above(d, n) \subseteq Q
  <2> HIDE DEF Q
  <2> QED BY <1>1, <1>2, AboveLeast
<1> QED BY <1>3

LEMMA AboveTransitive ==
    ASSUME NEW d, d \in Pages, NEW n \in Anyone, NEW a \in Marks!Above(d, n)
    PROVE  Marks!Above(d, a) \subseteq Marks!Above(d, n)
<1>1. a \in Anyone /\ Closed(d, Marks!Above(d, n))
  BY AboveLeast DEF Anyone
<1>2. Marks!ParentRef(d, a) \in Marks!Above(d, n) \cup {None}
  BY <1>1 DEF Closed
<1> QED BY <1>1, <1>2, AboveLeast

(* Above n are its parent and those above the parent.                      *)
LEMMA AboveUnfolds ==
    ASSUME NEW d, d \in Pages, NEW n \in Anyone
    PROVE  Marks!Above(d, n) = IF Marks!ParentRef(d, n) = None THEN {}
               ELSE {Marks!ParentRef(d, n)} \cup Marks!Above(d, Marks!ParentRef(d, n))
<1> DEFINE p == Marks!ParentRef(d, n)
<1>1. p \in Anyone
  BY ParentWithin
<1>2. CASE p = None
  <2>1. Marks!Above(d, n) \subseteq {}
    <3>1. Closed(d, {}) BY DEF Closed
    <3> QED BY <1>2, <3>1, AboveLeast
  <2> QED BY <1>2, <2>1
<1>3. CASE p # None
  <2> DEFINE P == {p} \cup Marks!Above(d, p)
  <2>1. Closed(d, P)
    BY <1>1, AboveLeast DEF Closed
  <2>2. Marks!Above(d, n) \subseteq P
    <3>1. p \in P OBVIOUS
    <3> HIDE DEF P
    <3> QED BY <2>1, <3>1, AboveLeast
  <2>3. p \in Marks!Above(d, n)
    BY <1>3, AboveLeast
  <2>4. Marks!Above(d, p) \subseteq Marks!Above(d, n)
    BY <2>3, AboveTransitive
  <2> QED BY <1>3, <2>2, <2>3, <2>4
<1> QED BY <1>2, <1>3

(* Elements are in each other, and at last in the page.                    *)
Rooted(d) == \A S \in SUBSET RenderNodes : (\A m \in S : d.home[m] \in S) => S = {}

(* Nobody is above himself.                                                *)
LEMMA AboveAcyclic ==
    ASSUME NEW d, d \in Pages, Rooted(d), NEW n \in Anyone
    PROVE  n \notin Marks!Above(d, n)
<1> SUFFICES ASSUME n \in Marks!Above(d, n) PROVE FALSE
  OBVIOUS
<1> DEFINE S == {x \in Anyone : n \in Marks!Above(d, x)}
<1>1. ASSUME NEW x \in S PROVE Marks!ParentRef(d, x) \in S /\ x \notin {None, Root}
  <2>1. Marks!ParentRef(d, x) # None
    BY AboveUnfolds
  <2>2. n = Marks!ParentRef(d, x) \/ n \in Marks!Above(d, Marks!ParentRef(d, x))
    BY AboveUnfolds, <2>1
  <2>3. Marks!ParentRef(d, x) \in Anyone
    BY ParentWithin
  <2>4. Marks!ParentRef(d, x) \in S
    BY <2>2, <2>3
  <2> QED BY <2>1, <2>4 DEF Marks!ParentRef
<1>2. S \in SUBSET RenderNodes
  BY <1>1 DEF Anyone, Marks!All
<1>3. \A x \in S : d.home[x] \in S
  <2> SUFFICES ASSUME NEW x \in S PROVE d.home[x] \in S
    OBVIOUS
  <2> HIDE DEF S
  <2> QED BY <1>1 DEF Marks!ParentRef
<1>4. S = {}
  <2> HIDE DEF S
  <2> QED BY <1>2, <1>3 DEF Rooted
<1> QED BY <1>4

(* Of two nodes on the way up from n, one is on the way from the other.    *)
LEMMA AboveLinear ==
    ASSUME NEW d, d \in Pages, NEW n \in Anyone,
           NEW a \in {n} \cup Marks!Above(d, n), NEW x \in {n} \cup Marks!Above(d, n)
    PROVE  a = x \/ a \in Marks!Above(d, x) \/ x \in Marks!Above(d, a)
<1> DEFINE P == {y \in Anyone : a = y \/ a \in Marks!Above(d, y) \/ y \in Marks!Above(d, a)}
<1>1. a \in Anyone
  BY AboveLeast DEF Anyone
<1>2. ASSUME NEW y \in P PROVE Marks!ParentRef(d, y) \in P \cup {None}
  <2>1. Marks!ParentRef(d, y) \in Anyone
    BY ParentWithin
  <2>2. CASE a = y
    BY <1>1, <2>1, <2>2, AboveLeast
  <2>3. CASE a \in Marks!Above(d, y)
    <3>1. a = Marks!ParentRef(d, y) \/ a \in Marks!Above(d, Marks!ParentRef(d, y))
      BY <2>3, AboveUnfolds
    <3> QED BY <2>1, <3>1
  <2>4. CASE y \in Marks!Above(d, a)
    <3>1. Marks!ParentRef(d, y) \in Marks!Above(d, a) \cup {None}
      BY <1>1, <2>4, AboveLeast DEF Closed
    <3> QED BY <2>1, <3>1
  <2> QED BY <2>2, <2>3, <2>4
<1>3. n \in P
  OBVIOUS
<1>4. Marks!Above(d, n) \subseteq P
  <2>1. Closed(d, P) BY <1>2 DEF Closed
  <2> HIDE DEF P
  <2> QED BY <1>2, <1>3, <2>1, AboveLeast
<1> QED BY <1>3, <1>4

(* What is above n depends only on the parents on the way.                 *)
LEMMA SameAbove ==
    ASSUME NEW d, d \in Pages, NEW e, e \in Pages, NEW n \in Anyone,
           \A a \in {n} \cup Marks!Above(d, n) : Marks!ParentRef(e, a) = Marks!ParentRef(d, a)
    PROVE  Marks!Above(e, n) = Marks!Above(d, n)
<1>1. Marks!Above(d, n) \subseteq Anyone
  BY AboveLeast DEF Anyone
<1>2. Marks!Above(e, n) \subseteq Marks!Above(d, n)
  <2> DEFINE P == Marks!Above(d, n)
  <2>1. Marks!ParentRef(e, n) \in P \cup {None} /\ Closed(e, P)
    BY AboveLeast DEF Closed
  <2> HIDE DEF P
  <2>2. Marks!Above(e, n) \subseteq P BY <2>1, AboveLeast
  <2> QED BY <2>2 DEF P
<1>3. Marks!Above(d, n) \subseteq Marks!Above(e, n)
  <2> DEFINE P == Marks!Above(e, n)
  <2>1. Marks!ParentRef(e, n) \in P \cup {None} /\ Closed(e, P)
    BY AboveLeast
  <2>2. Marks!ParentRef(d, n) \in P \cup {None}
    BY <2>1
  <2>3. \A a \in P \cap Marks!Above(d, n) : Marks!ParentRef(d, a) \in P \cup {None}
    BY <2>1 DEF Closed
  <2> HIDE DEF P
  <2>4. Marks!Above(d, n) \subseteq P BY <2>2, <2>3, AboveWithin
  <2> QED BY <2>4 DEF P
<1> QED BY <1>2, <1>3

-----------------------------------------------------------------------------
(***************************************************************************)
(* Marks for painting.                                                     *)
(***************************************************************************)
(* In order: of its type, and painting is awaited.                         *)
Good(d) == d \in Pages /\ d.drawn = d.toPaint

(* Marks for layout, set or taken off, and what waits for layout: none of  *)
(* them touches painting.                                                  *)
LEMMA MarkedGood ==
    ASSUME NEW d, Good(d), NEW S, S \subseteq Anyone
    PROVE  /\ Good(Marks!SetLayoutDirty(d, S))
           /\ Good(Marks!ClearLayoutDirty(d, S))
           /\ Good(Marks!CheckIfYGDirty(d, S))
           /\ Good(Marks!Changed(d, S))
  <1>1. ASSUME NEW R, R \subseteq Anyone PROVE Good(Marks!SetLayoutDirty(d, R))
    <2>1. Marks!SetLayoutDirty(d, R).toLayout \in BOOLEAN
      BY DEF Marks!SetLayoutDirty, Good, Pages
    <2> QED BY <1>1, <2>1 DEF Marks!SetLayoutDirty, Good, Pages
  <1>2. Good(Marks!ClearLayoutDirty(d, S))
    BY DEF Marks!ClearLayoutDirty, Good, Pages
  <1>3. Good(Marks!Changed(d, S))
    BY DEF Marks!Changed, Good, Pages
  <1>4. Good(Marks!CheckIfYGDirty(d, S))
    BY <1>1 DEF Marks!CheckIfYGDirty
  <1> QED BY <1>1, <1>2, <1>3, <1>4

(* SetDrawDirty queues exactly the nodes whose mark it sets.               *)
LEMMA DrawnGood ==
    ASSUME NEW d, Good(d), NEW S, S \subseteq Anyone
    PROVE  Good(Marks!SetDrawDirty(d, S))
  BY DEF Marks!SetDrawDirty, Good, Pages

(* FlushPaint takes the mark off everyone in the queue, and empties it.    *)
LEMMA PaintedGood ==
    ASSUME NEW d, Good(d)
    PROVE  Good(Marks!FlushPaint(d))
  BY DEF Marks!FlushPaint, Good, Pages

-----------------------------------------------------------------------------
(* Parents are elements, the page, or nobody.                              *)
LEMMA ParentType ==
    ASSUME NEW d, d \in Pages, NEW n \in RenderNodes
    PROVE  Marks!ParentRef(d, n) \in Anyone /\ d.home[n] \in Anyone
  BY DEF Marks!ParentRef, Pages, Anyone, Marks!All

LEMMA BelowType ==
    ASSUME NEW d, NEW n
    PROVE  Marks!Below(d, n) \subseteq Marks!All
  BY DEF Marks!Below, Marks!Exists, Marks!All

LEMMA DirtiedGood ==
    ASSUME NEW d, Good(d), NEW S, S \subseteq Anyone
    PROVE  Good(Marks!markDirty(d, S))
  <1> DEFINE path(n) == {n} \cup Marks!Above(d, n)
             beyond(n) == UNION {Marks!Above(d, m) : m \in path(n) \cap d.dirty}
             T == UNION {path(n) \ beyond(n) : n \in S}
  <1>1. T \subseteq Anyone
    <2>1. \A n \in S : path(n) \subseteq Anyone
      BY AboveLeast DEF Good, Anyone
    <2> QED BY <2>1
  <1>2. Marks!markDirty(d, S) = [d EXCEPT !.dirty = @ \cup T]
    BY DEF Marks!markDirty
  <1> HIDE DEF T
  <1> QED BY <1>1, <1>2 DEF Good, Pages

(* Children come and go in Yoga's tree.                                    *)
LEMMA RehungGood ==
    ASSUME NEW d, Good(d), NEW n \in RenderNodes
    PROVE  Good(Marks!insertChild(d, n)) /\ Good(Marks!removeChild(d, n))
  <1>1. {Marks!ParentRef(d, n)} \subseteq Anyone /\ n \in Anyone
    BY ParentType DEF Good, Anyone, Marks!All
  <1>2. Good(Marks!markDirty(d, {Marks!ParentRef(d, n)}))
    BY <1>1, DirtiedGood
  <1> DEFINE e == Marks!markDirty(d, {Marks!ParentRef(d, n)})
  <1>3. Good([e EXCEPT !.cold = @ \cup {n}])
    <2> HIDE DEF e
    <2>1. Good(e) BY <1>2 DEF e
    <2> QED BY <1>1, <2>1 DEF Good, Pages
  <1> QED BY <1>2, <1>3 DEF Marks!insertChild, Marks!removeChild

LEMMA StyledGood ==
    ASSUME NEW d, Good(d), NEW n \in RenderNodes, NEW isNew \in BOOLEAN
    PROVE  Good(Marks!SetStyle(d, n, isNew))
  <1>1. {n} \subseteq Anyone
    BY DEF Anyone, Marks!All
  <1>2. Good(Marks!CheckIfYGDirty(d, {n}))
    BY <1>1, MarkedGood
  <1>3. Good(Marks!CheckIfYGDirty(Marks!Changed(Marks!markDirty(d, {n}), {n}), {n}))
    <2>1. Good(Marks!markDirty(d, {n})) BY <1>1, DirtiedGood
    <2>2. Good(Marks!Changed(Marks!markDirty(d, {n}), {n})) BY <1>1, <2>1,
       MarkedGood
    <2> QED BY <1>1, <2>2, MarkedGood
  <1> QED BY <1>2, <1>3 DEF Marks!SetStyle

LEMMA ContextGood ==
    ASSUME NEW d, Good(d), NEW n \in RenderNodes
    PROVE  Good(Marks!createContextRecursively(d, n))
  <1>1. {n} \subseteq Anyone
    BY DEF Anyone, Marks!All
  <1>2. Good(Marks!ClearLayoutDirty(d, {n}))
    BY <1>1, MarkedGood
  <1> QED BY <1>1, <1>2, MarkedGood DEF Marks!createContextRecursively

LEMMA DisplayedGood ==
    ASSUME NEW d, Good(d), NEW n \in RenderNodes, NEW hide \in BOOLEAN
    PROVE  Good(Marks!SetDisplay(d, n, hide))
  <1> DEFINE S == {n} \cup (Texts \cap Marks!Below(d, n))
  <1>1. n \in Anyone /\ S \subseteq Anyone
    BY BelowType DEF Anyone, Marks!All
  <1>2. ASSUME NEW e, Good(e), NEW H, H \subseteq Anyone
        PROVE  Good([e EXCEPT !.hidden = H])
    BY <1>2 DEF Good, Pages
  <1>3. /\ Good(Marks!markDirty(d, {n})) /\ Good(Marks!markDirty(d, S))
        /\ Marks!markDirty(d, {n}).hidden \subseteq Anyone
        /\ Marks!markDirty(d, S).hidden \subseteq Anyone
    <2>1. Good(Marks!markDirty(d, {n})) /\ Good(Marks!markDirty(d, S))
      BY <1>1, DirtiedGood
    <2> QED BY <2>1 DEF Good, Pages
  <1>4. Good([Marks!markDirty(d, {n}) EXCEPT !.hidden = Marks!markDirty(d, {n}).hidden \cup {n}])
    BY <1>1, <1>2, <1>3
  <1>5. Good([Marks!markDirty(d, S) EXCEPT !.hidden = Marks!markDirty(d, S).hidden \ {n}])
    BY <1>1, <1>2, <1>3
  <1> QED BY <1>4, <1>5 DEF Marks!SetDisplay

LEMMA MountedGood ==
    ASSUME NEW d, Good(d), NEW n \in RenderNodes, NEW fix \in BOOLEAN
    PROVE  Good(Marks!MountFixedRenderNode(d, n, fix))
  <1> DEFINE out == Marks!removeChild(d, n)
             in == [out EXCEPT !.fixed = IF fix THEN @ \cup {n} ELSE @ \ {n}]
  <1>1. Good(out)
    BY RehungGood
  <1>2. Good(in)
    <2> HIDE DEF out
    <2> QED BY <1>1 DEF Good, Pages, Anyone, Marks!All
  <1>3. Good(Marks!Rehang(d, n, fix))
    <2> HIDE DEF in, out
    <2>1. Marks!Rehang(d, n, fix) = Marks!insertChild(in, n) BY DEF Marks!Rehang,
       in, out
    <2> QED BY <1>2, <2>1, RehungGood
  <1>4. {n, d.home[n]} \subseteq Anyone
    BY ParentType DEF Good, Anyone, Marks!All
  <1>5. Good(Marks!Changed(Marks!Rehang(d, n, fix), {n, d.home[n]}))
    BY <1>3, <1>4, MarkedGood
  <1> QED BY <1>5, ContextGood DEF Marks!MountFixedRenderNode

-----------------------------------------------------------------------------
(* A layout marks for painting only nodes that exist.                      *)
LEMMA CalculatedGood ==
    ASSUME NEW d, Good(d), NEW W
    PROVE  Good(Marks!calcYGLayout(d, W))
  <1> DEFINE visited == {n \in Marks!Exists(d) :
                 ({n} \cup Marks!Above(d, n)) \subseteq (d.dirty \cup d.cold \cup W) \ d.hidden}
             asked == {Root} \cup {n \in Marks!Exists(d) : Marks!ParentRef(d, n) \in visited}
             reset == UNION {{n} \cup Marks!Below(d, n) : n \in asked \cap d.hidden}
  <1>1. asked \subseteq Anyone
    BY DEF Marks!Exists, Anyone, Marks!All
  <1>2. reset \subseteq Anyone
    BY <1>1, BelowType DEF Anyone
  <1>3. Marks!calcYGLayout(d, W) = [d EXCEPT !.fresh = @ \cup asked \cup reset,
            !.dirty = @ \ asked, !.cold = (@ \ asked) \cup reset]
    BY DEF Marks!calcYGLayout
  <1> HIDE DEF asked, reset
  <1>4. d \in Pages /\ d.drawn = d.toPaint
    BY DEF Good
  <1> DEFINE e == Marks!calcYGLayout(d, W)
  <1>5. e \in Pages
    BY <1>1, <1>2, <1>3, <1>4 DEF Pages
  <1>6. e.drawn = d.drawn /\ e.toPaint = d.toPaint
    BY <1>3, <1>4 DEF Pages
  <1> HIDE DEF e
  <1>7. Good(e)
    BY <1>4, <1>5, <1>6 DEF Good
  <1> QED BY <1>7 DEF e

LEMMA LaidOutGood ==
    ASSUME NEW d, Good(d)
    PROVE  Good(Marks!LayoutAll(d))
  <1> DEFINE laid == Marks!Applied(d)
             e == Marks!ClearLayoutDirty(d, Marks!Unmarked(d))
  <1>1. Marks!Unmarked(d) \subseteq Anyone /\ laid \cap Painted \subseteq Anyone
    BY DEF Marks!Unmarked, Marks!Applied, Marks!Exists, Anyone, Marks!All
  <1>2. Good(e)
    BY <1>1, MarkedGood
  <1> HIDE DEF laid
  <1>3. Good([e EXCEPT !.fresh = @ \ laid, !.stale = @ \ laid])
    <2> HIDE DEF e
    <2> QED BY <1>2 DEF Good, Pages
  <1> HIDE DEF e
  <1>4. Good(Marks!SetDrawDirty([e EXCEPT !.fresh = @ \ laid, !.stale = @ \ laid],
                                laid \cap Painted))
    BY <1>1, <1>3, DrawnGood
  <1> QED BY <1>4 DEF Marks!LayoutAll, e, laid

LEMMA FlushedGood ==
    ASSUME NEW d, Good(d), NEW W
    PROVE  Good(Marks!FlushLayout(d, W))
  <1>1. Good([d EXCEPT !.toLayout = FALSE])
    BY DEF Good, Pages
  <1>2. Good(Marks!calcYGLayout([d EXCEPT !.toLayout = FALSE], W))
    BY <1>1, CalculatedGood
  <1> QED BY <1>2, LaidOutGood DEF Marks!FlushLayout

-----------------------------------------------------------------------------
LEMMA InitGood == Marks!Init => Good(page)
  BY DEF Marks!Init, Good, Pages, Anyone

LEMMA AppendGood ==
    ASSUME Good(page), NEW n \in RenderNodes, NEW p \in Marks!All, Marks!AppendTaroNode(n, p)
    PROVE  Good(page')
  <1>1. PICK fix \in BOOLEAN, hide \in BOOLEAN :
          LET new == [page EXCEPT !.home[n] = p, !.cold = @ \cup {n},
                          !.fixed = IF fix THEN @ \cup {n} ELSE @,
                          !.hidden = IF hide THEN @ \cup {n} ELSE @]
              built == Marks!SetDrawDirty(Marks!SetStyle(Marks!insertChild(new, n), n, TRUE),
                                    {n} \cap Painted)
          IN  page' = Marks!Changed(IF fix THEN Marks!createContextRecursively(built, n)
                                    ELSE built,
                              {Marks!ParentRef(new, n)})
    BY DEF Marks!AppendTaroNode, Marks!MayFix, Marks!MayHide
  <1> DEFINE new == [page EXCEPT !.home[n] = p, !.cold = @ \cup {n},
                         !.fixed = IF fix THEN @ \cup {n} ELSE @,
                         !.hidden = IF hide THEN @ \cup {n} ELSE @]
             built == Marks!SetDrawDirty(Marks!SetStyle(Marks!insertChild(new, n), n, TRUE),
                                   {n} \cap Painted)
  <1>2. Good(new)
    BY DEF Good, Pages, Anyone, Marks!All
  <1>3. Good(built)
    <2> HIDE DEF new
    <2>1. Good(Marks!SetStyle(Marks!insertChild(new, n), n, TRUE))
      BY <1>2, RehungGood, StyledGood
    <2> QED BY <2>1, DrawnGood DEF Anyone, Marks!All
  <1>4. {Marks!ParentRef(new, n)} \subseteq Anyone
    BY <1>2, ParentType DEF Good
  <1>5. page' = Marks!Changed(IF fix THEN Marks!createContextRecursively(built, n) ELSE built,
                        {Marks!ParentRef(new, n)})
    BY <1>1
  <1> HIDE DEF new, built
  <1>6. Good(IF fix THEN Marks!createContextRecursively(built, n) ELSE built)
    BY <1>3, ContextGood
  <1> QED BY <1>4, <1>5, <1>6, MarkedGood

LEMMA MoveGood ==
    ASSUME Good(page), NEW n \in RenderNodes, NEW p \in Marks!All, Marks!MoveTaroNode(n, p)
    PROVE  Good(page')
  <1> DEFINE out == Marks!removeChild(page, n)
             moved == [out EXCEPT !.home[n] = p]
             below == Marks!Descendants(page, n)
  <1>1. PICK isNew \in BOOLEAN :
          page' = Marks!CheckIfYGDirty(
                      Marks!Changed(Marks!SetStyle(Marks!insertChild(moved, n), n, isNew),
                              {n, p, page.home[n]}), below)
    BY DEF Marks!MoveTaroNode
  <1>2. Good(out)
    BY RehungGood
  <1>3. Good(moved)
    <2> HIDE DEF out
    <2> QED BY <1>2 DEF Good, Pages, Anyone
  <1>4. below \subseteq Anyone
    BY BelowType DEF Marks!Descendants, Anyone
  <1>5. {n, p, page.home[n]} \subseteq Anyone
    BY ParentType DEF Good, Anyone, Marks!All
  <1> HIDE DEF out, moved, below
  <1>6. Good(Marks!SetStyle(Marks!insertChild(moved, n), n, isNew))
    BY <1>3, RehungGood, StyledGood
  <1>7. Good(Marks!Changed(Marks!SetStyle(Marks!insertChild(moved, n), n, isNew),
                           {n, p, page.home[n]}))
    BY <1>5, <1>6, MarkedGood
  <1> QED BY <1>1, <1>4, <1>7, MarkedGood

LEMMA RemoveGood ==
    ASSUME Good(page), NEW n \in RenderNodes, Marks!RemoveTaroNode(n)
    PROVE  Good(page')
  <1> DEFINE gone == {n} \cup Marks!Descendants(page, n)
             out == Marks!removeChild(page, n)
             left == [home |-> [m \in RenderNodes |-> IF m \in gone THEN None ELSE page.home[m]],
                      fixed |-> out.fixed \ gone, hidden |-> out.hidden \ gone,
                      marked |-> out.marked \ gone, drawn |-> out.drawn \ gone,
                      stale |-> out.stale \ gone, dirty |-> out.dirty \ gone,
                      cold |-> out.cold \ gone, fresh |-> out.fresh \ gone,
                      toLayout |-> out.toLayout, toPaint |-> out.toPaint \ gone]
             told == IF n \in page.fixed THEN left ELSE Marks!Changed(left, {page.home[n]})
  <1>1. page' = Marks!ParentMarked(told, page.home[n])
    BY DEF Marks!RemoveTaroNode
  <1>2. Good(out)
    BY RehungGood
  <1>3. \A m \in RenderNodes : page.home[m] \in Anyone
    BY ParentType DEF Good
  <1>4. Good(left)
    <2> HIDE DEF out, gone
    <2> QED BY <1>2, <1>3 DEF Good, Pages, Anyone
  <1> HIDE DEF left
  <1>5. {page.home[n]} \subseteq Anyone
    BY <1>3
  <1>6. Good(told)
    BY <1>4, <1>5, MarkedGood
  <1> QED BY <1>1, <1>5, <1>6, MarkedGood DEF Marks!ParentMarked

LEMMA ContentGood ==
    ASSUME Good(page), NEW t \in RenderNodes, Marks!UpdateContent(t) \/ Marks!SetImageMode(t)
    PROVE  Good(page')
  <1>1. {t} \subseteq Anyone /\ {t} \cap Painted \subseteq Anyone
    BY DEF Anyone, Marks!All
  <1>2. CASE Marks!UpdateContent(t)
    <2> DEFINE marked == Marks!SetLayoutDirty(Marks!SetStyle(page, t, FALSE), {t})
               drawn == Marks!SetDrawDirty(marked, {t} \cap Painted)
    <2>1. Good(marked)
      BY <1>1, StyledGood, MarkedGood
    <2>2. Good(drawn)
      BY <1>1, <2>1, DrawnGood
    <2>3. page' = Marks!Changed(Marks!SetTextMeasureFunc(drawn, t), {t})
      BY <1>2 DEF Marks!UpdateContent
    <2> HIDE DEF drawn
    <2>4. Good(Marks!SetTextMeasureFunc(drawn, t))
      BY <1>1, <2>2, DirtiedGood DEF Marks!SetTextMeasureFunc
    <2> QED BY <1>1, <2>3, <2>4, MarkedGood
  <1>3. CASE Marks!SetImageMode(t)
    <2>1. Good(Marks!SetLayoutDirty(page, {t}))
      BY <1>1, MarkedGood
    <2> QED BY <1>1, <1>3, <2>1, DrawnGood DEF Marks!SetImageMode
  <1> QED BY <1>2, <1>3

LEMMA ResolveGood ==
    ASSUME Good(page), NEW n \in RenderNodes, Marks!Resolve(n)
    PROVE  Good(page')
  <1>1. PICK fix \in BOOLEAN, hide \in BOOLEAN, resized \in BOOLEAN,
             redrawn \in SUBSET ({n} \cap Painted) :
          LET isNew == resized \/ fix # (n \in page.fixed) \/ hide # (n \in page.hidden)
          IN  page' = Marks!MountFixedRenderNode(
                          Marks!SetDrawDirty(
                              Marks!SetStyle(Marks!SetDisplay(page, n, hide), n, isNew),
                                           redrawn),
                          n, fix)
    BY DEF Marks!Resolve, Marks!MayFix, Marks!MayHide
  <1> DEFINE isNew == resized \/ fix # (n \in page.fixed) \/ hide # (n \in page.hidden)
             styled == Marks!SetStyle(Marks!SetDisplay(page, n, hide), n, isNew)
  <1>2. Good(styled)
    <2>1. isNew \in BOOLEAN
      OBVIOUS
    <2> HIDE DEF isNew
    <2> QED BY <2>1, DisplayedGood, StyledGood
  <1>3. page' = Marks!MountFixedRenderNode(Marks!SetDrawDirty(styled, redrawn), n, fix)
    BY <1>1
  <1> HIDE DEF styled
  <1>4. Good(Marks!SetDrawDirty(styled, redrawn))
    BY <1>2, DrawnGood DEF Anyone, Marks!All
  <1> QED BY <1>3, <1>4, MountedGood

LEMMA FlushGood ==
    ASSUME Good(page), Marks!Flush
    PROVE  Good(page')
  BY FlushedGood, PaintedGood DEF Marks!Flush

-----------------------------------------------------------------------------
(* PaintAlwaysAwaited: for any page, any texts and styles and whatever of  *)
(* the four flaws JS runs into, a node bears a paint mark exactly while    *)
(* it waits to be painted, so a mark never swallows a later one            *)
(* (arkui_base_node.cpp:560, dirty_vsync_task.cpp:167).                    *)
THEOREM PaintAlwaysAwaited == Marks!Spec => []PaintAwaited
  <1>1. Good(page) /\ [Marks!Next]_Marks!vars => Good(page)'
    <2> SUFFICES ASSUME Good(page), [Marks!Next]_Marks!vars PROVE Good(page')
      BY DEF Good, Pages, Anyone, Marks!All
    <2>1. CASE \E n \in RenderNodes : \E p \in Marks!All :
                 Marks!AppendTaroNode(n, p) \/ Marks!MoveTaroNode(n, p)
      BY <2>1, AppendGood, MoveGood
    <2>2. CASE \E n \in RenderNodes : Marks!RemoveTaroNode(n) \/ Marks!Resolve(n)
      BY <2>2, RemoveGood, ResolveGood
    <2>3. CASE \E t \in Texts : Marks!UpdateContent(t) \/ Marks!SetImageMode(t)
      BY <2>3, ContentGood, MarksAssumption DEF Marks!ConstantsApart
    <2>4. CASE Marks!FlushStart
      BY <2>4 DEF Marks!FlushStart
    <2>5. CASE Marks!Flush
      BY <2>5, FlushGood
    <2>6. CASE UNCHANGED Marks!vars
      BY <2>6 DEF Marks!vars
    <2> QED BY <2>1, <2>2, <2>3, <2>4, <2>5, <2>6 DEF Marks!Next
  <1>2. Good(page) => PaintAwaited
    BY DEF Good, PaintAwaited, Marks!PaintAwaited
  <1> QED BY InitGood, <1>1, <1>2, PTL DEF Marks!Spec

-----------------------------------------------------------------------------
(***************************************************************************)
(* Marks for layout.  JS runs into none of the named flaws.  LayoutAwaited *)
(* and MarksQueued say nothing of nodes that layout does not get to, which *)
(* is where a mark is left behind; the invariant tells for every node why  *)
(* Yoga and ApplyLayout will come by.                                      *)
(***************************************************************************)
HomeClosed(d) == \A n \in RenderNodes : d.home[n] \in Marks!Exists(d) \cup {None}

Tree(d) == d \in Pages /\ Rooted(d) /\ HomeClosed(d)

LEMMA AboveExists ==
    ASSUME NEW d, Tree(d), NEW n \in Marks!Exists(d)
    PROVE  Marks!ParentRef(d, n) \in Marks!Exists(d) \cup {None}
           /\ Marks!Above(d, n) \subseteq Marks!Exists(d)
<1>1. ASSUME NEW m \in Marks!Exists(d)
      PROVE  Marks!ParentRef(d, m) \in Marks!Exists(d) \cup {None}
  BY <1>1 DEF Tree, HomeClosed, Marks!ParentRef, Marks!Exists
<1>2. n \in Anyone /\ d \in Pages
  BY DEF Marks!Exists, Anyone, Marks!All, Tree
<1>3. Closed(d, Marks!Exists(d))
  BY <1>1 DEF Closed
<1> QED BY <1>1, <1>2, <1>3, AboveLeast

(* Only home and fixed make the tree.                                      *)
LEMMA SameTree ==
    ASSUME NEW d, Tree(d), NEW e, e \in Pages, e.home = d.home, e.fixed = d.fixed
    PROVE  /\ Tree(e) /\ Marks!Exists(e) = Marks!Exists(d)
           /\ \A n : Marks!ParentRef(e, n) = Marks!ParentRef(d, n)
           /\ \A n \in Anyone : Marks!Above(e, n) = Marks!Above(d, n)
<1>1. Marks!Exists(e) = Marks!Exists(d)
  BY DEF Marks!Exists
<1>2. \A n : Marks!ParentRef(e, n) = Marks!ParentRef(d, n)
  BY DEF Marks!ParentRef
<1>3. \A n \in Anyone : Marks!Above(e, n) = Marks!Above(d, n)
  BY <1>2, SameAbove DEF Tree
<1>4. Tree(e)
  BY <1>1 DEF Tree, Rooted, HomeClosed
<1> QED BY <1>1, <1>2, <1>3, <1>4

(* What a handler does without hanging or hiding anything: e has more that *)
(* is dirty and the parent of what became dirty is dirty as well, the      *)
(* changed nodes T are dirty, and so is what is marked; a new mark queues  *)
(* the page.                                                               *)
Marking(d, e, T) ==
    /\ e \in Pages
    /\ e.home = d.home /\ e.fixed = d.fixed /\ e.hidden = d.hidden /\ e.fresh = d.fresh
    /\ d.dirty \subseteq e.dirty /\ e.dirty \subseteq d.dirty \cup Marks!Exists(d)
    /\ \A m \in e.dirty \ d.dirty : Marks!ParentRef(d, m) \in e.dirty \cup {None}
    /\ e.stale \subseteq d.stale \cup T /\ T \subseteq e.dirty
    /\ e.marked \subseteq d.marked \cup e.dirty
    /\ d.toLayout => e.toLayout
    /\ e.toLayout \/ e.marked \subseteq d.marked

LEMMA MarkingTree ==
    ASSUME NEW d, NEW e, NEW T, Tree(d), Marking(d, e, T)
    PROVE  /\ Tree(e) /\ Marks!Exists(e) = Marks!Exists(d)
           /\ \A n : Marks!ParentRef(e, n) = Marks!ParentRef(d, n)
           /\ \A n \in Anyone : Marks!Above(e, n) = Marks!Above(d, n)
  BY SameTree DEF Marking

LEMMA MarkingComposes ==
    ASSUME NEW d, NEW e, NEW f, NEW T, NEW U, Tree(d), Marking(d, e, T), Marking(e, f, U)
    PROVE  Marking(d, f, T \cup U)
<1>1. /\ Marks!Exists(e) = Marks!Exists(d)
      /\ \A n : Marks!ParentRef(e, n) = Marks!ParentRef(d, n)
  BY MarkingTree
<1> QED BY <1>1 DEF Marking

(* markDirty goes up as far as something dirty: what it passes and does    *)
(* not get to has it above.                                                *)
LEMMA DirtiedMarking ==
    ASSUME NEW d, Tree(d), NEW S \in SUBSET Marks!Exists(d)
    PROVE  /\ Marking(d, Marks!markDirty(d, S), {})
           /\ S \subseteq Marks!markDirty(d, S).dirty
           /\ Marks!markDirty(d, S).marked = d.marked
           /\ Marks!markDirty(d, S).stale = d.stale
           /\ Marks!markDirty(d, S).toLayout = d.toLayout
<1> DEFINE path(n) == {n} \cup Marks!Above(d, n)
           beyond(n) == UNION {Marks!Above(d, m) : m \in path(n) \cap d.dirty}
           T == UNION {path(n) \ beyond(n) : n \in S}
           e == [d EXCEPT !.dirty = @ \cup T]
<1>1. Marks!markDirty(d, S) = e
  BY DEF Marks!markDirty
<1>2. ASSUME NEW n \in S
      PROVE  n \in Anyone /\ path(n) \subseteq Marks!Exists(d) /\ path(n) \subseteq Anyone
  BY AboveExists DEF Marks!Exists, Anyone, Marks!All
<1>3. T \subseteq Marks!Exists(d) /\ T \subseteq Anyone
  BY <1>2
<1>4. S \subseteq T
  <2> SUFFICES ASSUME NEW n \in S PROVE n \notin beyond(n)
    OBVIOUS
  <2> SUFFICES ASSUME NEW m \in path(n), n \in Marks!Above(d, m) PROVE FALSE
    OBVIOUS
  <2>1. d \in Pages /\ Rooted(d) /\ n \in Anyone
    BY <1>2 DEF Tree
  <2>2. n \in Marks!Above(d, n)
    BY <2>1, AboveTransitive
  <2> QED BY <2>1, <2>2, AboveAcyclic
<1>5. ASSUME NEW m \in T, m \notin d.dirty
      PROVE  Marks!ParentRef(d, m) \in d.dirty \cup T \cup {None}
  <2> DEFINE p == Marks!ParentRef(d, m)
  <2> SUFFICES ASSUME p # None PROVE p \in d.dirty \cup T
    OBVIOUS
  <2>1. PICK n \in S : m \in path(n) /\ m \notin beyond(n)
    OBVIOUS
  <2>2. d \in Pages /\ Rooted(d) /\ n \in Anyone /\ m \in Anyone
    BY <1>2, <2>1 DEF Tree
  <2>3. p \in path(n)
    BY <2>1, <2>2, AboveLeast DEF Closed
  <2>4. CASE p \notin beyond(n)
    BY <2>3, <2>4
  <2>5. CASE p \in beyond(n)
    <3>1. PICK x \in path(n) \cap d.dirty : p \in Marks!Above(d, x)
      BY <2>5
    <3>2. m \notin Marks!Above(d, x) /\ m # x
      BY <2>1, <1>5
    <3>3. x \in Marks!Above(d, m)
      BY <2>1, <2>2, <3>2, AboveLinear
    <3>4. x = p \/ x \in Marks!Above(d, p)
      BY <2>2, <3>3, AboveUnfolds
    <3>5. CASE x \in Marks!Above(d, p)
      <4>1. p \in Anyone
        BY <2>2, ParentWithin
      <4>2. p \in Marks!Above(d, p)
        BY <2>2, <3>1, <3>5, <4>1, AboveTransitive
      <4> QED BY <2>2, <4>1, <4>2, AboveAcyclic
    <3> QED BY <3>1, <3>4, <3>5
  <2> QED BY <2>4, <2>5
<1> HIDE DEF T
<1>6. e \in Pages /\ e.dirty = d.dirty \cup T
  BY <1>3 DEF Tree, Pages
<1>7. Marking(d, e, {})
  BY <1>3, <1>5, <1>6 DEF Marking, Pages
<1> QED BY <1>1, <1>4, <1>6, <1>7 DEF Pages, Tree

LEMMA SetMarking ==
    ASSUME NEW d, Tree(d), NEW S, S \subseteq Anyone
    PROVE  /\ S \subseteq d.dirty => Marking(d, Marks!SetLayoutDirty(d, S), {})
           /\ Marks!SetLayoutDirty(d, S).toLayout \/ S \subseteq d.marked
           /\ Marks!SetLayoutDirty(d, S).dirty = d.dirty
           /\ Marks!SetLayoutDirty(d, S).marked = d.marked \cup S
<1> DEFINE e == Marks!SetLayoutDirty(d, S)
<1>1. /\ e = [d EXCEPT !.marked = d.marked \cup S, !.toLayout = e.toLayout]
      /\ e.toLayout \in BOOLEAN /\ (d.toLayout => e.toLayout)
      /\ e.toLayout \/ S \subseteq d.marked
  BY DEF Marks!SetLayoutDirty, Tree, Pages
<1> HIDE DEF e
<1>2. /\ e \in Pages /\ e.marked = d.marked \cup S /\ e.dirty = d.dirty
      /\ e.home = d.home /\ e.fixed = d.fixed /\ e.hidden = d.hidden /\ e.fresh = d.fresh
      /\ e.stale = d.stale
  BY <1>1 DEF Tree, Pages
<1>3. S \subseteq d.dirty => Marking(d, e, {})
  BY <1>1, <1>2 DEF Marking
<1> QED BY <1>1, <1>2, <1>3 DEF e

LEMMA CheckedMarking ==
    ASSUME NEW d, Tree(d), NEW S
    PROVE  /\ Marking(d, Marks!CheckIfYGDirty(d, S), {})
           /\ Marks!CheckIfYGDirty(d, S).toLayout \/ S \cap d.dirty \subseteq d.marked
           /\ Marks!CheckIfYGDirty(d, S).dirty = d.dirty
<1>1. S \cap d.dirty \subseteq Anyone
  BY DEF Tree, Pages
<1> QED BY <1>1, SetMarking DEF Marks!CheckIfYGDirty

LEMMA ChangedMarking ==
    ASSUME NEW d, Tree(d), NEW S, S \subseteq d.dirty
    PROVE  /\ Marking(d, Marks!Changed(d, S), S)
           /\ Marks!Changed(d, S).dirty = d.dirty /\ Marks!Changed(d, S).marked = d.marked
           /\ Marks!Changed(d, S).toLayout = d.toLayout
<1> DEFINE e == Marks!Changed(d, S)
<1>1. e = [d EXCEPT !.stale = d.stale \cup S]
  BY DEF Marks!Changed
<1> HIDE DEF e
<1>2. /\ e \in Pages /\ e.marked = d.marked /\ e.dirty = d.dirty
      /\ e.home = d.home /\ e.fixed = d.fixed /\ e.hidden = d.hidden /\ e.fresh = d.fresh
      /\ e.stale = d.stale \cup S /\ e.toLayout = d.toLayout
  BY <1>1 DEF Tree, Pages
<1>3. Marking(d, e, S)
  BY <1>2 DEF Marking
<1> QED BY <1>2, <1>3 DEF e

LEMMA DrawnMarking ==
    ASSUME NEW d, Tree(d), NEW S, S \subseteq Anyone
    PROVE  /\ Marking(d, Marks!SetDrawDirty(d, S), {})
           /\ Marks!SetDrawDirty(d, S).dirty = d.dirty
           /\ Marks!SetDrawDirty(d, S).marked = d.marked
           /\ Marks!SetDrawDirty(d, S).toLayout = d.toLayout
<1> DEFINE e == Marks!SetDrawDirty(d, S)
<1>1. e = [d EXCEPT !.drawn = d.drawn \cup S, !.toPaint = d.toPaint \cup (S \ d.drawn)]
  BY DEF Marks!SetDrawDirty
<1> HIDE DEF e
<1>2. /\ e \in Pages /\ e.marked = d.marked /\ e.dirty = d.dirty
      /\ e.home = d.home /\ e.fixed = d.fixed /\ e.hidden = d.hidden /\ e.fresh = d.fresh
      /\ e.stale = d.stale /\ e.toLayout = d.toLayout
  BY <1>1 DEF Tree, Pages
<1>3. Marking(d, e, {})
  BY <1>2 DEF Marking
<1> QED BY <1>2, <1>3 DEF e

(* A mark taken off and set at once always queues the page.                *)
LEMMA ContextMarking ==
    ASSUME NEW d, Tree(d), NEW n \in d.dirty
    PROVE  /\ Marking(d, Marks!createContextRecursively(d, n), {})
           /\ Marks!createContextRecursively(d, n).toLayout
           /\ Marks!createContextRecursively(d, n).dirty = d.dirty
<1> DEFINE c == Marks!ClearLayoutDirty(d, {n})
           e == Marks!SetLayoutDirty(c, {n})
<1>1. c = [d EXCEPT !.marked = d.marked \ {n}]
  BY DEF Marks!ClearLayoutDirty
<1>2. e = [c EXCEPT !.marked = c.marked \cup {n}, !.toLayout = c.toLayout \/ ~({n} \subseteq c.marked)]
  BY DEF Marks!SetLayoutDirty
<1> HIDE DEF c, e
<1>3. /\ c \in Pages /\ c.marked = d.marked \ {n} /\ c.dirty = d.dirty
      /\ c.home = d.home /\ c.fixed = d.fixed /\ c.hidden = d.hidden /\ c.fresh = d.fresh
      /\ c.stale = d.stale /\ n \in Anyone
  BY <1>1 DEF Tree, Pages
<1>4. /\ e.marked = c.marked \cup {n} /\ e.dirty = c.dirty /\ e.toLayout = TRUE
      /\ e.home = c.home /\ e.fixed = c.fixed /\ e.hidden = c.hidden /\ e.fresh = c.fresh
      /\ e.stale = c.stale
  BY <1>2, <1>3 DEF Pages
<1>5. e \in Pages
  BY <1>2, <1>3, <1>4 DEF Pages
<1>6. Marking(d, e, {})
  BY <1>3, <1>4, <1>5 DEF Marking
<1>7. Marks!createContextRecursively(d, n) = e
  BY DEF Marks!createContextRecursively, c, e
<1> QED BY <1>3, <1>4, <1>6, <1>7

(* A style that is new is looked at; an old one only marks who is dirty.   *)
LEMMA StyledMarking ==
    ASSUME NEW d, Tree(d), NEW n \in Marks!Exists(d), NEW isNew \in BOOLEAN
    PROVE  LET e == Marks!SetStyle(d, n, isNew)
           IN  /\ Marking(d, e, IF isNew THEN {n} ELSE {})
               /\ isNew => n \in e.dirty
               /\ n \in e.dirty => e.toLayout \/ n \in d.marked
<1>1. CASE isNew
  <2> DEFINE a == Marks!markDirty(d, {n})
             b == Marks!Changed(a, {n})
             e == Marks!CheckIfYGDirty(b, {n})
  <2>1. /\ Marking(d, a, {}) /\ n \in a.dirty /\ a.marked = d.marked
    BY DirtiedMarking
  <2> HIDE DEF a
  <2>2. Tree(a) BY <2>1, MarkingTree
  <2>3. Marking(a, b, {n}) /\ b.dirty = a.dirty /\ b.marked = a.marked
    BY <2>1, <2>2, ChangedMarking
  <2>4. Tree(b) BY <2>2, <2>3, MarkingTree
  <2> HIDE DEF b
  <2>5. Marking(b, e, {}) /\ e.dirty = b.dirty /\ (e.toLayout \/ {n} \cap b.dirty \subseteq b.marked)
    BY <2>4, CheckedMarking
  <2>6. Marking(d, b, {n})
    <3>1. Marking(d, b, {} \cup {n}) BY <2>1, <2>3, MarkingComposes
    <3>2. {} \cup {n} = {n} OBVIOUS
    <3> QED BY <3>1, <3>2
  <2> HIDE DEF e
  <2>7. Marking(d, e, {n})
    <3>1. Marking(d, e, {n} \cup {}) BY <2>5, <2>6, MarkingComposes
    <3>2. {n} \cup {} = {n} OBVIOUS
    <3> QED BY <3>1, <3>2
  <2>8. Marks!SetStyle(d, n, isNew) = e
    BY <1>1 DEF Marks!SetStyle, e, b, a
  <2> QED BY <1>1, <2>1, <2>3, <2>5, <2>7, <2>8
<1>2. CASE ~isNew
  <2>1. Marks!SetStyle(d, n, isNew) = Marks!CheckIfYGDirty(d, {n})
    BY <1>2 DEF Marks!SetStyle
  <2> QED BY <1>2, <2>1, CheckedMarking
<1> QED BY <1>1, <1>2

(* Children come and go in Yoga's tree.                                    *)
LEMMA RehungMarking ==
    ASSUME NEW d, Tree(d), NEW n \in Marks!Exists(d) \ {Root}
    PROVE  /\ Marks!ParentRef(d, n) \in Marks!Exists(d)
           /\ Marking(d, Marks!insertChild(d, n), {})
           /\ Marks!ParentRef(d, n) \in Marks!insertChild(d, n).dirty
           /\ Marks!insertChild(d, n).marked = d.marked
           /\ Marking(d, Marks!removeChild(d, n), {})
           /\ Marks!ParentRef(d, n) \in Marks!removeChild(d, n).dirty
           /\ Marks!removeChild(d, n).marked = d.marked
           /\ Marks!removeChild(d, n).toLayout = d.toLayout
           /\ Marks!removeChild(d, n).stale = d.stale
<1>1. n \in Anyone /\ Marks!ParentRef(d, n) \in Marks!Exists(d)
  <2>1. Root # None /\ None \notin RenderNodes
    BY MarksAssumption DEF Marks!ConstantsApart
  <2> QED BY <2>1, AboveExists DEF Marks!Exists, Marks!ParentRef, Anyone, Marks!All
<1> DEFINE e == Marks!markDirty(d, {Marks!ParentRef(d, n)})
           r == [e EXCEPT !.cold = e.cold \cup {n}]
<1>2. /\ Marking(d, e, {}) /\ Marks!ParentRef(d, n) \in e.dirty /\ e.marked = d.marked
      /\ e.stale = d.stale /\ e.toLayout = d.toLayout
  BY <1>1, DirtiedMarking
<1>3. Marks!insertChild(d, n) = e /\ Marks!removeChild(d, n) = r
  BY DEF Marks!insertChild, Marks!removeChild
<1> HIDE DEF e
<1>4. Marking(d, r, {}) /\ r.dirty = e.dirty /\ r.marked = e.marked /\ r.toLayout = e.toLayout
      /\ r.stale = e.stale
  <2>1. r \in Pages
    BY <1>1, <1>2 DEF Marking, Pages
  <2>2. /\ r.home = e.home /\ r.fixed = e.fixed /\ r.hidden = e.hidden /\ r.fresh = e.fresh
        /\ r.stale = e.stale /\ r.marked = e.marked /\ r.toLayout = e.toLayout
        /\ r.dirty = e.dirty
    BY <1>2 DEF Marking, Pages
  <2> HIDE DEF r
  <2> QED BY <1>2, <2>1, <2>2 DEF Marking
<1> QED BY <1>1, <1>2, <1>3, <1>4

(* Layout comes by, or will when it is asked for.  Of K are all nodes that *)
(* may be dirty or stale: the parent of one is dirty, so that Yoga visits  *)
(* it, or hides it, or is of K as well and the node waits with a new       *)
(* layout.  The parent of a marked one is hidden or of K, and asks it.     *)
(* The nodes in X have been hung elsewhere, and Yoga is not told yet.      *)
Covers(d, K, X) ==
    /\ d.dirty \cup d.stale \subseteq K
    /\ \A m \in d.dirty \ X : Marks!ParentRef(d, m) \in d.dirty \cup d.hidden \cup {None}
    /\ \A m \in K \ X :
          \/ Marks!ParentRef(d, m) \in d.dirty \cup d.hidden \cup {None}
          \/ m \in d.fresh /\ Marks!ParentRef(d, m) \in K
    /\ \A m \in d.marked \ X : Marks!ParentRef(d, m) \in d.hidden \cup K \cup {None}

Orderly(d, X) ==
    /\ Tree(d)
    /\ d.marked \subseteq Marks!Exists(d)
    /\ \E K \in SUBSET Marks!Exists(d) : Covers(d, K, X)

LEMMA MarkingOrderly ==
    ASSUME NEW d, NEW X, NEW e, NEW T, Orderly(d, X), Marking(d, e, T)
    PROVE  Orderly(e, X)
<1>1. Tree(d) /\ d.marked \subseteq Marks!Exists(d)
  BY DEF Orderly
<1>2. PICK K \in SUBSET Marks!Exists(d) : Covers(d, K, X)
  BY DEF Orderly
<1>3. /\ Tree(e) /\ Marks!Exists(e) = Marks!Exists(d)
      /\ \A n : Marks!ParentRef(e, n) = Marks!ParentRef(d, n)
  BY <1>1, MarkingTree
<1> DEFINE L == K \cup e.dirty
<1>4. e.dirty \subseteq Marks!Exists(d)
  BY <1>2 DEF Marking, Covers
<1>5. L \in SUBSET Marks!Exists(e) /\ e.marked \subseteq Marks!Exists(e)
  BY <1>1, <1>3, <1>4 DEF Marking
<1>6. \A m \in e.dirty \ X : Marks!ParentRef(e, m) \in e.dirty \cup e.hidden \cup {None}
  BY <1>2, <1>3 DEF Marking, Covers
<1>7. e.dirty \cup e.stale \subseteq L
  BY <1>2 DEF Marking, Covers
<1>8. \A m \in L \ X :
          \/ Marks!ParentRef(e, m) \in e.dirty \cup e.hidden \cup {None}
          \/ m \in e.fresh /\ Marks!ParentRef(e, m) \in L
  BY <1>2, <1>3, <1>6 DEF Marking, Covers
<1>9. \A m \in e.marked \ X : Marks!ParentRef(e, m) \in e.hidden \cup L \cup {None}
  BY <1>2, <1>3, <1>6 DEF Marking, Covers
<1>10. Covers(e, L, X)
  BY <1>6, <1>7, <1>8, <1>9 DEF Covers
<1> QED BY <1>3, <1>5, <1>10 DEF Orderly

(* Nodes are hung elsewhere (X), hidden, shown or taken away.              *)
LEMMA HungOrderly ==
    ASSUME NEW d, NEW e, NEW X, Orderly(d, {}), Tree(e),
           \A m \in (Marks!Exists(d) \cap Marks!Exists(e)) \ X :
               Marks!ParentRef(e, m) = Marks!ParentRef(d, m),
           e.dirty = d.dirty \cap Marks!Exists(e),
           e.stale \subseteq d.stale \cap Marks!Exists(e),
           e.marked \subseteq d.marked \cap Marks!Exists(e),
           d.fresh \cap Marks!Exists(e) \subseteq e.fresh,
           d.hidden \cap Marks!Exists(e) \subseteq e.hidden \cup d.dirty
    PROVE  Orderly(e, X)
<1>1. PICK K \in SUBSET Marks!Exists(d) : Covers(d, K, {})
  BY DEF Orderly
<1> DEFINE L == K \cap Marks!Exists(e)
<1>2. \A m \in Marks!Exists(e) : Marks!ParentRef(e, m) \in Marks!Exists(e) \cup {None}
  BY AboveExists
<1>3. e.marked \subseteq Marks!Exists(d)
  BY DEF Orderly
<1>4. e.dirty \cup e.stale \subseteq L
  BY <1>1 DEF Covers
<1>5. \A m \in e.dirty \ X : Marks!ParentRef(e, m) \in e.dirty \cup e.hidden \cup {None}
  BY <1>1, <1>2 DEF Covers
<1>6. ASSUME NEW m \in L \ X
      PROVE  \/ Marks!ParentRef(e, m) \in e.dirty \cup e.hidden \cup {None}
             \/ m \in e.fresh /\ Marks!ParentRef(e, m) \in L
  BY <1>1, <1>2 DEF Covers
<1>7. ASSUME NEW m \in e.marked \ X
      PROVE  Marks!ParentRef(e, m) \in e.hidden \cup L \cup {None}
  BY <1>1, <1>2, <1>3 DEF Covers
<1>8. Covers(e, L, X)
  BY <1>4, <1>5, <1>6, <1>7 DEF Covers
<1> QED BY <1>8 DEF Orderly

(* Once its new parent is dirty, a node that was hung elsewhere is like    *)
(* the others.                                                             *)
LEMMA HungSettles ==
    ASSUME NEW d, NEW n, Orderly(d, {n}), Marks!ParentRef(d, n) \in d.dirty
    PROVE  Orderly(d, {})
<1>1. PICK K \in SUBSET Marks!Exists(d) : Covers(d, K, {n})
  BY DEF Orderly
<1>2. Covers(d, K, {})
  BY <1>1 DEF Covers
<1> QED BY <1>2 DEF Orderly

-----------------------------------------------------------------------------
(* LayoutAwaited and MarksQueued.                                          *)
LayoutDue(d) == \A n \in d.stale \cup d.marked : Marks!Reached(d, n) => d.toLayout

MarksInv(d) == Orderly(d, {}) /\ LayoutDue(d)

LEMMA MarksInit == Marks!Init => MarksInv(page)
<1> SUFFICES ASSUME Marks!Init PROVE MarksInv(page)
  OBVIOUS
<1>1. None \notin RenderNodes /\ Root # None
  BY MarksAssumption DEF Marks!ConstantsApart
<1>2. page \in Pages /\ page.home = [n \in RenderNodes |-> None]
  BY DEF Marks!Init, Pages, Anyone, Marks!All
<1>3. Rooted(page)
  BY <1>1, <1>2 DEF Rooted
<1>4. HomeClosed(page)
  BY <1>2 DEF HomeClosed
<1>5. Covers(page, {}, {}) /\ page.marked = {} /\ page.stale = {}
  BY DEF Marks!Init, Covers
<1>6. Orderly(page, {})
  BY <1>2, <1>3, <1>4, <1>5 DEF Orderly, Tree
<1> QED BY <1>5, <1>6 DEF MarksInv, LayoutDue

(* Who is not reached stays out of reach, and is all that is changed while *)
(* no layout is asked for.                                                 *)
LEMMA StillAwaited ==
    ASSUME NEW d, NEW e, LayoutDue(d),
           e.toLayout \/ ( /\ ~d.toLayout
                           /\ \A m \in e.stale \cup e.marked :
                                 Marks!Reached(e, m) =>
                                    Marks!Reached(d, m) /\ m \in d.stale \cup d.marked )
    PROVE  LayoutDue(e)
  BY DEF LayoutDue

LEMMA OrderlyWithin ==
    ASSUME NEW d, Orderly(d, {})
    PROVE  /\ d \in Pages /\ Tree(d)
           /\ d.dirty \subseteq Marks!Exists(d) /\ d.stale \subseteq Marks!Exists(d)
           /\ d.marked \subseteq Marks!Exists(d)
  BY DEF Orderly, Covers, Tree

LEMMA RootApart == Root # None /\ None \notin RenderNodes /\ Root \notin RenderNodes
  BY MarksAssumption DEF Marks!ConstantsApart

LEMMA AppendMarks ==
    ASSUME MarksInv(page), NEW n \in RenderNodes, NEW p \in Marks!All,
           Marks!AppendTaroNode(n, p)
    PROVE  MarksInv(page')
  <1>1. PICK fix \in BOOLEAN, hide \in BOOLEAN :
          LET new == [page EXCEPT !.home[n] = p, !.cold = @ \cup {n},
                          !.fixed = IF fix THEN @ \cup {n} ELSE @,
                          !.hidden = IF hide THEN @ \cup {n} ELSE @]
              built == Marks!SetDrawDirty(Marks!SetStyle(Marks!insertChild(new, n), n, TRUE),
                                    {n} \cap Painted)
          IN  page' = Marks!Changed(IF fix THEN Marks!createContextRecursively(built, n)
                                    ELSE built,
                              {Marks!ParentRef(new, n)})
    BY DEF Marks!AppendTaroNode, Marks!MayFix, Marks!MayHide
  <1> DEFINE new == [page EXCEPT !.home[n] = p, !.cold = @ \cup {n},
                         !.fixed = IF fix THEN @ \cup {n} ELSE @,
                         !.hidden = IF hide THEN @ \cup {n} ELSE @]
             hung == Marks!insertChild(new, n)
             styled == Marks!SetStyle(hung, n, TRUE)
             built == Marks!SetDrawDirty(styled, {n} \cap Painted)
             ready == IF fix THEN Marks!createContextRecursively(built, n) ELSE built
             q == Marks!ParentRef(new, n)
  <1>2. /\ page.home[n] = None /\ p \in Marks!Exists(page) /\ Orderly(page, {})
        /\ page \in Pages /\ Rooted(page) /\ HomeClosed(page)
    BY DEF Marks!AppendTaroNode, Marks!CanHold, MarksInv, Orderly, Tree
  <1>3. new \in Pages
    <2>1. page \in Pages /\ n \in Anyone /\ p \in Anyone
      BY <1>2 DEF Anyone, Marks!All
    <2> QED BY <2>1 DEF Pages
  <1>4. /\ new.home = [page.home EXCEPT ![n] = p]
        /\ new.home[n] = p /\ \A m \in RenderNodes \ {n} : new.home[m] = page.home[m]
        /\ new.dirty = page.dirty /\ new.stale = page.stale /\ new.marked = page.marked
        /\ new.fresh = page.fresh /\ page.hidden \subseteq new.hidden
        /\ \A m : m # n => (m \in new.fixed <=> m \in page.fixed)
    BY <1>2 DEF Pages
  <1> HIDE DEF new
  <1>5. /\ n # p /\ n \notin Marks!Exists(page)
        /\ Marks!Exists(new) = Marks!Exists(page) \cup {n}
    BY <1>2, <1>4, RootApart DEF Marks!Exists, Marks!All
  <1>6. \A m \in RenderNodes : page.home[m] # n
    BY <1>2, <1>5, RootApart DEF HomeClosed
  <1>7. Rooted(new)
    <2> SUFFICES ASSUME NEW S \in SUBSET RenderNodes, \A m \in S : new.home[m] \in S
                 PROVE  S = {}
      BY DEF Rooted
    <2>1. S \ {n} = {}
      <3>1. \A m \in S \ {n} : page.home[m] \in S \ {n}
        BY <1>4, <1>6
      <3> QED BY <1>2, <3>1 DEF Rooted
    <2> QED BY <1>4, <1>5, <2>1
  <1>8. HomeClosed(new)
    BY <1>2, <1>4, <1>5 DEF HomeClosed
  <1>9. Tree(new)
    BY <1>3, <1>7, <1>8 DEF Tree
  <1>10. \A m \in Marks!Exists(page) : Marks!ParentRef(new, m) = Marks!ParentRef(page, m)
    BY <1>4, <1>5 DEF Marks!ParentRef, Marks!Exists
  <1>11. Orderly(new, {n})
    <2>1. /\ page.dirty \subseteq Marks!Exists(new) /\ page.stale \subseteq Marks!Exists(new)
          /\ page.marked \subseteq Marks!Exists(new)
      BY <1>2, <1>5, OrderlyWithin
    <2> QED BY <1>2, <1>4, <1>9, <1>10, <2>1, HungOrderly
  <1>12. n \in Marks!Exists(new) \ {Root} /\ {n} \cap Painted \subseteq Anyone
    BY <1>5, RootApart DEF Anyone, Marks!All
  <1>13. Marking(new, hung, {}) /\ q \in hung.dirty /\ hung.marked = page.marked
    BY <1>4, <1>9, <1>12, RehungMarking
  <1> HIDE DEF hung
  <1>14. Orderly(hung, {}) /\ Tree(hung) /\ n \in Marks!Exists(hung)
    <2>1. Orderly(hung, {n})
      BY <1>11, <1>13, MarkingOrderly
    <2>2. /\ Marks!ParentRef(hung, n) = q
          /\ Tree(hung) /\ Marks!Exists(hung) = Marks!Exists(new)
      BY <1>9, <1>13, MarkingTree
    <2> QED BY <1>12, <1>13, <2>1, <2>2, HungSettles
  <1>15. /\ Marking(hung, styled, {n}) /\ n \in styled.dirty
         /\ styled.toLayout \/ n \in hung.marked
    BY <1>14, StyledMarking
  <1>16. styled.toLayout
    BY <1>2, <1>5, <1>13, <1>15, OrderlyWithin
  <1> HIDE DEF styled
  <1>17. Orderly(styled, {}) /\ Tree(styled) /\ q \in styled.dirty
    <2>1. hung.dirty \subseteq styled.dirty
      BY <1>15 DEF Marking
    <2> QED BY <1>13, <1>14, <1>15, <2>1, MarkingOrderly, MarkingTree
  <1>18. Marking(styled, built, {}) /\ built.dirty = styled.dirty /\ built.toLayout
    BY <1>12, <1>16, <1>17, DrawnMarking
  <1> HIDE DEF built
  <1>19. Orderly(built, {}) /\ Tree(built)
    BY <1>17, <1>18, MarkingOrderly, MarkingTree
  <1>20. Orderly(ready, {}) /\ Tree(ready) /\ ready.toLayout /\ ready.dirty = styled.dirty
    <2>1. CASE fix
      <3>1. n \in built.dirty
        BY <1>15, <1>18
      <3>2. /\ Marking(built, ready, {}) /\ ready.toLayout /\ ready.dirty = built.dirty
        BY <2>1, <1>19, <3>1, ContextMarking
      <3> HIDE DEF ready
      <3> QED BY <1>18, <1>19, <3>2, MarkingOrderly, MarkingTree
    <2>2. CASE ~fix
      BY <2>2, <1>18, <1>19
    <2> QED BY <2>1, <2>2
  <1> HIDE DEF ready
  <1>21. page' = Marks!Changed(ready, {q})
    BY <1>1 DEF ready, built, styled, hung, new
  <1>22. Marking(ready, page', {q}) /\ page'.toLayout
    BY <1>17, <1>20, <1>21, ChangedMarking
  <1>23. Orderly(page', {})
    BY <1>20, <1>22, MarkingOrderly
  <1> QED BY <1>22, <1>23 DEF MarksInv, LayoutDue

AvoidsAll == {"clean", "stranded", "marked", "detached"} \subseteq AvoidedMarks

(* An element taken into one that is not in it keeps the elements rooted.  *)
LEMMA MovedRooted ==
    ASSUME NEW d, Tree(d), NEW n \in RenderNodes, NEW p \in Marks!Exists(d),
           p \notin {n} \cup Marks!Descendants(d, n),
           NEW e, e.home = [d.home EXCEPT ![n] = p]
    PROVE  Rooted(e)
<1> DEFINE flat == [d EXCEPT !.fixed = {}]
<1>1. flat \in Pages /\ flat.home = d.home /\ flat.fixed = {}
  BY DEF Tree, Pages
<1>2. Marks!Descendants(d, n) = {m \in Marks!Exists(flat) : n \in Marks!Above(flat, m)}
  BY DEF Marks!Descendants, Marks!Below
<1> HIDE DEF flat
<1>3. p \in Marks!Exists(flat) /\ p \in Anyone
  BY <1>1 DEF Marks!Exists, Anyone, Marks!All
<1>4. n \notin {p} \cup Marks!Above(flat, p)
  BY <1>2, <1>3
<1>5. ASSUME NEW m \in RenderNodes PROVE Marks!ParentRef(flat, m) = d.home[m]
  BY <1>1, RootApart DEF Marks!ParentRef
<1>6. ASSUME NEW m \in RenderNodes, m # n PROVE e.home[m] = d.home[m]
  BY <1>6 DEF Tree, Pages
<1>7. e.home[n] = p
  BY DEF Tree, Pages
<1> SUFFICES ASSUME NEW S \in SUBSET RenderNodes, \A m \in S : e.home[m] \in S PROVE S = {}
  BY DEF Rooted
<1>8. CASE n \notin S
  BY <1>6, <1>8 DEF Tree, Rooted
<1>9. CASE n \in S
  <2> DEFINE U == S \cap ({p} \cup Marks!Above(flat, p))
  <2>1. p \in U
    BY <1>7, <1>9
  <2>2. ASSUME NEW m \in U PROVE d.home[m] \in U
    <3>1. m \in RenderNodes /\ m # n
      BY <1>4
    <3>2. d.home[m] \in S
      BY <1>6, <3>1
    <3>3. Marks!ParentRef(flat, m) \in Marks!Above(flat, p) \cup {None}
      BY <1>1, <1>3, AboveLeast DEF Closed
    <3>4. d.home[m] # None
      BY <3>2, RootApart
    <3> QED BY <1>5, <3>1, <3>2, <3>3, <3>4
  <2>3. U = {}
    <3>1. U \in SUBSET RenderNodes OBVIOUS
    <3> HIDE DEF U
    <3> QED BY <2>2, <3>1 DEF Tree, Rooted
  <2> QED BY <2>1, <2>3
<1> QED BY <1>8, <1>9

LEMMA MoveMarks ==
    ASSUME AvoidsAll, MarksInv(page), NEW n \in RenderNodes, NEW p \in Marks!All,
           Marks!MoveTaroNode(n, p)
    PROVE  MarksInv(page')
  <1> DEFINE out == Marks!removeChild(page, n)
             moved == [out EXCEPT !.home[n] = p]
             below == Marks!Descendants(page, n)
             hung == Marks!insertChild(moved, n)
             q == page.home[n]
  <1>1. PICK isNew \in BOOLEAN :
          /\ "clean" \in AvoidedMarks => isNew \/ n \in page.dirty
          /\ "stranded" \in AvoidedMarks => page.toLayout \/ n \notin page.marked
          /\ page' = Marks!CheckIfYGDirty(
                      Marks!Changed(Marks!SetStyle(hung, n, isNew), {n, p, q}), below)
    BY DEF Marks!MoveTaroNode
  <1> DEFINE styled == Marks!SetStyle(hung, n, isNew)
             changed == Marks!Changed(styled, {n, p, q})
  <1>2. /\ page.home[n] # None /\ n \notin page.fixed
        /\ p \in Marks!Exists(page) /\ p \notin {n} \cup below
    BY DEF Marks!MoveTaroNode, Marks!CanHold
  <1>3. Orderly(page, {}) /\ Tree(page) /\ page \in Pages
    BY OrderlyWithin DEF MarksInv
  <1>4. n \in Marks!Exists(page) \ {Root} /\ Marks!ParentRef(page, n) = q
    BY <1>2, RootApart DEF Marks!Exists, Marks!ParentRef
  <1>5. /\ Marking(page, out, {}) /\ q \in out.dirty /\ out.marked = page.marked
        /\ out.toLayout = page.toLayout
    BY <1>3, <1>4, RehungMarking
  <1> HIDE DEF out
  <1>6. Orderly(out, {}) /\ Tree(out) /\ Marks!Exists(out) = Marks!Exists(page)
        /\ out \in Pages
    BY <1>3, <1>5, MarkingOrderly, MarkingTree, OrderlyWithin
  <1>7. out.home = page.home /\ out.fixed = page.fixed /\ page.dirty \subseteq out.dirty
    BY <1>5 DEF Marking
  <1>8. p # None /\ p \in Anyone
    BY <1>2, RootApart DEF Marks!Exists, Anyone, Marks!All
  <1>9. moved \in Pages
    BY <1>6, <1>8 DEF Pages
  <1>10. /\ moved.home = [page.home EXCEPT ![n] = p]
         /\ moved.home[n] = p /\ \A m \in RenderNodes \ {n} : moved.home[m] = page.home[m]
         /\ moved.dirty = out.dirty /\ moved.stale = out.stale /\ moved.marked = out.marked
         /\ moved.fresh = out.fresh /\ moved.hidden = out.hidden /\ moved.fixed = out.fixed
         /\ moved.toLayout = out.toLayout
    BY <1>3, <1>6, <1>7 DEF Pages
  <1> HIDE DEF moved
  <1>11. Marks!Exists(moved) = Marks!Exists(page)
    BY <1>2, <1>8, <1>10 DEF Marks!Exists
  <1>12. Tree(moved)
    <2>1. Rooted(moved)
      BY <1>2, <1>3, <1>10, MovedRooted
    <2>2. HomeClosed(moved)
      BY <1>2, <1>3, <1>10, <1>11 DEF Tree, HomeClosed
    <2> QED BY <1>9, <2>1, <2>2 DEF Tree
  <1>13. Orderly(moved, {n})
    <2>1. \A m \in Marks!Exists(out) \ {n} :
             Marks!ParentRef(moved, m) = Marks!ParentRef(out, m)
      BY <1>7, <1>10 DEF Marks!ParentRef, Marks!Exists
    <2>2. /\ out.dirty \subseteq Marks!Exists(moved) /\ out.stale \subseteq Marks!Exists(moved)
          /\ out.marked \subseteq Marks!Exists(moved)
      BY <1>6, <1>11, OrderlyWithin
    <2> QED BY <1>6, <1>10, <1>12, <2>1, <2>2, HungOrderly
  <1>14. n \in Marks!Exists(moved) \ {Root} /\ Marks!ParentRef(moved, n) = p
    BY <1>2, <1>4, <1>7, <1>10, <1>11, RootApart DEF Marks!ParentRef
  <1>15. Marking(moved, hung, {}) /\ p \in hung.dirty /\ hung.marked = page.marked
    BY <1>5, <1>10, <1>12, <1>14, RehungMarking
  <1> HIDE DEF hung
  <1>16. Orderly(hung, {}) /\ Tree(hung) /\ n \in Marks!Exists(hung)
    <2>1. Orderly(hung, {n})
      BY <1>13, <1>15, MarkingOrderly
    <2>2. /\ Marks!ParentRef(hung, n) = p
          /\ Tree(hung) /\ Marks!Exists(hung) = Marks!Exists(moved)
      BY <1>12, <1>14, <1>15, MarkingTree
    <2> QED BY <1>14, <1>15, <2>1, <2>2, HungSettles
  <1>17. /\ Marking(hung, styled, IF isNew THEN {n} ELSE {})
         /\ isNew => n \in styled.dirty
         /\ n \in styled.dirty => styled.toLayout \/ n \in hung.marked
    BY <1>16, StyledMarking
  <1> HIDE DEF styled
  <1>18. /\ hung.dirty \subseteq styled.dirty /\ moved.dirty \subseteq hung.dirty
         /\ (moved.toLayout => hung.toLayout) /\ (hung.toLayout => styled.toLayout)
    BY <1>15, <1>17 DEF Marking
  <1>19. {n, p, q} \subseteq styled.dirty /\ styled.toLayout
    <2>1. n \in styled.dirty
      BY <1>1, <1>7, <1>10, <1>17, <1>18 DEF AvoidsAll
    <2> QED BY <1>1, <1>5, <1>10, <1>15, <1>17, <1>18, <2>1 DEF AvoidsAll
  <1>20. Orderly(styled, {}) /\ Tree(styled)
    BY <1>16, <1>17, MarkingOrderly, MarkingTree
  <1>21. Marking(styled, changed, {n, p, q}) /\ changed.toLayout
    BY <1>19, <1>20, ChangedMarking
  <1> HIDE DEF changed
  <1>22. Orderly(changed, {}) /\ Tree(changed)
    BY <1>20, <1>21, MarkingOrderly, MarkingTree
  <1>23. Marking(changed, page', {})
    BY <1>1, <1>22, CheckedMarking DEF changed, styled
  <1>24. page'.toLayout
    BY <1>21, <1>23 DEF Marking
  <1>25. Orderly(page', {})
    BY <1>22, <1>23, MarkingOrderly
  <1> QED BY <1>24, <1>25 DEF MarksInv, LayoutDue

(* What leaves the tree with n: nobody that stays hangs from it.           *)
LEMMA GoneTogether ==
    ASSUME NEW d, Tree(d), NEW n \in RenderNodes, d.home[n] # None,
           NEW gone, gone = {n} \cup Marks!Descendants(d, n)
    PROVE  /\ gone \subseteq RenderNodes /\ d.home[n] \notin gone
           /\ \A m \in RenderNodes \ gone : d.home[m] \notin gone
<1> DEFINE flat == [d EXCEPT !.fixed = {}]
<1>1. flat \in Pages /\ flat.home = d.home /\ flat.fixed = {}
  BY DEF Tree, Pages
<1>2. Marks!Descendants(d, n) = {m \in Marks!Exists(flat) : n \in Marks!Above(flat, m)}
  BY DEF Marks!Descendants, Marks!Below
<1> HIDE DEF flat
<1>3. ASSUME NEW m \in RenderNodes PROVE Marks!ParentRef(flat, m) = d.home[m] /\ m \in Anyone
  BY <1>1, RootApart DEF Marks!ParentRef, Anyone, Marks!All
<1>4. Rooted(flat)
  BY <1>1 DEF Tree, Rooted
<1>5. Root \notin gone
  <2>1. Marks!Above(flat, Root) = {}
    BY <1>1, AboveUnfolds DEF Marks!ParentRef, Anyone, Marks!All
  <2> QED BY <1>2, <2>1, RootApart
<1>6. gone \subseteq RenderNodes
  BY <1>1, <1>2, <1>5 DEF Marks!Exists
<1>7. d.home[n] \notin gone
  <2>1. d.home[n] \in Marks!Above(flat, n)
    BY <1>1, <1>3, AboveLeast
  <2>2. n \notin Marks!Above(flat, n)
    BY <1>1, <1>3, <1>4, AboveAcyclic
  <2>3. Marks!Above(flat, d.home[n]) \subseteq Marks!Above(flat, n)
    BY <1>1, <1>3, <2>1, AboveTransitive
  <2> QED BY <1>2, <2>1, <2>2, <2>3
<1>8. ASSUME NEW m \in RenderNodes \ gone, d.home[m] \in gone PROVE FALSE
  <2>1. m \in Marks!Exists(flat) /\ d.home[m] # None
    BY <1>1, <1>6, <1>8, RootApart DEF Marks!Exists
  <2>2. Marks!Above(flat, m) = {d.home[m]} \cup Marks!Above(flat, d.home[m])
    BY <1>1, <1>3, <2>1, AboveUnfolds
  <2>3. n \in Marks!Above(flat, m)
    BY <1>2, <1>8, <2>2
  <2> QED BY <1>2, <2>1, <2>3
<1> QED BY <1>6, <1>7, <1>8

LEMMA RemoveMarks ==
    ASSUME AvoidsAll, MarksInv(page), NEW n \in RenderNodes, Marks!RemoveTaroNode(n)
    PROVE  MarksInv(page')
  <1> DEFINE gone == {n} \cup Marks!Descendants(page, n)
             out == Marks!removeChild(page, n)
             left == [home |-> [m \in RenderNodes |-> IF m \in gone THEN None ELSE page.home[m]],
                      fixed |-> out.fixed \ gone, hidden |-> out.hidden \ gone,
                      marked |-> out.marked \ gone, drawn |-> out.drawn \ gone,
                      stale |-> out.stale \ gone, dirty |-> out.dirty \ gone,
                      cold |-> out.cold \ gone, fresh |-> out.fresh \ gone,
                      toLayout |-> out.toLayout, toPaint |-> out.toPaint \ gone]
             q == page.home[n]
             told == IF n \in page.fixed THEN left ELSE Marks!Changed(left, {q})
  <1>1. /\ page' = Marks!SetLayoutDirty(told, {q})
        /\ q # None
        /\ n \in page.fixed => q \in page.dirty \cup {Root}
    BY DEF Marks!RemoveTaroNode, Marks!ParentMarked, AvoidsAll
  <1>2. Orderly(page, {}) /\ Tree(page) /\ page \in Pages /\ HomeClosed(page) /\ Rooted(page)
    BY OrderlyWithin DEF MarksInv, Tree
  <1>3. /\ gone \subseteq RenderNodes /\ q \notin gone
        /\ \A m \in RenderNodes \ gone : page.home[m] \notin gone
    <2> HIDE DEF gone
    <2> QED BY <1>1, <1>2, GoneTogether DEF gone
  <1>4. n \in Marks!Exists(page) \ {Root} /\ n \in gone /\ q \in Marks!Exists(page)
    BY <1>1, <1>2, RootApart DEF Marks!Exists, HomeClosed
  <1>5. /\ Marking(page, out, {}) /\ Marks!ParentRef(page, n) \in out.dirty
        /\ out.marked = page.marked /\ out.stale = page.stale
        /\ out.toLayout = page.toLayout
    BY <1>2, <1>4, RehungMarking
  <1> HIDE DEF out, gone
  <1>6. Orderly(out, {}) /\ Tree(out) /\ Marks!Exists(out) = Marks!Exists(page)
        /\ out \in Pages
    BY <1>2, <1>5, MarkingOrderly, MarkingTree, OrderlyWithin
  <1>7. /\ out.home = page.home /\ out.fixed = page.fixed /\ page.dirty \subseteq out.dirty
        /\ out.hidden = page.hidden
    BY <1>5 DEF Marking
  <1>8. left \in Pages
    <2>1. \A m \in RenderNodes : page.home[m] \in Anyone
      BY <1>2 DEF Pages
    <2> QED BY <1>6, <2>1 DEF Pages, Anyone
  <1>9. /\ \A m \in RenderNodes : left.home[m] = IF m \in gone THEN None ELSE page.home[m]
        /\ left.fixed = page.fixed \ gone /\ left.hidden = page.hidden \ gone
        /\ left.marked = page.marked \ gone /\ left.stale = page.stale \ gone
        /\ left.dirty = out.dirty \ gone /\ left.fresh = out.fresh \ gone
        /\ left.toLayout = page.toLayout
    BY <1>5, <1>7
  <1> HIDE DEF left
  <1>10. Marks!Exists(left) = Marks!Exists(page) \ gone
    BY <1>3, <1>9, RootApart DEF Marks!Exists
  <1>11. Tree(left)
    <2>1. Rooted(left)
      <3> SUFFICES ASSUME NEW S \in SUBSET RenderNodes, \A m \in S : left.home[m] \in S
                   PROVE  S = {}
        BY DEF Rooted
      <3>1. \A m \in S : page.home[m] \in S
        BY <1>9, RootApart
      <3> QED BY <1>2, <3>1 DEF Rooted
    <2>2. HomeClosed(left)
      BY <1>2, <1>3, <1>9, <1>10 DEF HomeClosed
    <2> QED BY <1>8, <2>1, <2>2 DEF Tree
  <1>12. \A m \in Marks!Exists(left) : Marks!ParentRef(left, m) = Marks!ParentRef(page, m)
    BY <1>3, <1>9, <1>10 DEF Marks!ParentRef, Marks!Exists
  <1>13. Orderly(left, {})
    <2>1. \A m \in Marks!Exists(left) : Marks!ParentRef(left, m) = Marks!ParentRef(out, m)
      BY <1>7, <1>12 DEF Marks!ParentRef
    <2>2. /\ out.dirty \subseteq Marks!Exists(page) /\ out.stale \subseteq Marks!Exists(page)
          /\ out.marked \subseteq Marks!Exists(page)
      BY <1>6, OrderlyWithin
    <2>3. /\ left.dirty = out.dirty \cap Marks!Exists(left)
          /\ left.stale \subseteq out.stale \cap Marks!Exists(left)
          /\ left.marked \subseteq out.marked \cap Marks!Exists(left)
          /\ out.fresh \cap Marks!Exists(left) \subseteq left.fresh
          /\ out.hidden \cap Marks!Exists(left) \subseteq left.hidden
      BY <1>5, <1>7, <1>9, <1>10, <2>2
    <2> QED BY <1>6, <1>11, <2>1, <2>3, HungOrderly
  <1>14. q \in left.dirty
    BY <1>1, <1>3, <1>4, <1>5, <1>7, <1>9, RootApart DEF Marks!ParentRef
  <1>15. /\ Marking(left, told, {q}) /\ told.marked = left.marked
    <2>1. CASE n \in page.fixed
      BY <2>1, <1>8, <1>14 DEF Marking
    <2>2. CASE n \notin page.fixed
      BY <2>2, <1>11, <1>14, ChangedMarking
    <2> QED BY <2>1, <2>2
  <1> HIDE DEF told
  <1>16. Orderly(told, {}) /\ Tree(told) /\ {q} \subseteq told.dirty
    BY <1>11, <1>13, <1>15, MarkingOrderly, MarkingTree DEF Marking
  <1>17. {q} \subseteq Anyone
    BY <1>4 DEF Marks!Exists, Anyone, Marks!All
  <1>18. /\ Marking(told, page', {})
         /\ page'.toLayout \/ {q} \subseteq told.marked
         /\ page'.marked = told.marked \cup {q}
    BY <1>1, <1>16, <1>17, SetMarking
  <1>19. Marking(left, page', {q})
    <2>1. Marking(left, page', {q} \cup {})
      BY <1>11, <1>15, <1>18, MarkingComposes
    <2>2. {q} \cup {} = {q} OBVIOUS
    <2> QED BY <2>1, <2>2
  <1>20. Orderly(page', {})
    BY <1>16, <1>18, MarkingOrderly
  <1>21. LayoutDue(page')
    <2> SUFFICES ASSUME NEW m \in page'.stale \cup page'.marked, Marks!Reached(page', m),
                        ~page'.toLayout
                 PROVE  FALSE
      BY DEF LayoutDue
    <2>1. /\ Marks!Exists(page') = Marks!Exists(left)
          /\ Marks!Above(page', m) = Marks!Above(left, m)
          /\ m \in Marks!Exists(left) /\ m \in Anyone
      <3>1. Marks!Exists(page') = Marks!Exists(left)
        BY <1>11, <1>19, MarkingTree
      <3>2. m \in Marks!Exists(left) /\ m \in Anyone
        BY <3>1 DEF Marks!Reached, Marks!Exists, Anyone, Marks!All
      <3> QED BY <1>11, <1>19, <3>1, <3>2, MarkingTree
    <2>2. Marks!Above(left, m) \subseteq Marks!Exists(left)
      BY <1>11, <2>1, AboveExists
    <2>3. Marks!Above(page, m) = Marks!Above(left, m)
      BY <1>2, <1>8, <1>12, <2>1, <2>2, SameAbove
    <2>4. page'.hidden = page.hidden \ gone
      BY <1>9, <1>19 DEF Marking
    <2>5. Marks!Reached(page, m)
      BY <1>10, <2>1, <2>2, <2>3, <2>4 DEF Marks!Reached
    <2>6. q \in page.marked /\ ~page.toLayout
      BY <1>9, <1>15, <1>18, <1>19 DEF Marking
    <2>7. m \in page.stale \cup page.marked
      BY <1>9, <1>15, <1>18, <1>19, <2>6 DEF Marking
    <2> QED BY <2>5, <2>6, <2>7 DEF MarksInv, LayoutDue
  <1> QED BY <1>20, <1>21 DEF MarksInv

(* Marks on an element that stays where it is: with no layout asked for, it*)
(* was marked before, out of layout's reach, and it stays there.           *)
LEMMA MarkedAwaited ==
    ASSUME NEW d, MarksInv(d), NEW e, NEW n, NEW T, Marking(d, e, T), T \subseteq {n},
           e.toLayout \/ T = {} \/ n \in d.marked
    PROVE  MarksInv(e)
<1>1. Orderly(d, {}) /\ Tree(d)
  BY OrderlyWithin DEF MarksInv
<1>2. Orderly(e, {})
  BY <1>1, MarkingOrderly
<1>3. LayoutDue(e)
  <2> SUFFICES ASSUME NEW m \in e.stale \cup e.marked, Marks!Reached(e, m), ~e.toLayout
               PROVE  FALSE
    BY DEF LayoutDue
  <2>1. Marks!Reached(d, m)
    <3>1. Marks!Exists(e) = Marks!Exists(d)
      BY <1>1, MarkingTree
    <3>2. m \in Anyone
      BY <3>1 DEF Marks!Reached, Marks!Exists, Anyone, Marks!All
    <3>3. Marks!Above(e, m) = Marks!Above(d, m) /\ e.hidden = d.hidden
      BY <1>1, <3>2, MarkingTree DEF Marking
    <3> QED BY <3>1, <3>3 DEF Marks!Reached
  <2>2. m \in d.stale \cup d.marked /\ ~d.toLayout
    BY DEF Marking
  <2> QED BY <2>1, <2>2 DEF MarksInv, LayoutDue
<1> QED BY <1>2, <1>3 DEF MarksInv

LEMMA ContentMarks ==
    ASSUME AvoidsAll, MarksInv(page), NEW t \in RenderNodes,
           Marks!UpdateContent(t) \/ Marks!SetImageMode(t)
    PROVE  MarksInv(page')
  <1>1. Orderly(page, {}) /\ Tree(page)
    BY OrderlyWithin DEF MarksInv
  <1>2. t \in Marks!Exists(page) /\ {t} \subseteq Anyone /\ {t} \cap Painted \subseteq Anyone
    BY DEF Marks!UpdateContent, Marks!SetImageMode, Marks!Exists, Anyone, Marks!All
  <1>3. CASE Marks!UpdateContent(t)
    <2> DEFINE styled == Marks!SetStyle(page, t, FALSE)
               marked == Marks!SetLayoutDirty(styled, {t})
               drawn == Marks!SetDrawDirty(marked, {t} \cap Painted)
               told == Marks!SetTextMeasureFunc(drawn, t)
    <2>1. page' = Marks!Changed(told, {t})
      BY <1>3 DEF Marks!UpdateContent
    <2>2. /\ Marking(page, styled, {}) /\ Tree(styled)
          /\ Marks!Exists(styled) = Marks!Exists(page)
      BY <1>1, <1>2, StyledMarking, MarkingTree
    <2> HIDE DEF styled
    <2>3. styled \in Pages
      BY <2>2 DEF Tree
    <2>4. /\ drawn.home = styled.home /\ drawn.fixed = styled.fixed
          /\ drawn.hidden = styled.hidden /\ drawn.fresh = styled.fresh
          /\ drawn.dirty = styled.dirty /\ drawn.stale = styled.stale
          /\ drawn.marked = styled.marked \cup {t}
          /\ styled.toLayout => drawn.toLayout
          /\ drawn.toLayout \/ t \in styled.marked
      BY <2>3 DEF Marks!SetLayoutDirty, Marks!SetDrawDirty, Pages
    <2>5. drawn \in Pages
      <3>1. Marks!SetLayoutDirty(styled, {t}).toLayout \in BOOLEAN
        BY <2>3 DEF Marks!SetLayoutDirty, Pages
      <3>2. marked \in Pages
        BY <1>2, <2>3, <3>1 DEF Marks!SetLayoutDirty, Pages
      <3> HIDE DEF marked
      <3> QED BY <1>2, <3>2 DEF Marks!SetDrawDirty, Pages
    <2> HIDE DEF drawn
    <2>6. /\ Tree(drawn) /\ Marks!Exists(drawn) = Marks!Exists(styled)
          /\ \A m : Marks!ParentRef(drawn, m) = Marks!ParentRef(styled, m)
      BY <2>2, <2>4, <2>5, SameTree
    <2>7. /\ Marking(drawn, told, {}) /\ t \in told.dirty
          /\ told.marked = drawn.marked /\ told.toLayout = drawn.toLayout
      BY <1>2, <2>2, <2>6, DirtiedMarking DEF Marks!SetTextMeasureFunc
    <2> HIDE DEF told
    <2>8. Marking(styled, told, {})
      BY <2>4, <2>6, <2>7 DEF Marking
    <2>9. Marking(told, page', {t}) /\ page'.toLayout = told.toLayout
      BY <2>1, <2>2, <2>7, <2>8, ChangedMarking, MarkingTree
    <2>10. Marking(page, page', {t})
      <3>1. Marking(page, told, {} \cup {})
        BY <1>1, <2>2, <2>8, MarkingComposes
      <3>2. Marking(page, page', ({} \cup {}) \cup {t})
        BY <1>1, <2>9, <3>1, MarkingComposes
      <3>3. ({} \cup {}) \cup {t} = {t} OBVIOUS
      <3> QED BY <3>2, <3>3
    <2>11. page'.toLayout \/ t \in page.marked
      BY <2>2, <2>4, <2>7, <2>9 DEF Marking
    <2> QED BY <2>10, <2>11, MarkedAwaited
  <1>4. CASE Marks!SetImageMode(t)
    <2> DEFINE marked == Marks!SetLayoutDirty(page, {t})
    <2>1. page' = Marks!SetDrawDirty(marked, {t} \cap Painted) /\ {t} \subseteq page.dirty
      BY <1>4 DEF Marks!SetImageMode, AvoidsAll
    <2>2. Marking(page, marked, {})
      BY <1>1, <1>2, <2>1, SetMarking
    <2> HIDE DEF marked
    <2>3. Tree(marked)
      BY <1>1, <2>2, MarkingTree
    <2>4. Marking(marked, page', {})
      BY <1>2, <2>1, <2>3, DrawnMarking
    <2>5. MarksInv(marked)
      BY <2>2, MarkedAwaited
    <2> QED BY <2>4, <2>5, MarkedAwaited
  <1> QED BY <1>3, <1>4

(* A node that is hidden, or shown again and dirty.                        *)
LEMMA DisplayedOrderly ==
    ASSUME NEW d, Orderly(d, {}), NEW n \in RenderNodes, n \in Marks!Exists(d),
           NEW hide \in BOOLEAN
    PROVE  LET e == Marks!SetDisplay(d, n, hide)
           IN  /\ Orderly(e, {})
               /\ e.home = d.home /\ e.fixed = d.fixed
               /\ e.marked = d.marked /\ e.stale = d.stale /\ e.toLayout = d.toLayout
               /\ d.hidden \ {n} \subseteq e.hidden
<1> DEFINE e == Marks!SetDisplay(d, n, hide)
<1>1. Tree(d) /\ d \in Pages /\ n \in Anyone
  BY OrderlyWithin DEF Anyone, Marks!All
<1>2. ASSUME NEW S \in SUBSET Marks!Exists(d), n \in S, NEW H \in SUBSET Anyone,
             d.hidden \subseteq H \cup {n},
             e = [Marks!markDirty(d, S) EXCEPT !.hidden = H]
      PROVE  /\ Orderly(e, {})
             /\ e.home = d.home /\ e.fixed = d.fixed
             /\ e.marked = d.marked /\ e.stale = d.stale /\ e.toLayout = d.toLayout
             /\ d.hidden \ {n} \subseteq e.hidden
  <2> DEFINE a == Marks!markDirty(d, S)
  <2>1. /\ Marking(d, a, {}) /\ n \in a.dirty /\ a.marked = d.marked
        /\ a.stale = d.stale /\ a.toLayout = d.toLayout
    BY <1>1, <1>2, DirtiedMarking
  <2>2. e = [a EXCEPT !.hidden = H]
    BY <1>2
  <2> HIDE DEF a, e
  <2>3. Orderly(a, {}) /\ Tree(a) /\ a \in Pages
    BY <2>1, MarkingOrderly, OrderlyWithin
  <2>4. /\ e \in Pages /\ e.home = a.home /\ e.fixed = a.fixed /\ e.hidden = H
        /\ e.marked = a.marked /\ e.stale = a.stale /\ e.toLayout = a.toLayout
        /\ e.dirty = a.dirty /\ e.fresh = a.fresh
    BY <2>2, <2>3 DEF Pages
  <2>5. /\ Tree(e) /\ Marks!Exists(e) = Marks!Exists(a)
        /\ \A m : Marks!ParentRef(e, m) = Marks!ParentRef(a, m)
    BY <2>3, <2>4, SameTree
  <2>6. a.home = d.home /\ a.fixed = d.fixed /\ a.hidden = d.hidden
    BY <2>1 DEF Marking
  <2>7. /\ a.dirty \subseteq Marks!Exists(a) /\ a.stale \subseteq Marks!Exists(a)
        /\ a.marked \subseteq Marks!Exists(a)
    BY <2>3, OrderlyWithin
  <2>8. Orderly(e, {})
    <3>1. /\ e.dirty = a.dirty \cap Marks!Exists(e)
          /\ e.stale \subseteq a.stale \cap Marks!Exists(e)
          /\ e.marked \subseteq a.marked \cap Marks!Exists(e)
          /\ a.fresh \cap Marks!Exists(e) \subseteq e.fresh
          /\ a.hidden \cap Marks!Exists(e) \subseteq e.hidden \cup a.dirty
      BY <1>2, <2>1, <2>4, <2>5, <2>6, <2>7
    <3> QED BY <2>3, <2>5, <3>1, HungOrderly
  <2> QED BY <1>2, <2>1, <2>4, <2>6, <2>8
<1>3. CASE hide = (n \in d.hidden)
  BY <1>3 DEF Marks!SetDisplay
<1>4. CASE hide /\ n \notin d.hidden
  <2>1. e = [Marks!markDirty(d, {n}) EXCEPT !.hidden = Marks!markDirty(d, {n}).hidden \cup {n}]
    BY <1>4 DEF Marks!SetDisplay
  <2>2. Marks!markDirty(d, {n}).hidden = d.hidden
    BY <1>1, DirtiedMarking DEF Marking
  <2>3. d.hidden \cup {n} \in SUBSET Anyone /\ d.hidden \subseteq (d.hidden \cup {n}) \cup {n}
    BY <1>1 DEF Pages
  <2> HIDE DEF e
  <2> QED BY <1>2, <2>1, <2>2, <2>3 DEF e
<1>5. CASE ~hide /\ n \in d.hidden
  <2> DEFINE S == {n} \cup (Texts \cap Marks!Below(d, n))
  <2>1. e = [Marks!markDirty(d, S) EXCEPT !.hidden = Marks!markDirty(d, S).hidden \ {n}]
    BY <1>5 DEF Marks!SetDisplay
  <2>2. S \in SUBSET Marks!Exists(d) /\ n \in S
    BY DEF Marks!Below
  <2> HIDE DEF S
  <2>3. Marks!markDirty(d, S).hidden = d.hidden
    BY <1>1, <2>2, DirtiedMarking DEF Marking
  <2>4. d.hidden \ {n} \in SUBSET Anyone /\ d.hidden \subseteq (d.hidden \ {n}) \cup {n}
    BY <1>1 DEF Pages
  <2> HIDE DEF e
  <2> QED BY <1>2, <2>1, <2>2, <2>3, <2>4 DEF e
<1> QED BY <1>3, <1>4, <1>5

(* A dirty node goes to the fixed root or back to its element.             *)
LEMMA RemountedOrderly ==
    ASSUME NEW d, Orderly(d, {}), NEW n \in RenderNodes, n \in Marks!Exists(d), n \in d.dirty,
           NEW fix \in BOOLEAN, fix # (n \in d.fixed)
    PROVE  LET e == Marks!MountFixedRenderNode(d, n, fix)
           IN  Orderly(e, {}) /\ e.toLayout
<1> DEFINE out == Marks!removeChild(d, n)
           in == [out EXCEPT !.fixed = IF fix THEN out.fixed \cup {n} ELSE out.fixed \ {n}]
           hung == Marks!insertChild(in, n)
           q == d.home[n]
           changed == Marks!Changed(hung, {n, q})
           e == Marks!createContextRecursively(changed, n)
<1>1. Tree(d) /\ d \in Pages /\ n \in Anyone /\ n \in Marks!Exists(d) \ {Root}
  BY OrderlyWithin, RootApart DEF Anyone, Marks!All
<1>2. Marking(d, out, {}) /\ Marks!ParentRef(d, n) \in out.dirty
  BY <1>1, RehungMarking
<1>3. Marks!MountFixedRenderNode(d, n, fix) = e
  BY DEF Marks!MountFixedRenderNode, Marks!Rehang
<1> HIDE DEF out
<1>4. Orderly(out, {}) /\ Tree(out) /\ out \in Pages /\ Marks!Exists(out) = Marks!Exists(d)
  BY <1>1, <1>2, MarkingOrderly, MarkingTree, OrderlyWithin
<1>5. out.home = d.home /\ out.fixed = d.fixed /\ d.dirty \subseteq out.dirty
  BY <1>2 DEF Marking
<1>6. /\ in \in Pages /\ in.home = d.home
      /\ in.fixed = IF fix THEN d.fixed \cup {n} ELSE d.fixed \ {n}
      /\ in.dirty = out.dirty /\ in.stale = out.stale /\ in.marked = out.marked
      /\ in.fresh = out.fresh /\ in.hidden = out.hidden
  BY <1>1, <1>4, <1>5 DEF Pages
<1> HIDE DEF in
<1>7. Marks!Exists(in) = Marks!Exists(d) /\ Tree(in)
  <2>1. Marks!Exists(in) = Marks!Exists(d)
    BY <1>6 DEF Marks!Exists
  <2> QED BY <1>1, <1>6, <2>1 DEF Tree, Rooted, HomeClosed
<1>8. Orderly(in, {n})
  <2>1. \A m \in Marks!Exists(out) \ {n} : Marks!ParentRef(in, m) = Marks!ParentRef(out, m)
    BY <1>5, <1>6 DEF Marks!ParentRef
  <2>2. /\ out.dirty \subseteq Marks!Exists(in) /\ out.stale \subseteq Marks!Exists(in)
        /\ out.marked \subseteq Marks!Exists(in)
    BY <1>4, <1>7, OrderlyWithin
  <2> QED BY <1>4, <1>6, <1>7, <2>1, <2>2, HungOrderly
<1>9. n \in Marks!Exists(in) \ {Root}
  BY <1>1, <1>7
<1>10. Marking(in, hung, {}) /\ Marks!ParentRef(in, n) \in hung.dirty
  BY <1>7, <1>9, RehungMarking
<1> HIDE DEF hung
<1>11. Orderly(hung, {}) /\ Tree(hung)
  <2>1. Orderly(hung, {n})
    BY <1>8, <1>10, MarkingOrderly
  <2>2. Marks!ParentRef(hung, n) = Marks!ParentRef(in, n) /\ Tree(hung)
    BY <1>7, <1>10, MarkingTree
  <2> QED BY <1>10, <2>1, <2>2, HungSettles
<1>12. {n, q} \subseteq hung.dirty
  <2>1. in.dirty \subseteq hung.dirty
    BY <1>10 DEF Marking
  <2>2. q \in hung.dirty
    <3>1. CASE fix
      <4>1. Marks!ParentRef(d, n) = q
        BY <3>1, RootApart DEF Marks!ParentRef
      <4> QED BY <1>2, <1>6, <2>1, <4>1
    <3>2. CASE ~fix
      <4>1. Marks!ParentRef(in, n) = q
        BY <1>6, <3>2, RootApart DEF Marks!ParentRef
      <4> QED BY <1>10, <4>1
    <3> QED BY <3>1, <3>2
  <2> QED BY <1>5, <1>6, <2>1, <2>2
<1>13. Marking(hung, changed, {n, q}) /\ changed.dirty = hung.dirty
  BY <1>11, <1>12, ChangedMarking
<1> HIDE DEF changed
<1>14. Orderly(changed, {}) /\ Tree(changed) /\ n \in changed.dirty
  BY <1>11, <1>12, <1>13, MarkingOrderly, MarkingTree
<1>15. Marking(changed, e, {}) /\ e.toLayout
  BY <1>14, ContextMarking
<1> HIDE DEF e
<1>16. Orderly(e, {})
  BY <1>14, <1>15, MarkingOrderly
<1> QED BY <1>3, <1>15, <1>16

LEMMA ResolveMarks ==
    ASSUME MarksInv(page), NEW n \in RenderNodes, Marks!Resolve(n)
    PROVE  MarksInv(page')
  <1>1. PICK fix \in BOOLEAN, hide \in BOOLEAN, resized \in BOOLEAN,
             redrawn \in SUBSET ({n} \cap Painted) :
          LET isNew == resized \/ fix # (n \in page.fixed) \/ hide # (n \in page.hidden)
          IN  page' = Marks!MountFixedRenderNode(
                          Marks!SetDrawDirty(
                              Marks!SetStyle(Marks!SetDisplay(page, n, hide), n, isNew),
                                           redrawn),
                          n, fix)
    BY DEF Marks!Resolve, Marks!MayFix, Marks!MayHide
  <1> DEFINE isNew == resized \/ fix # (n \in page.fixed) \/ hide # (n \in page.hidden)
             shown == Marks!SetDisplay(page, n, hide)
             styled == Marks!SetStyle(shown, n, isNew)
             drawn == Marks!SetDrawDirty(styled, redrawn)
  <1>2. page' = Marks!MountFixedRenderNode(drawn, n, fix)
    BY <1>1
  <1>3. /\ Orderly(page, {}) /\ Tree(page) /\ page \in Pages /\ Rooted(page)
        /\ n \in Marks!Exists(page) /\ redrawn \subseteq Anyone /\ n \in Anyone
    BY OrderlyWithin DEF MarksInv, Marks!Resolve, Marks!Exists, Tree, Anyone, Marks!All
  <1>4. isNew \in BOOLEAN
    OBVIOUS
  <1>5. ~isNew => hide = (n \in page.hidden) /\ fix = (n \in page.fixed)
    OBVIOUS
  <1>6. ~isNew => shown = page
    BY <1>5 DEF Marks!SetDisplay
  <1>7. fix # (n \in page.fixed) => isNew
    OBVIOUS
  <1> HIDE DEF isNew
  <1>8. /\ Orderly(shown, {}) /\ shown.home = page.home /\ shown.fixed = page.fixed
        /\ shown.marked = page.marked /\ shown.stale = page.stale
        /\ shown.toLayout = page.toLayout
        /\ page.hidden \ {n} \subseteq shown.hidden
    BY <1>3, DisplayedOrderly
  <1> HIDE DEF shown
  <1>9. Tree(shown) /\ shown \in Pages
    BY <1>8, OrderlyWithin
  <1>10. /\ Marks!Exists(shown) = Marks!Exists(page)
         /\ \A m \in Anyone : Marks!Above(shown, m) = Marks!Above(page, m)
    BY <1>3, <1>8, <1>9, SameTree
  <1>11. /\ Marking(shown, styled, IF isNew THEN {n} ELSE {})
         /\ isNew => n \in styled.dirty
         /\ n \in styled.dirty => styled.toLayout \/ n \in shown.marked
    BY <1>3, <1>4, <1>9, <1>10, StyledMarking
  <1> HIDE DEF styled
  <1>12. Tree(styled)
    BY <1>9, <1>11, MarkingTree
  <1>13. /\ Marking(styled, drawn, {}) /\ drawn.dirty = styled.dirty
         /\ drawn.toLayout = styled.toLayout
    BY <1>3, <1>12, DrawnMarking
  <1> HIDE DEF drawn
  <1>14. Marking(shown, drawn, IF isNew THEN {n} ELSE {})
    <2>1. Marking(shown, drawn, (IF isNew THEN {n} ELSE {}) \cup {})
      BY <1>9, <1>11, <1>13, MarkingComposes
    <2>2. (IF isNew THEN {n} ELSE {}) \cup {} = IF isNew THEN {n} ELSE {} OBVIOUS
    <2> QED BY <2>1, <2>2
  <1>15. /\ Orderly(drawn, {}) /\ Marks!Exists(drawn) = Marks!Exists(page)
         /\ \A m \in Anyone : Marks!Above(drawn, m) = Marks!Above(page, m)
         /\ drawn.fixed = page.fixed
    <2>1. Orderly(drawn, {})
      BY <1>8, <1>14, MarkingOrderly
    <2>2. /\ Marks!Exists(drawn) = Marks!Exists(shown)
          /\ \A m \in Anyone : Marks!Above(drawn, m) = Marks!Above(shown, m)
      BY <1>9, <1>14, MarkingTree
    <2>3. drawn.fixed = shown.fixed
      BY <1>14 DEF Marking
    <2> QED BY <1>8, <1>10, <2>1, <2>2, <2>3
  <1>16. CASE fix # (n \in page.fixed)
    <2>1. n \in drawn.dirty
      BY <1>7, <1>11, <1>13, <1>16
    <2>2. Orderly(page', {}) /\ page'.toLayout
      BY <1>2, <1>3, <1>15, <1>16, <2>1, RemountedOrderly
    <2> QED BY <2>2 DEF MarksInv, LayoutDue
  <1>17. CASE fix = (n \in page.fixed)
    <2>1. page' = drawn
      BY <1>2, <1>15, <1>17 DEF Marks!MountFixedRenderNode
    <2>2. CASE ~isNew
      <3>1. Marking(page, page', {})
        BY <1>6, <1>14, <2>1, <2>2
      <3> QED BY <3>1, MarkedAwaited
    <2>3. CASE isNew
      <3> SUFFICES ASSUME NEW m \in page'.stale \cup page'.marked, Marks!Reached(page', m),
                          ~page'.toLayout
                   PROVE  FALSE
        BY <1>15, <2>1 DEF MarksInv, LayoutDue
      <3>1. n \in page.marked /\ ~page.toLayout
        BY <1>8, <1>11, <1>13, <1>14, <2>1, <2>3 DEF Marking
      <3>2. ~Marks!Reached(page, n)
        BY <3>1 DEF MarksInv, LayoutDue
      <3>3. PICK h \in Marks!Above(page, n) : h \in page.hidden
        BY <1>3, <3>2 DEF Marks!Reached
      <3>4. h # n
        BY <1>3, <3>3, AboveAcyclic
      <3>5. page.hidden \ {n} \subseteq page'.hidden
        BY <1>8, <1>14, <2>1 DEF Marking
      <3>6. m \in Marks!Exists(page) /\ m \in Anyone
        BY <1>15, <2>1 DEF Marks!Reached, Marks!Exists, Anyone, Marks!All
      <3>7. Marks!Above(page, m) \cap page'.hidden = {}
        BY <1>15, <2>1, <3>6 DEF Marks!Reached
      <3>8. n \notin Marks!Above(page, m)
        <4> SUFFICES ASSUME n \in Marks!Above(page, m) PROVE FALSE
          OBVIOUS
        <4>1. h \in Marks!Above(page, m)
          BY <1>3, <3>3, <3>6, AboveTransitive
        <4> QED BY <3>3, <3>4, <3>5, <3>7, <4>1
      <3>9. Marks!Reached(page, m)
        BY <3>5, <3>6, <3>7, <3>8 DEF Marks!Reached
      <3>10. m \in page.stale \cup page.marked
        BY <1>8, <1>14, <2>1, <2>3, <3>1 DEF Marking
      <3> QED BY <3>1, <3>9, <3>10 DEF MarksInv, LayoutDue
    <2> QED BY <2>2, <2>3
  <1> QED BY <1>16, <1>17

(* What a layout leaves of d: Yoga visits and asks, and what it laid out   *)
(* anew is applied.                                                        *)
Visits(d, W) == {n \in Marks!Exists(d) :
    ({n} \cup Marks!Above(d, n)) \subseteq (d.dirty \cup d.cold \cup W) \ d.hidden}

Asks(d, W) ==
    {Root} \cup {n \in Marks!Exists(d) : Marks!ParentRef(d, n) \in Visits(d, W)}

LEMMA LayoutFields ==
    ASSUME NEW d, Tree(d), NEW W
    PROVE  LET c == Marks!calcYGLayout(d, W)
               e == Marks!LayoutAll(c)
           IN  /\ e.home = d.home /\ e.fixed = d.fixed /\ e.hidden = d.hidden
               /\ e.toLayout = d.toLayout
               /\ e.dirty = d.dirty \ Asks(d, W)
               /\ e.stale = d.stale \ Marks!Applied(c)
               /\ e.fresh = c.fresh \ Marks!Applied(c)
               /\ e.marked = d.marked \ Marks!Unmarked(c)
               /\ c.home = d.home /\ c.fixed = d.fixed /\ c.hidden = d.hidden
               /\ d.fresh \cup Asks(d, W) \subseteq c.fresh
               /\ c \in Pages
<1> DEFINE c == Marks!calcYGLayout(d, W)
           reset == UNION {{n} \cup Marks!Below(d, n) : n \in Asks(d, W) \cap d.hidden}
           laid == Marks!Applied(c)
           e == Marks!LayoutAll(c)
<1>1. c = [d EXCEPT !.fresh = d.fresh \cup Asks(d, W) \cup reset,
                    !.dirty = d.dirty \ Asks(d, W),
                    !.cold = (d.cold \ Asks(d, W)) \cup reset]
  BY DEF Marks!calcYGLayout, Asks, Visits
<1> HIDE DEF reset
<1>2. /\ c.home = d.home /\ c.fixed = d.fixed /\ c.hidden = d.hidden
      /\ c.toLayout = d.toLayout /\ c.marked = d.marked /\ c.stale = d.stale
      /\ c.dirty = d.dirty \ Asks(d, W)
      /\ c.fresh = d.fresh \cup Asks(d, W) \cup reset
  <2> HIDE DEF c
  <2> QED BY <1>1 DEF Tree, Pages
<1>3. DOMAIN c = DOMAIN d /\ c = [f \in DOMAIN d |-> c[f]]
  <2> HIDE DEF c
  <2> QED BY <1>1 DEF Tree, Pages
<1> HIDE DEF c
<1> DEFINE unmarked == Marks!Unmarked(c)
<1>4. /\ e.home = c.home /\ e.fixed = c.fixed /\ e.hidden = c.hidden
      /\ e.toLayout = c.toLayout /\ e.dirty = c.dirty
      /\ e.stale = c.stale \ laid /\ e.fresh = c.fresh \ laid
      /\ e.marked = c.marked \ unmarked
  <2> HIDE DEF laid, unmarked
  <2> QED BY <1>3 DEF Marks!LayoutAll, Marks!ClearLayoutDirty, Marks!SetDrawDirty, Tree, Pages,
                      laid, unmarked
<1>5. c \in Pages
  <2>1. Asks(d, W) \subseteq Anyone
    BY DEF Asks, Marks!Exists, Anyone, Marks!All
  <2>2. reset \subseteq Anyone
    BY <2>1 DEF reset, Marks!Below, Marks!Exists, Anyone, Marks!All
  <2>3. d \in Pages
    BY DEF Tree
  <2> QED BY <1>1, <2>1, <2>2, <2>3 DEF Pages
<1> QED BY <1>2, <1>4, <1>5 DEF c

LEMMA ParentReached ==
    ASSUME NEW d, Tree(d), NEW m \in Marks!Exists(d),
           NEW p, p = Marks!ParentRef(d, m), p # None
    PROVE  /\ p \in Marks!Exists(d) /\ p \in Marks!Above(d, m)
           /\ Marks!Reached(d, m) <=> Marks!Reached(d, p) /\ p \notin d.hidden
<1>1. d \in Pages /\ m \in Anyone
  BY DEF Tree, Marks!Exists, Anyone, Marks!All
<1>2. p \in Marks!Exists(d)
  BY AboveExists
<1>3. Marks!Above(d, m) = {p} \cup Marks!Above(d, p)
  BY <1>1, AboveUnfolds
<1> QED BY <1>2, <1>3 DEF Marks!Reached

(* After a layout nothing that layout gets to is dirty, stale or marked;   *)
(* the rest is as it was.                                                  *)
LEMMA LaidOutOrderly ==
    ASSUME NEW d, Orderly(d, {}), NEW W, NEW c, c = Marks!calcYGLayout(d, W),
           NEW f \in Pages, f.home = d.home, f.fixed = d.fixed, f.hidden = d.hidden,
           f.dirty = d.dirty \ Asks(d, W), f.stale = d.stale \ Marks!Applied(c),
           f.fresh = c.fresh \ Marks!Applied(c), f.marked = d.marked \ Marks!Unmarked(c)
    PROVE  Orderly(f, {}) /\ \A m \in f.stale \cup f.marked : ~Marks!Reached(f, m)
<1>1. Tree(d) /\ d \in Pages /\ d.marked \subseteq Marks!Exists(d)
  BY OrderlyWithin
<1>2. PICK K \in SUBSET Marks!Exists(d) : Covers(d, K, {})
  BY DEF Orderly
<1>3. /\ d.fresh \cup Asks(d, W) \subseteq c.fresh /\ c \in Pages
      /\ c.home = d.home /\ c.fixed = d.fixed /\ c.hidden = d.hidden
  BY <1>1, LayoutFields
<1>4. /\ Marks!Exists(c) = Marks!Exists(d)
      /\ \A n : Marks!ParentRef(c, n) = Marks!ParentRef(d, n)
      /\ \A n \in Anyone : Marks!Above(c, n) = Marks!Above(d, n)
  BY <1>1, <1>3, SameTree
<1>5. /\ Tree(f) /\ Marks!Exists(f) = Marks!Exists(d)
      /\ \A n : Marks!ParentRef(f, n) = Marks!ParentRef(d, n)
      /\ \A n \in Anyone : Marks!Above(f, n) = Marks!Above(d, n)
  BY <1>1, SameTree
<1>6. \A m \in Marks!Exists(d) : m \in Anyone
  BY DEF Marks!Exists, Anyone, Marks!All
<1>7. ASSUME NEW n \in d.dirty, Marks!Reached(d, n), n \notin d.hidden
      PROVE  n \in Visits(d, W)
  <2> DEFINE P == d.dirty \ d.hidden
  <2>1. n \in Marks!Exists(d) /\ Marks!Above(d, n) \cap d.hidden = {} /\ n \in Anyone
    BY <1>6, <1>7 DEF Marks!Reached
  <2>2. Marks!ParentRef(d, n) \in Marks!Above(d, n) \cup {None}
        /\ \A a \in Marks!Above(d, n) :
              Marks!ParentRef(d, a) \in Marks!Above(d, n) \cup {None}
    BY <1>1, <2>1, AboveLeast DEF Closed
  <2>3. Marks!ParentRef(d, n) \in P \cup {None}
    BY <1>2, <2>1, <2>2 DEF Covers
  <2>4. \A a \in P \cap Marks!Above(d, n) : Marks!ParentRef(d, a) \in P \cup {None}
    BY <1>2, <2>1, <2>2 DEF Covers
  <2> HIDE DEF P
  <2>5. Marks!Above(d, n) \subseteq P
    BY <1>1, <2>1, <2>3, <2>4, AboveWithin
  <2> QED BY <1>7, <2>1, <2>5 DEF Visits, P
<1>8. ASSUME NEW n \in Marks!Exists(d), Marks!Reached(d, n),
             Marks!ParentRef(d, n) \in d.dirty \cup {None}
      PROVE  n \in Asks(d, W)
  <2> DEFINE p == Marks!ParentRef(d, n)
  <2>1. CASE p = None
    BY <2>1, RootApart DEF Marks!ParentRef, Marks!Exists, Asks
  <2>2. CASE p # None
    <3>1. p \in d.dirty /\ Marks!Reached(d, p) /\ p \notin d.hidden
      BY <1>1, <1>8, <2>2, ParentReached
    <3> QED BY <1>7, <3>1 DEF Asks
  <2> QED BY <2>1, <2>2
<1>9. ASSUME NEW n \in K, Marks!Reached(d, n)
      PROVE  /\ n \in c.fresh
             /\ Marks!ParentRef(d, n) \in {a \in K : Marks!Reached(d, a)} \cup {None}
  <2> DEFINE p == Marks!ParentRef(d, n)
  <2>1. CASE p = None
    BY <1>2, <1>3, <1>8, <1>9, <2>1
  <2>2. CASE p # None
    <3>1. Marks!Reached(d, p) /\ p \notin d.hidden
      BY <1>1, <1>2, <1>9, <2>2, ParentReached
    <3>2. p \in d.dirty \/ (n \in d.fresh /\ p \in K)
      BY <1>2, <2>2, <3>1 DEF Covers
    <3>3. p \in K
      BY <1>2, <3>2 DEF Covers
    <3>4. n \in c.fresh
      BY <1>2, <1>3, <1>8, <1>9, <3>2
    <3> QED BY <3>1, <3>3, <3>4
  <2> QED BY <2>1, <2>2
<1>10. ASSUME NEW n \in K, Marks!Reached(d, n) PROVE n \in Marks!Applied(c)
  <2> DEFINE P == {a \in K : Marks!Reached(d, a)}
  <2>1. n \in Marks!Exists(d) /\ n \in Anyone
    BY <1>2, <1>6
  <2>2. Closed(d, P) /\ Marks!ParentRef(d, n) \in P \cup {None}
    BY <1>9, <1>10 DEF Closed
  <2>3. P \subseteq c.fresh /\ n \in P
    BY <1>9, <1>10
  <2> HIDE DEF P
  <2>4. Marks!Above(d, n) \subseteq P
    BY <1>1, <2>1, <2>2, AboveLeast
  <2> QED BY <1>3, <1>4, <1>10, <2>1, <2>3, <2>4 DEF Marks!Applied, Marks!Reached
<1>11. ASSUME NEW n \in Asks(d, W) PROVE Marks!Reached(d, n)
  <2>1. CASE n = Root
    <3>1. Marks!Above(d, Root) = {}
      BY <1>1, AboveUnfolds DEF Marks!ParentRef, Anyone, Marks!All
    <3> QED BY <2>1, <3>1 DEF Marks!Reached, Marks!Exists
  <2>2. CASE n # Root
    <3> DEFINE p == Marks!ParentRef(d, n)
    <3>1. n \in Marks!Exists(d) /\ p \in Visits(d, W)
      BY <2>2 DEF Asks
    <3>2. p \in Marks!Exists(d) /\ p \notin d.hidden /\ Marks!Reached(d, p)
      BY <3>1 DEF Visits, Marks!Reached
    <3>3. p # None
      BY <3>2, RootApart DEF Marks!Exists
    <3> QED BY <1>1, <3>1, <3>2, <3>3, ParentReached
  <2> QED BY <2>1, <2>2
<1>12. ASSUME NEW n \in Marks!Applied(c) PROVE Marks!Reached(d, n)
  BY <1>3, <1>4, <1>6 DEF Marks!Applied, Marks!Reached
<1> DEFINE L == {m \in K : ~Marks!Reached(d, m)}
<1>13. ASSUME NEW m \in Marks!Exists(d), ~Marks!Reached(d, m),
              Marks!ParentRef(d, m) \in d.dirty \cup d.hidden \cup {None}
       PROVE  Marks!ParentRef(f, m) \in f.dirty \cup f.hidden \cup {None}
  <2> DEFINE p == Marks!ParentRef(d, m)
  <2> SUFFICES ASSUME p # None, p \notin d.hidden, p \in d.dirty PROVE p \notin Asks(d, W)
    BY <1>5, <1>13
  <2>1. ~Marks!Reached(d, p)
    BY <1>1, <1>13, ParentReached
  <2> QED BY <1>11, <2>1
<1>14. f.dirty \subseteq L
  <2> SUFFICES ASSUME NEW m \in f.dirty PROVE m \in K /\ ~Marks!Reached(d, m)
    OBVIOUS
  <2>1. m \in K /\ m \in Marks!Exists(d) /\ m \notin Asks(d, W)
    BY <1>2 DEF Covers
  <2>2. Marks!ParentRef(d, m) \in d.dirty \cup d.hidden \cup {None}
    BY <1>2 DEF Covers
  <2>3. CASE Marks!ParentRef(d, m) \in d.dirty \cup {None}
    BY <1>8, <2>1, <2>3
  <2>4. CASE Marks!ParentRef(d, m) \in d.hidden /\ Marks!ParentRef(d, m) # None
    BY <1>1, <2>1, <2>4, ParentReached
  <2> QED BY <2>1, <2>2, <2>3, <2>4
<1>15. f.stale \subseteq L
  BY <1>2, <1>10 DEF Covers
<1>16. ASSUME NEW m \in f.dirty
       PROVE  Marks!ParentRef(f, m) \in f.dirty \cup f.hidden \cup {None}
  <2>1. m \in Marks!Exists(d) /\ ~Marks!Reached(d, m)
    BY <1>2, <1>14
  <2>2. Marks!ParentRef(d, m) \in d.dirty \cup d.hidden \cup {None}
    BY <1>2 DEF Covers
  <2> QED BY <1>13, <2>1, <2>2
<1>17. ASSUME NEW m \in L
       PROVE  \/ Marks!ParentRef(f, m) \in f.dirty \cup f.hidden \cup {None}
              \/ m \in f.fresh /\ Marks!ParentRef(f, m) \in L
  <2> DEFINE p == Marks!ParentRef(d, m)
  <2>1. m \in Marks!Exists(d) /\ m \in K /\ ~Marks!Reached(d, m)
    BY <1>2
  <2>2. CASE p \in d.dirty \cup d.hidden \cup {None}
    BY <1>13, <2>1, <2>2
  <2>3. CASE p \notin d.dirty \cup d.hidden \cup {None}
    <3>1. m \in d.fresh /\ p \in K
      BY <1>2, <2>1, <2>3 DEF Covers
    <3>2. ~Marks!Reached(d, p)
      BY <1>1, <2>1, <2>3, ParentReached
    <3>3. m \in f.fresh
      BY <1>3, <1>12, <2>1, <3>1
    <3> QED BY <1>5, <3>1, <3>2, <3>3
  <2> QED BY <2>2, <2>3
<1>18. ASSUME NEW m \in f.marked
       PROVE  /\ Marks!ParentRef(f, m) \in f.hidden \cup L \cup {None}
              /\ ~Marks!Reached(f, m)
  <2> DEFINE p == Marks!ParentRef(d, m)
  <2>1. m \in Marks!Exists(d) /\ m \notin Marks!Unmarked(c)
    BY <1>1
  <2>2. p \in d.hidden \cup K \cup {None}
    BY <1>2 DEF Covers
  <2>3. p # None
    BY <2>1, RootApart DEF Marks!Unmarked, Marks!ParentRef, Marks!Exists
  <2>4. Marks!Reached(f, m) <=> Marks!Reached(d, m)
    BY <1>5, <1>6 DEF Marks!Reached
  <2>5. CASE p \in d.hidden
    BY <1>1, <1>5, <2>1, <2>3, <2>4, <2>5, ParentReached
  <2>6. CASE p \in K /\ p \notin d.hidden
    <3>1. ~Marks!Reached(d, p)
      <4> SUFFICES ASSUME Marks!Reached(d, p) PROVE FALSE
        OBVIOUS
      <4>1. p \in Marks!Applied(c) \ c.hidden
        BY <1>3, <1>10, <2>6
      <4> QED BY <1>4, <2>1, <4>1 DEF Marks!Unmarked
    <3>2. ~Marks!Reached(d, m)
      BY <1>1, <2>1, <2>3, <3>1, ParentReached
    <3> QED BY <1>5, <2>4, <2>6, <3>1, <3>2
  <2> QED BY <2>2, <2>3, <2>5, <2>6
<1>19. Covers(f, L, {})
  BY <1>14, <1>15, <1>16, <1>17, <1>18 DEF Covers
<1>20. Orderly(f, {})
  <2>1. L \in SUBSET Marks!Exists(f) /\ f.marked \subseteq Marks!Exists(f)
    BY <1>1, <1>2, <1>5
  <2> HIDE DEF L
  <2> QED BY <1>5, <1>19, <2>1 DEF Orderly
<1>21. ASSUME NEW m \in f.stale PROVE ~Marks!Reached(f, m)
  BY <1>2, <1>5, <1>6, <1>15 DEF Marks!Reached
<1> QED BY <1>18, <1>20, <1>21

LEMMA FlushMarks ==
    ASSUME MarksInv(page), page' \in Pages, Marks!Flush
    PROVE  MarksInv(page')
<1>1. PICK W : page' = Marks!FlushPaint(Marks!FlushLayout(page, W))
  BY DEF Marks!Flush
<1>2. Orderly(page, {}) /\ Tree(page) /\ page \in Pages
  BY OrderlyWithin DEF MarksInv
<1>3. CASE ~page.toLayout
  <2>1. page' = Marks!FlushPaint(page)
    BY <1>1, <1>3 DEF Marks!FlushLayout
  <2>2. /\ page'.home = page.home /\ page'.fixed = page.fixed
        /\ page'.hidden = page.hidden /\ page'.fresh = page.fresh
        /\ page'.dirty = page.dirty /\ page'.stale = page.stale
        /\ page'.marked = page.marked /\ page'.toLayout = page.toLayout
    BY <1>2, <2>1 DEF Marks!FlushPaint, Pages
  <2>3. Marking(page, page', {})
    BY <2>2 DEF Marking
  <2> QED BY <2>3, MarkedAwaited
<1>4. CASE page.toLayout
  <2> DEFINE d == [page EXCEPT !.toLayout = FALSE]
             c == Marks!calcYGLayout(d, W)
             e == Marks!LayoutAll(c)
  <2>1. page' = Marks!FlushPaint(e)
    BY <1>1, <1>4 DEF Marks!FlushLayout
  <2>2. /\ d \in Pages /\ d.home = page.home /\ d.fixed = page.fixed
        /\ d.hidden = page.hidden /\ d.fresh = page.fresh
        /\ d.dirty = page.dirty /\ d.stale = page.stale
        /\ d.marked = page.marked /\ d.toLayout = FALSE
    BY <1>2 DEF Pages
  <2> HIDE DEF d
  <2>3. /\ Tree(d) /\ Marks!Exists(d) = Marks!Exists(page)
        /\ \A m : Marks!ParentRef(d, m) = Marks!ParentRef(page, m)
    BY <1>2, <2>2, SameTree
  <2>4. Orderly(d, {})
    <3>1. /\ page.dirty \subseteq Marks!Exists(d) /\ page.stale \subseteq Marks!Exists(d)
          /\ page.marked \subseteq Marks!Exists(d)
      BY <1>2, <2>3, OrderlyWithin
    <3> QED BY <1>2, <2>2, <2>3, <3>1, HungOrderly
  <2>5. /\ e.home = d.home /\ e.fixed = d.fixed /\ e.hidden = d.hidden
        /\ e.dirty = d.dirty \ Asks(d, W)
        /\ e.stale = d.stale \ Marks!Applied(c)
        /\ e.fresh = c.fresh \ Marks!Applied(c)
        /\ e.marked = d.marked \ Marks!Unmarked(c)
    BY <2>3, LayoutFields
  <2>6. /\ page'.home = e.home /\ page'.fixed = e.fixed /\ page'.hidden = e.hidden
        /\ page'.dirty = e.dirty /\ page'.stale = e.stale
        /\ page'.fresh = e.fresh /\ page'.marked = e.marked
    <3> HIDE DEF e
    <3> QED BY <2>1 DEF Marks!FlushPaint
  <2> HIDE DEF e, c
  <2>7. Orderly(page', {}) /\ \A m \in page'.stale \cup page'.marked : ~Marks!Reached(page', m)
    BY <2>4, <2>5, <2>6, LaidOutOrderly DEF c
  <2> QED BY <2>7 DEF MarksInv, LayoutDue
<1> QED BY <1>3, <1>4

-----------------------------------------------------------------------------
LEMMA MarksStep ==
    ASSUME AvoidsAll, Good(page), MarksInv(page), [Marks!Next]_Marks!vars
    PROVE  Good(page') /\ MarksInv(page')
<1>1. CASE \E n \in RenderNodes : \E p \in Marks!All :
             Marks!AppendTaroNode(n, p) \/ Marks!MoveTaroNode(n, p)
  BY <1>1, AppendGood, MoveGood, AppendMarks, MoveMarks
<1>2. CASE \E n \in RenderNodes : Marks!RemoveTaroNode(n) \/ Marks!Resolve(n)
  BY <1>2, RemoveGood, ResolveGood, RemoveMarks, ResolveMarks
<1>3. CASE \E t \in Texts : Marks!UpdateContent(t) \/ Marks!SetImageMode(t)
  BY <1>3, ContentGood, ContentMarks, MarksAssumption DEF Marks!ConstantsApart
<1>4. CASE Marks!FlushStart
  BY <1>4 DEF Marks!FlushStart
<1>5. CASE Marks!Flush
  <2>1. Good(page')
    BY <1>5, FlushGood
  <2> QED BY <1>5, <2>1, FlushMarks DEF Good
<1>6. CASE UNCHANGED Marks!vars
  BY <1>6 DEF Marks!vars
<1> QED BY <1>1, <1>2, <1>3, <1>4, <1>5, <1>6 DEF Marks!Next

LEMMA MarksInvariant ==
    ASSUME AvoidsAll
    PROVE  Marks!Spec => [](Good(page) /\ MarksInv(page))
<1>1. Marks!Init => Good(page) /\ MarksInv(page)
  BY InitGood, MarksInit
<1> DEFINE Inv == Good(page) /\ MarksInv(page)
<1>2. Inv /\ [Marks!Next]_Marks!vars => Inv'
  <2> SUFFICES ASSUME Inv, [Marks!Next]_Marks!vars PROVE Inv'
    OBVIOUS
  <2>1. Good(page') /\ MarksInv(page')
    BY MarksStep
  <2> QED BY <2>1
<1> QED BY <1>1, <1>2, PTL DEF Marks!Spec

(* LayoutAlwaysAwaited: for any page and any texts, where JS runs into none*)
(* of the four flaws, what changed and can be reached waits for a layout   *)
(* that is asked for, whatever Yoga skips (arkui_base_node.cpp:555).       *)
THEOREM LayoutAlwaysAwaited == ASSUME AvoidsAll PROVE Marks!Spec => []LayoutAwaited
<1>1. MarksInv(page) => LayoutAwaited
  BY DEF MarksInv, LayoutDue, LayoutAwaited, Marks!LayoutAwaited
<1> QED BY <1>1, MarksInvariant, PTL

(* MarksAlwaysQueued: under the same condition a mark on a node that layout*)
(* gets to has its page in the queue, and swallows no later change         *)
(* (arkui_base_node.cpp:551-558).                                          *)
THEOREM MarksAlwaysQueued == ASSUME AvoidsAll PROVE Marks!Spec => []MarksQueued
<1>1. MarksInv(page) => MarksQueued
  BY DEF MarksInv, LayoutDue, MarksQueued, Marks!MarksQueued
<1> QED BY <1>1, MarksInvariant, PTL

-----------------------------------------------------------------------------
(***************************************************************************)
(* NodeAnimations.  Ticked is nearly inductive: an animator appears only   *)
(* with an order to enable the trigger behind it, and a tick orders the    *)
(* trigger's removal only when it leaves no animator; that an animation just*)
(* ended is still an animator takes the type of keyframes.                 *)
(***************************************************************************)
Animators ==
    [state : {"none", "running", "stopped"}, id : Nat, fill : {"none", "forwards"}]

(* The type of the state that decides who is ticked.                       *)
TickTypes ==
    /\ style \in Animation!Styles
    /\ keyframes \in Animators
    /\ operate_queue \in Seq(BOOLEAN)
    /\ triggered \in BOOLEAN
    /\ ids \in [styles : Nat, animators : Nat]

TickInv == TickTypes /\ Ticked

(* An order at the end of the queue is the last word.                      *)
LEMMA LastOrder ==
    ASSUME NEW q \in Seq(BOOLEAN), NEW b \in BOOLEAN
    PROVE  /\ Append(q, b) \in Seq(BOOLEAN)
           /\ Append(q, b) # <<>>
           /\ Animation!Last(Append(q, b)) = b
BY DEF Animation!Last

LEMMA LastIsOrder ==
    ASSUME NEW q \in Seq(BOOLEAN), q # <<>>
    PROVE  Animation!Last(q) \in BOOLEAN
BY DEF Animation!Last

(* Enable: whatever stood in the queue, the next frame ticks.              *)
LEMMA EnableTicks ==
    ASSUME operate_queue \in Seq(BOOLEAN), Animation!Enable
    PROVE  operate_queue' \in Seq(BOOLEAN) /\ Animation!WillTick'
BY LastOrder DEF Animation!Enable, Animation!WillTick

-----------------------------------------------------------------------------
LEMMA NoAnimatorType == Animation!NoAnimator \in Animators
  BY DEF Animation!NoAnimator, Animators

LEMMA TickInit == Animation!Init => TickInv
  <1> SUFFICES ASSUME Animation!Init PROVE TickInv
    OBVIOUS
  <1>1. TickTypes
    <2>1. style \in Animation!Styles
      BY DEF Animation!Init
    <2>2. keyframes \in Animators
      BY NoAnimatorType DEF Animation!Init
    <2>3. operate_queue \in Seq(BOOLEAN)
      BY EmptySeq DEF Animation!Init
    <2>4. triggered \in BOOLEAN
      BY Zenon DEF Animation!Init
    <2>5. ids \in [styles : Nat, animators : Nat]
      BY DEF Animation!Init
    <2> QED BY <2>1, <2>2, <2>3, <2>4, <2>5 DEF TickTypes
  <1> QED BY <1>1 DEF Animation!Init, TickInv, Ticked, Animation!Ticked

LEMMA SetStyleInv ==
    ASSUME TickInv, NEW s \in Animation!Styles, Animation!SetStyle(s)
    PROVE  TickInv'
  BY DEF Animation!SetStyle, TickInv, TickTypes, Ticked, Animation!Ticked,
     Animation!WillTick, Animation!engine, Animation!trigger

(* A cancelled animation is owed a reset, but it had an animator before.   *)
LEMMA ClearInv ==
    ASSUME TickInv, Animation!clearStyleCSSAnimations
    PROVE  TickInv'
  <1>1. TickTypes'
    BY DEF Animation!clearStyleCSSAnimations, Animation!cancelAnimation, TickInv,
       TickTypes, Animators, Animation!NoAnimator, Animation!trigger
  <1>2. transitions = <<>> => transitions' = <<>>
    BY DEF Animation!clearStyleCSSAnimations
  <1>3. keyframes' # Animation!NoAnimator => keyframes # Animation!NoAnimator
    BY DEF Animation!clearStyleCSSAnimations, Animation!cancelAnimation
  <1>4. "keyframes" \in resets' => keyframes # Animation!NoAnimator \/ "keyframes" \in resets
    BY DEF Animation!clearStyleCSSAnimations, Animation!cancelAnimation
  <1>5. Animation!WillTick' = Animation!WillTick
    BY DEF Animation!clearStyleCSSAnimations, Animation!WillTick, Animation!trigger
  <1> QED BY <1>1, <1>2, <1>3, <1>4, <1>5 DEF TickInv, Ticked, Animation!Ticked

LEMMA DifferInv ==
    ASSUME TickInv, Animation!onSetPropertyIntoNode
    PROVE  TickInv'
  <1>1. CASE Animation!bindTransition
    <2>1. operate_queue' \in Seq(BOOLEAN) /\ Animation!WillTick'
      BY <1>1, EnableTicks DEF Animation!bindTransition, TickInv, TickTypes
    <2>2. ids' \in [styles : Nat, animators : Nat]
      BY <1>1 DEF Animation!bindTransition, TickInv, TickTypes
    <2> QED BY <2>1, <2>2 DEF Animation!onSetPropertyIntoNode, TickInv, TickTypes,
       Ticked, Animation!Ticked
  <1>2. CASE UNCHANGED <<transitions, known, operate_queue, ids>>
    BY <1>2 DEF Animation!onSetPropertyIntoNode, TickInv, TickTypes, Ticked,
       Animation!Ticked, Animation!WillTick
  <1> QED BY <1>1, <1>2 DEF Animation!onSetPropertyIntoNode

LEMMA ZeroInv ==
    ASSUME TickInv, Animation!setCSSAnimationZeroValue
    PROVE  TickInv'
  BY DEF Animation!setCSSAnimationZeroValue, TickInv, TickTypes, Ticked,
     Animation!Ticked, Animation!WillTick, Animation!engine, Animation!trigger

LEMMA StartInv ==
    ASSUME TickInv, Animation!startCSSAnimation
    PROVE  TickInv'
  <1>1. CASE Animation!bindAnimation
    <2>1. operate_queue' \in Seq(BOOLEAN) /\ Animation!WillTick'
      BY <1>1, EnableTicks DEF Animation!bindAnimation, TickInv, TickTypes
    <2>2. ids' \in [styles : Nat, animators : Nat] /\ keyframes' \in Animators
      BY <1>1 DEF Animation!bindAnimation, TickInv, TickTypes, Animators,
         Animation!Styles
    <2> QED BY <2>1, <2>2 DEF Animation!startCSSAnimation, TickInv, TickTypes,
       Ticked, Animation!Ticked
  <1>2. CASE UNCHANGED <<keyframes, ids, operate_queue>>
    BY <1>2 DEF Animation!startCSSAnimation, TickInv, TickTypes, Ticked,
       Animation!Ticked, Animation!WillTick
  <1> QED BY <1>1, <1>2 DEF Animation!startCSSAnimation

LEMMA RemoveInv ==
    ASSUME TickInv, Animation!RemoveChild
    PROVE  TickInv'
  <1>1. keyframes' \in Animators
    BY NoAnimatorType DEF Animation!RemoveChild
  <1>2. operate_queue' \in Seq(BOOLEAN)
    BY EmptySeq DEF Animation!RemoveChild
  <1>3. triggered' \in BOOLEAN
    BY Zenon DEF Animation!RemoveChild
  <1> QED BY <1>1, <1>2, <1>3 DEF Animation!RemoveChild, TickInv, TickTypes,
     Ticked, Animation!Ticked

LEMMA TaskInv ==
    ASSUME TickInv, Animation!RunTask
    PROVE  TickInv'
  BY DEF Animation!RunTask, TickInv, TickTypes, Ticked, Animation!Ticked,
     Animation!WillTick, Animation!trigger

(* A tick: an animation that ends is still an animator, so the trigger is  *)
(* kept for the reset it is owed.                                          *)
LEMMA TickedOnce ==
    ASSUME TickInv, triggered', NEW p \in Animation!Progress, NEW q, Animation!tick(p, q),
           UNCHANGED <<style, ids>>
    PROVE  (TickTypes /\ Ticked)'
  <1>1. keyframes' = Animation!After(keyframes, p)
    BY DEF Animation!tick
  <1>2. keyframes' \in Animators
    BY <1>1 DEF Animation!After, TickInv, TickTypes, Animators
  <1>3. operate_queue' = IF Animation!isActive(keyframes', transitions') THEN <<>> ELSE <<FALSE>>
    BY DEF Animation!tick
  <1>4. "keyframes" \in resets' => keyframes' # Animation!NoAnimator
    <2>1. SUFFICES ASSUME p = "ends" PROVE keyframes' # Animation!NoAnimator
      BY DEF Animation!tick
    <2>2. keyframes' = [keyframes EXCEPT !.state = "stopped"]
      BY <1>1, <2>1 DEF Animation!After
    <2>3. keyframes'.state = "stopped"
      BY <2>2 DEF TickInv, TickTypes, Animators
    <2> QED BY <2>3 DEF Animation!NoAnimator
  <1>5. CASE Animation!isActive(keyframes', transitions')
    BY <1>2, <1>3, <1>5 DEF TickInv, TickTypes, Ticked, Animation!Ticked,
       Animation!WillTick
  <1>6. CASE ~Animation!isActive(keyframes', transitions')
    <2>1. operate_queue' \in Seq(BOOLEAN)
      BY <1>3, <1>6
    <2> QED BY <1>2, <1>4, <1>6, <2>1 DEF Animation!isActive, TickInv, TickTypes,
       Ticked, Animation!Ticked
  <1> QED BY <1>5, <1>6

(* A frame without the trigger finds nothing that waits for it.            *)
LEMMA FrameInv ==
    ASSUME TickInv, Animation!onFrame
    PROVE  TickInv'
  <1>1. triggered' = Animation!WillTick
    BY DEF Animation!onFrame, Animation!WillTick
  <1>2. triggered' \in BOOLEAN
    BY <1>1, LastIsOrder DEF Animation!WillTick, TickInv, TickTypes
  <1>3. UNCHANGED <<style, ids>>
    BY DEF Animation!onFrame
  <1>4. CASE triggered'
    <2>1. PICK p \in Animation!Progress :
                 \E q \in UNION {[1 .. n -> Animation!Progress] : n \in 0 .. Len(transitions)} :
                     Animation!tick(p, q)
      BY <1>4 DEF Animation!onFrame
    <2>2. PICK q : Animation!tick(p, q)
      BY <2>1
    <2> QED BY <1>3, <1>4, <2>2, TickedOnce, <1>2 DEF TickInv
  <1>5. CASE ~triggered'
    <2>1. operate_queue' = <<>> /\ UNCHANGED <<keyframes, transitions, resets>>
      BY <1>5 DEF Animation!onFrame
    <2>2. keyframes = Animation!NoAnimator /\ transitions = <<>> /\ "keyframes" \notin resets
      BY <1>1, <1>5 DEF TickInv, Ticked, Animation!Ticked
    <2> QED BY <1>2, <1>3, <2>1, <2>2 DEF TickInv, TickTypes, Ticked,
       Animation!Ticked
  <1> QED BY <1>4, <1>5

LEMMA TickStep == TickInv /\ [Animation!Next]_Animation!vars => TickInv'
  <1> SUFFICES ASSUME TickInv, [Animation!Next]_Animation!vars PROVE TickInv'
    OBVIOUS
  <1>1. CASE \E s \in Animation!Styles : Animation!SetStyle(s)
    BY <1>1, SetStyleInv
  <1>2. CASE \/ Animation!clearStyleCSSAnimations
             \/ Animation!onSetPropertyIntoNode
             \/ Animation!setCSSAnimationZeroValue
    BY <1>2, ClearInv, DifferInv, ZeroInv
  <1>3. CASE Animation!startCSSAnimation \/ Animation!RemoveChild
    BY <1>3, StartInv, RemoveInv
  <1>4. CASE Animation!RunTask \/ Animation!onFrame
    BY <1>4, TaskInv, FrameInv
  <1>5. CASE UNCHANGED Animation!vars
    BY <1>5 DEF Animation!vars, Animation!engine, Animation!trigger, TickInv,
       TickTypes, Ticked, Animation!Ticked, Animation!WillTick
  <1> QED BY <1>1, <1>2, <1>3, <1>4, <1>5 DEF Animation!Next

(* AlwaysTicked: Ticked in every state, across any interleaving of styles, *)
(* layouts, frames and removals (frame_trigger_master.cpp:98-149).         *)
THEOREM AlwaysTicked == Animation!Spec => []Ticked
  <1>1. TickInv => Ticked
    BY DEF TickInv
  <1> QED BY <1>1, TickInit, TickStep, PTL DEF Animation!Spec

-----------------------------------------------------------------------------
(***************************************************************************)
(* UniqueWeakPtrQueue.  DequeAndSet is inductive with the types; what the  *)
(* loops over the deque keep is a theorem about lists.                     *)
(***************************************************************************)
QueueTypes ==
    /\ queue \in Seq(Dirty)
    /\ set \subseteq Dirty /\ owned \subseteq Dirty /\ dirty \subseteq Dirty

(* DequeAndSet without the list of live nodes.                             *)
Waiting ==
    /\ ToSet(queue) \cap owned = dirty \cap owned
    /\ set \cap owned = dirty \cap owned
    /\ IsInjective(queue)

QueueInv == QueueTypes /\ Waiting

LEMMA SameLists ==
    /\ \A s, gone : Queue!Without(s, gone) = Without(s, gone)
    /\ \A s : Queue!ToSet(s) = ToSet(s) /\ (Queue!IsInjective(s) <=> IsInjective(s))
BY DEF Queue!Without, Queue!FoldLeft, Queue!MapThenFoldSet, Queue!Max, Queue!ToSet,
       Queue!IsInjective, Without, FoldLeft, MapThenFoldSet, Max, ToSet, IsInjective

(* Live drops the expired pointers, nothing else, and keeps the order.     *)
LEMMA LiveOnes ==
    ASSUME NEW q \in Seq(Dirty), NEW a \in SUBSET Dirty
    PROVE  /\ Without(q, Dirty \ a) \in Seq(Dirty)
           /\ ToSet(Without(q, Dirty \ a)) = ToSet(q) \cap a
<1>1. ToSet(q) \subseteq Dirty
  BY DEF ToSet
<1>2. /\ Without(q, Dirty \ a) \in Seq(Dirty)
      /\ ToSet(Without(q, Dirty \ a)) = ToSet(q) \ (Dirty \ a)
  BY WithoutKeeps
<1> QED BY <1>1, <1>2

(* What a loop leaves of a list without duplicates has none.               *)
LEMMA WithoutInjective ==
    ASSUME NEW C, NEW s \in Seq(C), NEW gone, IsInjective(s)
    PROVE  IsInjective(Without(s, gone))
<1> DEFINE w == Without(s, gone)
<1>1. w \in Seq(C)
  BY WithoutKeeps
<1>2. PICK at \in [1 .. Len(w) -> 1 .. Len(s)] :
         /\ \A i \in 1 .. Len(w) : w[i] = s[at[i]]
         /\ \A i, j \in 1 .. Len(w) : i < j => at[i] < at[j]
  BY WithoutKeeps
<1> HIDE DEF w
<1>3. SUFFICES ASSUME NEW i \in 1 .. Len(w), NEW j \in 1 .. Len(w), w[i] = w[j], i < j
               PROVE  FALSE
  <2>1. DOMAIN w = 1 .. Len(w) /\ \A i, j \in 1 .. Len(w) : i < j \/ j < i \/ i = j
    BY <1>1
  <2> QED BY <2>1 DEF IsInjective, w
<1>4. at[i] \in 1 .. Len(s) /\ at[j] \in 1 .. Len(s) /\ at[i] < at[j] /\ s[at[i]] = s[at[j]]
  BY <1>2, <1>3
<1>5. DOMAIN s = 1 .. Len(s)
  OBVIOUS
<1> QED BY <1>4, <1>5 DEF IsInjective

LEMMA WaitingHolds == QueueTypes => (DequeAndSet <=> Waiting)
<1> SUFFICES ASSUME QueueTypes PROVE DequeAndSet <=> Waiting
  OBVIOUS
<1>1. ToSet(Queue!Live(queue)) = ToSet(queue) \cap owned
  BY LiveOnes, SameLists DEF Queue!Live, QueueTypes
<1> QED BY <1>1, SameLists DEF DequeAndSet, Queue!DequeAndSet, Queue!WaitsInDeque,
          Queue!EmptyIsTrue, Waiting

LEMMA QueueInit == Queue!Init => QueueInv
<1> SUFFICES ASSUME Queue!Init PROVE QueueInv
  OBVIOUS
<1>1. ToSet(queue) = {} /\ IsInjective(queue) /\ queue \in Seq(Dirty)
  BY DEF Queue!Init, ToSet, IsInjective
<1> QED BY <1>1 DEF Queue!Init, QueueInv, QueueTypes, Waiting

LEMMA PushInv ==
    ASSUME QueueInv, NEW n \in Dirty, Queue!push(n)
    PROVE  QueueInv'
<1>1. /\ n \in owned /\ owned' = owned
      /\ set' = set \cup {n} /\ dirty' = dirty \cup {n}
      /\ queue' = IF n \in set THEN queue ELSE Append(queue, n)
  BY DEF Queue!push, Queue!Pushed
<1>2. CASE n \in set
  BY <1>1, <1>2 DEF QueueInv, QueueTypes, Waiting
<1>3. CASE n \notin set
  <2>1. n \notin ToSet(queue)
    BY <1>1, <1>3 DEF QueueInv, Waiting
  <2>2. ToSet(queue') = ToSet(queue) \cup {n} /\ queue' \in Seq(Dirty)
    BY <1>1, <1>3, AppendedSet DEF QueueInv, QueueTypes
  <2>3. IsInjective(queue')
    <3>1. /\ DOMAIN queue' = 1 .. Len(queue) + 1 /\ queue'[Len(queue) + 1] = n
          /\ \A i \in 1 .. Len(queue) : queue'[i] = queue[i]
          /\ DOMAIN queue = 1 .. Len(queue) /\ Len(queue) \in Nat
      BY <1>1, <1>3 DEF QueueInv, QueueTypes
    <3>2. \A i \in 1 .. Len(queue) : queue[i] # n
      BY <2>1, <3>1 DEF ToSet
    <3>3. \A i \in 1 .. Len(queue) + 1 : i \in 1 .. Len(queue) \/ i = Len(queue) + 1
      BY <3>1
    <3> QED BY <3>1, <3>2, <3>3 DEF QueueInv, Waiting, IsInjective
  <2> QED BY <1>1, <2>2, <2>3 DEF QueueInv, QueueTypes, Waiting
<1> QED BY <1>2, <1>3

(* pop's node is the first one alive: it leaves the deque and the set.     *)
LEMMA PopLiveInv ==
    ASSUME QueueInv, Queue!PopLive
    PROVE  QueueInv' /\ set' \subseteq set /\ set' # set
<1>1. PICK i \in DOMAIN queue :
         /\ queue[i] \in owned
         /\ \A j \in 1 .. i - 1 : queue[j] \notin owned
         /\ queue' = SubSeq(queue, i + 1, Len(queue))
         /\ set' = set \ {queue[i]}
         /\ dirty' = dirty \ {queue[i]}
  BY DEF Queue!PopLive, Queue!SetAfterPop
<1>2. owned' = owned
  BY DEF Queue!PopLive
<1> DEFINE n == Len(queue) - i
<1>3. /\ i \in 1 .. Len(queue) /\ Len(queue) \in Nat /\ DOMAIN queue = 1 .. Len(queue)
      /\ \A j \in 1 .. Len(queue) : queue[j] \in Dirty
  BY DEF QueueInv, QueueTypes
<1>4. /\ queue' \in Seq(Dirty) /\ DOMAIN queue' = 1 .. n /\ n \in Nat
      /\ \A j \in 1 .. n : queue'[j] = queue[i + j] /\ i + j \in 1 .. Len(queue)
  <2>1. \A j \in i + 1 .. Len(queue) : queue[j] \in Dirty
    BY <1>3
  <2>2. /\ n \in Nat /\ i + 1 \in Int /\ Len(queue) \in Int
        /\ (IF i + 1 <= Len(queue) THEN Len(queue) - (i + 1) + 1 ELSE 0) = n
        /\ Len(queue) - (i + 1) + 1 = n
    BY <1>3
  <2>3. \A j \in 1 .. n : (i + 1) + j - 1 = i + j /\ i + j \in 1 .. Len(queue)
    BY <1>3
  <2> HIDE DEF n
  <2>4. /\ queue' \in Seq(Dirty) /\ Len(queue') = n
        /\ \A j \in 1 .. n : queue'[j] = queue[(i + 1) + j - 1]
    BY <1>1, <2>1, <2>2, SubSeqProperties
  <2>5. DOMAIN queue' = 1 .. n
    BY <2>4
  <2>6. \A j \in 1 .. n : queue'[j] = queue[i + j] /\ i + j \in 1 .. Len(queue)
    <3> TAKE j \in 1 .. n
    <3>1. queue'[j] = queue[(i + 1) + j - 1] BY <2>4
    <3>2. (i + 1) + j - 1 = i + j /\ i + j \in 1 .. Len(queue) BY <2>3
    <3> QED BY <3>1, <3>2
  <2> QED BY <2>2, <2>4, <2>5, <2>6
<1> HIDE DEF n
<1>5. ToSet(queue') \cap owned = (ToSet(queue) \cap owned) \ {queue[i]}
  <2>1. ASSUME NEW x \in ToSet(queue') PROVE x \in ToSet(queue) /\ x # queue[i]
    <3>1. PICK j \in 1 .. n : x = queue[i + j] /\ i + j \in 1 .. Len(queue)
      BY <2>1, <1>4 DEF ToSet
    <3>2. i + j # i
      BY <1>3, <1>4
    <3> QED BY <1>3, <3>1, <3>2 DEF ToSet, QueueInv, Waiting, IsInjective
  <2>2. ASSUME NEW x \in ToSet(queue) \cap owned, x # queue[i] PROVE x \in ToSet(queue')
    <3>1. PICK j \in 1 .. Len(queue) : x = queue[j]
      BY <1>3 DEF ToSet
    <3>2. j > i
      <4>1. j \notin 1 .. i - 1 /\ j # i
        BY <1>1, <2>2, <3>1
      <4> QED BY <1>3, <4>1
    <3>3. j - i \in 1 .. n /\ i + (j - i) = j
      BY <1>3, <3>2 DEF n
    <3>4. x = queue'[j - i]
      BY <1>4, <3>1, <3>3
    <3> QED BY <1>4, <3>3, <3>4 DEF ToSet
  <2> QED BY <2>1, <2>2
<1>6. IsInjective(queue')
  <2> SUFFICES ASSUME NEW j \in 1 .. n, NEW k \in 1 .. n, queue'[j] = queue'[k] PROVE j = k
    BY <1>4 DEF IsInjective
  <2>1. i + j = i + k
    BY <1>3, <1>4 DEF QueueInv, Waiting, IsInjective
  <2> QED BY <1>3, <1>4, <2>1
<1>7. queue[i] \in set
  <2>1. queue[i] \in ToSet(queue) \cap owned
    BY <1>1 DEF ToSet
  <2> QED BY <2>1 DEF QueueInv, Waiting
<1> QED BY <1>1, <1>2, <1>4, <1>5, <1>6, <1>7 DEF QueueInv, QueueTypes, Waiting

(* pop that finds nobody alive leaves no id behind.                        *)
LEMMA PopNothingInv ==
    ASSUME QueueInv, Queue!PopNothing
    PROVE  QueueInv' /\ set' \subseteq set /\ set' # set
<1>1. ToSet(queue) \cap owned = {}
  <2>1. ToSet(Without(queue, Dirty \ owned)) = ToSet(queue) \cap owned
    BY LiveOnes DEF QueueInv, QueueTypes
  <2>2. Without(queue, Dirty \ owned) = <<>>
    BY SameLists DEF Queue!PopNothing, Queue!Live
  <2> QED BY <2>1, <2>2 DEF ToSet
<1>2. ToSet(queue') = {} /\ IsInjective(queue') /\ queue' \in Seq(Dirty)
  BY DEF Queue!PopNothing, ToSet, IsInjective
<1> QED BY <1>1, <1>2 DEF Queue!PopNothing, Queue!empty, Queue!SetWhenNoneLeft, QueueInv,
          QueueTypes, Waiting

(* Painting a subtree locally: what is painted leaves both.                *)
LEMMA PaintLocalInv ==
    ASSUME QueueInv, Queue!FlushPaintLocalSync
    PROVE  QueueInv'
<1> DEFINE left == Without(queue, Dirty \ owned)
<1>1. left \in Seq(Dirty) /\ ToSet(left) = ToSet(queue) \cap owned /\ IsInjective(left)
  BY LiveOnes, WithoutInjective DEF QueueInv, QueueTypes, Waiting
<1>2. PICK painted \in SUBSET ToSet(left) :
         /\ queue' = Without(left, painted)
         /\ set' = set \ painted /\ dirty' = dirty \ painted
  <2>1. Queue!Live(queue) = left
    BY SameLists DEF Queue!Live
  <2> QED BY <2>1, SameLists DEF Queue!FlushPaintLocalSync, Queue!SetAfterLocal
<1>3. owned' = owned
  BY DEF Queue!FlushPaintLocalSync
<1> HIDE DEF left
<1>4. /\ queue' \in Seq(Dirty) /\ ToSet(queue') = ToSet(left) \ painted
      /\ IsInjective(queue')
  BY <1>1, <1>2, WithoutKeeps, WithoutInjective
<1> QED BY <1>1, <1>2, <1>3, <1>4 DEF QueueInv, QueueTypes, Waiting

LEMMA QueueStep == QueueInv /\ [Queue!Next]_Queue!vars => QueueInv'
<1> SUFFICES ASSUME QueueInv, [Queue!Next]_Queue!vars PROVE QueueInv'
  OBVIOUS
<1>1. ASSUME NEW n \in Dirty, Queue!push(n) PROVE QueueInv'
  BY <1>1, PushInv
<1>2. ASSUME NEW n \in Dirty, Queue!Expire(n) PROVE QueueInv'
  BY <1>2 DEF Queue!Expire, QueueInv, QueueTypes, Waiting
<1>3. CASE Queue!Pop
  BY <1>3, PopLiveInv, PopNothingInv DEF Queue!Pop
<1>4. CASE Queue!FlushPaintLocalSync
  BY <1>4, PaintLocalInv
<1>5. CASE Queue!clear
  <2>1. ToSet(queue') = {} /\ IsInjective(queue') /\ queue' \in Seq(Dirty)
    BY <1>5 DEF Queue!clear, ToSet, IsInjective
  <2> QED BY <1>5, <2>1 DEF Queue!clear, QueueInv, QueueTypes, Waiting
<1>6. CASE UNCHANGED Queue!vars
  BY <1>6 DEF Queue!vars, QueueInv, QueueTypes, Waiting
<1> QED BY <1>1, <1>2, <1>3, <1>4, <1>5, <1>6 DEF Queue!Next

(* DequeAndSetAgree: for any nodes, after any mix of marks, deaths, pops   *)
(* and local paints, a live node is dirty exactly when the deque has it,   *)
(* once, and exactly when the set does (dirty_vsync_task.h:70-101).        *)
THEOREM DequeAndSetAgree == Queue!Spec => []DequeAndSet
<1>1. QueueInv => DequeAndSet
  BY WaitingHolds DEF QueueInv
<1> QED BY QueueInit, QueueStep, <1>1, PTL DEF Queue!Spec

(* PopAlwaysProgresses: each pop makes the set smaller, so a loop `while   *)
(* (!empty()) pop()' ends (dirty_vsync_task.cpp:116, 125, 139, 169).       *)
THEOREM PopAlwaysProgresses == Queue!Spec => PopMakesProgress
<1>1. QueueInv /\ [Queue!Next]_Queue!vars
        => [Queue!Pop => set' \subseteq set /\ set' # set]_Queue!vars
  BY PopLiveInv, PopNothingInv DEF Queue!Pop
<1> QED BY QueueInit, QueueStep, <1>1, PTL
        DEF Queue!Spec, PopMakesProgress, Queue!PopMakesProgress

(***************************************************************************)
(* ImageLoader: the answers.                                               *)
(***************************************************************************)
Progress == {"new", "fetching", "refused", "fetched", "writing", "caching", "done"}

(* The answers that are due to a load, given or on their way.              *)
Due(q) ==
    IF q.at \in {"new", "fetching", "refused"} THEN 0 ELSE IF q.written THEN 1 ELSE 2

Awaited(p, r) == {i \in DOMAIN p : p[i] = r}

Loads == [url : Urls \cup {None}, at : Progress, image : Nat, written : BOOLEAN]
Sound(q) == /\ q.at \notin {"new", "refused"} => q.url \in Urls
            /\ q.at # "done" => q.written

RequestTypes ==
    /\ request \in [Requests -> Loads]
    /\ \A r \in Requests : Sound(request[r])

AnswersInv ==
    /\ RequestTypes
    /\ posted \in Seq(Requests) /\ answers \in [Requests -> Nat]
    /\ \A r \in Requests :
          answers[r] + Cardinality(Awaited(posted, r)) = Due(request[r])

(* What push_back and pop_front do to the number of times r is in a list.  *)
LEMMA AwaitedFinite ==
    ASSUME NEW p \in Seq(Requests), NEW r
    PROVE  IsFiniteSet(Awaited(p, r)) /\ Cardinality(Awaited(p, r)) \in Nat
<1>1. Len(p) \in Nat /\ DOMAIN p = 1 .. Len(p) /\ 1 \in Int /\ Len(p) \in Int
  OBVIOUS
<1>2. IsFiniteSet(1 .. Len(p))
  BY <1>1, FS_Interval
<1>3. Awaited(p, r) \in SUBSET (1 .. Len(p))
  BY <1>1 DEF Awaited
<1>4. IsFiniteSet(Awaited(p, r))
  BY <1>2, <1>3, FS_Subset
<1> QED BY <1>4, FS_CardinalityType

LEMMA AwaitedPushed ==
    ASSUME NEW p \in Seq(Requests), NEW q \in Requests, NEW r
    PROVE  Cardinality(Awaited(Append(p, q), r)) =
               Cardinality(Awaited(p, r)) + (IF q = r THEN 1 ELSE 0)
<1> DEFINE n == Len(p)
           w == Append(p, q)
<1>1. /\ n \in Nat /\ DOMAIN p = 1 .. n /\ DOMAIN w = 1 .. n + 1
      /\ w[n + 1] = q /\ \A i \in 1 .. n : w[i] = p[i]
  OBVIOUS
<1>2. \A i \in 1 .. n + 1 : i \in 1 .. n \/ i = n + 1
  BY <1>1
<1>3. \A i \in 1 .. n : i \in 1 .. n + 1 /\ i # n + 1
  BY <1>1
<1>4. n + 1 \in 1 .. n + 1
  BY <1>1
<1> HIDE DEF n, w
<1>5. CASE q = r
  <2>1. Awaited(w, r) = Awaited(p, r) \cup {n + 1} /\ n + 1 \notin Awaited(p, r)
    BY <1>1, <1>2, <1>3, <1>4, <1>5, Zenon DEF Awaited
  <2>2. Cardinality(Awaited(w, r)) = Cardinality(Awaited(p, r)) + 1
    BY <2>1, AwaitedFinite, FS_AddElement, Zenon
  <2> QED BY <1>5, <2>2 DEF w
<1>6. CASE q # r
  <2>1. Awaited(w, r) = Awaited(p, r)
    BY <1>1, <1>2, <1>3, <1>4, <1>6, Zenon DEF Awaited
  <2> QED BY <1>6, <2>1, AwaitedFinite DEF w
<1> QED BY <1>5, <1>6

LEMMA AwaitedPopped ==
    ASSUME NEW p \in Seq(Requests), NEW r, p # <<>>
    PROVE  Cardinality(Awaited(p, r)) =
               Cardinality(Awaited(Tail(p), r)) + (IF Head(p) = r THEN 1 ELSE 0)
<1> DEFINE n == Len(p)
           t == Tail(p)
           behind == Awaited(p, r) \ {1}
           f == [i \in behind |-> i - 1]
<1>1. /\ t \in Seq(Requests) /\ Len(t) = n - 1 /\ n \in Nat /\ n > 0
      /\ DOMAIN t = 1 .. n - 1 /\ DOMAIN p = 1 .. n
      /\ \A i \in 1 .. n - 1 : t[i] = p[i + 1]
      /\ Head(p) = p[1]
  BY HeadTailProperties
<1>2. ASSUME NEW i \in behind PROVE i - 1 \in Awaited(t, r) /\ i \in Int
  <2>1. i \in 1 .. n /\ i # 1 /\ p[i] = r
    BY <1>1 DEF Awaited
  <2>2. i - 1 \in 1 .. n - 1 /\ (i - 1) + 1 = i
    BY <1>1, <2>1
  <2>3. t[i - 1] = r
    BY <1>1, <2>1, <2>2
  <2> QED BY <1>1, <2>1, <2>2, <2>3 DEF Awaited
<1>3. ASSUME NEW j \in Awaited(t, r) PROVE j + 1 \in behind /\ j \in Int
  <2>1. j \in 1 .. n - 1 /\ t[j] = r
    BY <1>1 DEF Awaited
  <2>2. j + 1 \in 1 .. n /\ j + 1 # 1
    BY <1>1, <2>1
  <2> QED BY <1>1, <2>1, <2>2 DEF Awaited
<1>4. f \in Bijection(behind, Awaited(t, r))
  <2> HIDE DEF behind
  <2>1. f \in [behind -> Awaited(t, r)]
    BY <1>2
  <2>2. f \in Injection(behind, Awaited(t, r))
    BY <1>2, <2>1 DEF Injection, IsInjective
  <2>3. f \in Surjection(behind, Awaited(t, r))
    <3> SUFFICES ASSUME NEW j \in Awaited(t, r) PROVE \E i \in behind : f[i] = j
      BY <2>1 DEF Surjection
    <3>1. j + 1 \in behind /\ f[j + 1] = j
      BY <1>3
    <3> QED BY <3>1
  <2> QED BY <2>2, <2>3 DEF Bijection
<1> HIDE DEF f, t
<1>5. IsFiniteSet(Awaited(p, r)) /\ Cardinality(Awaited(p, r)) \in Nat
  BY AwaitedFinite
<1>6. /\ IsFiniteSet(behind)
      /\ Cardinality(behind) = IF 1 \in Awaited(p, r) THEN Cardinality(Awaited(p, r)) - 1
                               ELSE Cardinality(Awaited(p, r))
  BY <1>5, FS_RemoveElement
<1> HIDE DEF behind
<1>7. Cardinality(Awaited(t, r)) = Cardinality(behind)
  BY <1>4, <1>6, FS_Bijection DEF ExistsBijection
<1>8. 1 \in Awaited(p, r) <=> Head(p) = r
  BY <1>1 DEF Awaited
<1> QED BY <1>5, <1>6, <1>7, <1>8 DEF t

-----------------------------------------------------------------------------
LEMMA AnswersInit == Image!Init => AnswersInv
<1> SUFFICES ASSUME Image!Init PROVE AnswersInv
  OBVIOUS
<1>1. \A r : Awaited(<<>>, r) = {}
  BY DEF Awaited
<1>2. \A r : Cardinality(Awaited(<<>>, r)) = 0
  BY <1>1, FS_EmptySet
<1>3. /\ request = [r \in Requests |-> [url |-> None, at |-> "new", image |-> 0, written |-> TRUE]]
      /\ posted = <<>> /\ answers = [r \in Requests |-> 0]
  BY DEF Image!Init
<1>4. RequestTypes
  BY <1>3 DEF RequestTypes, Loads, Sound, Progress
<1>5. posted \in Seq(Requests) /\ answers \in [Requests -> Nat]
  BY <1>3
<1>6. \A r \in Requests : answers[r] + Cardinality(Awaited(posted, r)) = Due(request[r])
  BY <1>2, <1>3 DEF Due
<1> QED BY <1>4, <1>5, <1>6 DEF AnswersInv

(* A step of load r alone, which answers it `given' times at once and      *)
(* posts `sent' answers, both counted in what is due.                      *)
Counted(r, q, given, sent) ==
    /\ q \in Loads /\ Sound(q)
    /\ given \in {0, 1} /\ sent \in {0, 1}
    /\ Due(q) = Due(request[r]) + given + sent
    /\ request' = [request EXCEPT ![r] = q]
    /\ answers' = IF given = 1 THEN [answers EXCEPT ![r] = @ + 1] ELSE answers
    /\ posted' = IF sent = 1 THEN Append(posted, r) ELSE posted

LEMMA LoadStep ==
    ASSUME AnswersInv, NEW r \in Requests, NEW q, NEW given, NEW sent,
           Counted(r, q, given, sent)
    PROVE  AnswersInv'
<1> USE DEF Counted
<1>1. RequestTypes'
  BY DEF AnswersInv, RequestTypes
<1>2. posted' \in Seq(Requests) /\ answers' \in [Requests -> Nat]
  BY DEF AnswersInv
<1>3. ASSUME NEW o \in Requests
      PROVE  answers'[o] + Cardinality(Awaited(posted', o)) = Due(request'[o])
  <2>1. /\ answers[o] \in Nat /\ Cardinality(Awaited(posted, o)) \in Nat
        /\ answers[o] + Cardinality(Awaited(posted, o)) = Due(request[o])
    BY AwaitedFinite DEF AnswersInv
  <2>2. answers'[o] = answers[o] + (IF o = r THEN given ELSE 0)
    BY <2>1 DEF AnswersInv
  <2>3. Cardinality(Awaited(posted', o)) =
          Cardinality(Awaited(posted, o)) + (IF o = r THEN sent ELSE 0)
    <3>1. CASE sent = 1
      BY <3>1, AwaitedPushed DEF AnswersInv
    <3>2. CASE sent = 0
      BY <3>2, <2>1
    <3> QED BY <3>1, <3>2
  <2>4. request'[o] = IF o = r THEN q ELSE request[o]
    BY DEF AnswersInv, RequestTypes
  <2>5. Due(request'[o]) = IF o = r THEN Due(request[o]) + given + sent ELSE Due(request[o])
    <3>1. CASE o = r
      BY <2>4, <3>1
    <3>2. CASE o # r
      BY <2>4, <3>2
    <3> QED BY <3>1, <3>2
  <2>6. Due(request[o]) \in Int
    BY DEF Due
  <2> QED BY <2>1, <2>2, <2>3, <2>5, <2>6
<1> QED BY <1>1, <1>2, <1>3 DEF AnswersInv

LEMMA PoppedStep ==
    ASSUME AnswersInv, Image!runPosted
    PROVE  AnswersInv'
<1>1. /\ posted # <<>> /\ posted' = Tail(posted) /\ request' = request
      /\ answers' = [answers EXCEPT ![Head(posted)] = @ + 1]
  BY DEF Image!runPosted, Image!onCallback
<1>2. Head(posted) \in Requests /\ posted' \in Seq(Requests)
  BY <1>1, TailWithin DEF AnswersInv
<1>3. RequestTypes' /\ answers' \in [Requests -> Nat]
  BY <1>1, <1>2 DEF AnswersInv, RequestTypes
<1>4. ASSUME NEW o \in Requests
      PROVE  answers'[o] + Cardinality(Awaited(posted', o)) = Due(request'[o])
  <2>1. /\ answers[o] \in Nat /\ Cardinality(Awaited(posted', o)) \in Nat
        /\ answers[o] + Cardinality(Awaited(posted, o)) = Due(request[o])
    BY <1>2, AwaitedFinite DEF AnswersInv
  <2>2. Cardinality(Awaited(posted, o)) =
          Cardinality(Awaited(posted', o)) + (IF Head(posted) = o THEN 1 ELSE 0)
    BY <1>1, AwaitedPopped DEF AnswersInv
  <2>3. answers'[o] = answers[o] + (IF Head(posted) = o THEN 1 ELSE 0)
    BY <1>1, <1>2 DEF AnswersInv
  <2>4. Due(request'[o]) = Due(request[o])
    BY <1>1
  <2>5. CASE Head(posted) = o
    BY <2>1, <2>2, <2>3, <2>4, <2>5
  <2>6. CASE Head(posted) # o
    BY <2>1, <2>2, <2>3, <2>4, <2>6
  <2> QED BY <2>5, <2>6
<1> QED BY <1>2, <1>3, <1>4 DEF AnswersInv

LEMMA AnswersStep == AnswersInv /\ [Image!Next]_Image!vars => AnswersInv'
<1> SUFFICES ASSUME AnswersInv, [Image!Next]_Image!vars PROVE AnswersInv'
  OBVIOUS
<1>0. ASSUME NEW r \in Requests
      PROVE  request[r] \in Loads /\ Sound(request[r])
  BY DEF AnswersInv, RequestTypes
<1>1. ASSUME NEW r \in Requests, NEW u \in Urls, NEW at \in {"done", "fetching", "refused"},
             Image!Started(r, u, at),
             IF at = "done" THEN Image!onCallback(r) ELSE answers' = answers
      PROVE  AnswersInv'
  <2> DEFINE q == [url |-> u, at |-> at, image |-> 0, written |-> TRUE]
  <2>1. /\ request[r].at = "new" /\ posted' = posted
        /\ request' = [request EXCEPT ![r] = q]
        /\ answers' = IF at = "done" THEN [answers EXCEPT ![r] = @ + 1] ELSE answers
    BY <1>1 DEF Image!Started, Image!onCallback
  <2>2. q \in Loads /\ Sound(q)
    BY <1>1 DEF Loads, Sound, Progress
  <2>3. Due(q) = Due(request[r]) + (IF at = "done" THEN 1 ELSE 0) + 0
    BY <2>1, <1>1 DEF Due
  <2> HIDE DEF q
  <2>5. Counted(r, q, IF at = "done" THEN 1 ELSE 0, 0)
    BY <1>1, <2>1, <2>2, <2>3 DEF Counted
  <2> QED BY <2>5, LoadStep, Zenon
<1>2. ASSUME NEW r \in Requests, Image!downloadFailed(r) PROVE AnswersInv'
  <2> DEFINE q == [request[r] EXCEPT !.at = "done"]
  <2>1. /\ request[r].at = "fetching" /\ posted' = Append(posted, r) /\ answers' = answers
        /\ request' = [request EXCEPT ![r] = q]
    BY <1>0, <1>2 DEF Image!downloadFailed, Image!runTask, Image!Goes
  <2>2. q \in Loads /\ Sound(q) /\ Due(q) = Due(request[r]) + 0 + 1
    BY <1>0, <2>1 DEF Loads, Sound, Progress, Due
  <2> HIDE DEF q
  <2>5. Counted(r, q, 0, 1)
    BY <2>1, <2>2 DEF Counted
  <2> QED BY <2>5, LoadStep, Zenon
<1>3. ASSUME NEW r \in Requests, NEW size \in Sizes \cup {0}, Image!loadImageFromData(r, size)
      PROVE  AnswersInv'
  <2> DEFINE q == [request[r] EXCEPT !.at = "fetched", !.image = size]
  <2>1. /\ request[r].at = "fetching" /\ posted' = Append(posted, r) /\ answers' = answers
        /\ request' = [request EXCEPT ![r] = q]
    BY <1>3 DEF Image!loadImageFromData, Image!runTask
  <2>2. q \in Loads
    <3>1. size \in Nat
      BY ImageAssumption DEF Image!ConstantsTyped
    <3> HIDE DEF q
    <3>2. q = [request[r] EXCEPT !.at = "fetched", !.image = size]
      BY DEF q
    <3>3. "fetched" \in Progress
      BY DEF Progress
    <3> QED BY <1>0, <3>1, <3>2, <3>3 DEF Loads
  <2>3. q.at = "fetched" /\ q.url = request[r].url /\ q.written = request[r].written
    BY <1>0 DEF Loads
  <2>4. Sound(q) /\ Due(q) = Due(request[r]) + 0 + 1
    BY <1>0, <2>1, <2>3 DEF Sound, Due
  <2> HIDE DEF q
  <2>5. Counted(r, q, 0, 1)
    BY <2>1, <2>2, <2>4 DEF Counted
  <2> QED BY <2>5, LoadStep, Zenon
<1>4. ASSUME NEW r \in Requests, Image!OpenFile(r) PROVE AnswersInv'
  <2> DEFINE q == [request[r] EXCEPT !.at = "writing"]
  <2>1. /\ request[r].at = "fetched" /\ posted' = posted /\ answers' = answers
        /\ request' = [request EXCEPT ![r] = q]
    BY <1>0, <1>4 DEF Image!OpenFile, Image!Goes
  <2>2. q \in Loads /\ Sound(q) /\ Due(q) = Due(request[r]) + 0 + 0
    BY <1>0, <2>1 DEF Loads, Sound, Progress, Due
  <2> HIDE DEF q
  <2>5. Counted(r, q, 0, 0)
    BY <2>1, <2>2 DEF Counted
  <2> QED BY <2>5, LoadStep, Zenon
<1>5. ASSUME NEW r \in Requests, Image!WriteFile(r) PROVE AnswersInv'
  <2> DEFINE at == IF request[r].image > 0 THEN "caching" ELSE "done"
             q == [request[r] EXCEPT !.at = at]
  <2>1. /\ request[r].at = "writing" /\ posted' = posted /\ answers' = answers
        /\ request' = [request EXCEPT ![r] = q]
    BY <1>0, <1>5 DEF Image!WriteFile, Image!Goes
  <2>2. at \in {"caching", "done"}
    OBVIOUS
  <2> HIDE DEF at
  <2>3. q \in Loads /\ Sound(q) /\ Due(q) = Due(request[r]) + 0 + 0
    BY <1>0, <2>1, <2>2 DEF Loads, Sound, Progress, Due
  <2> HIDE DEF q
  <2>5. Counted(r, q, 0, 0)
    BY <2>1, <2>3 DEF Counted
  <2> QED BY <2>5, LoadStep, Zenon
<1>6. ASSUME NEW r \in Requests, Image!WriteFileFailed(r) PROVE AnswersInv'
  <2> DEFINE q == [request[r] EXCEPT !.at = "done", !.written = FALSE]
  <2>1. /\ request[r].at \in {"fetched", "writing"}
        /\ posted' = Append(posted, r) /\ answers' = answers
        /\ request' = [request EXCEPT ![r] = q]
    BY <1>6 DEF Image!WriteFileFailed, Image!runTask
  <2>2. q \in Loads
    BY <1>0 DEF Loads, Progress
  <2>3. q.at = "done" /\ ~q.written
    BY <1>0 DEF Loads
  <2>4. Sound(q) /\ Due(q) = Due(request[r]) + 0 + 1
    BY <1>0, <2>1, <2>3 DEF Sound, Due
  <2> HIDE DEF q
  <2>5. Counted(r, q, 0, 1)
    BY <2>1, <2>2, <2>4 DEF Counted
  <2> QED BY <2>5, LoadStep, Zenon
<1>7. ASSUME NEW r \in Requests, Image!cacheDownloaded(r) PROVE AnswersInv'
  <2> DEFINE q == [request[r] EXCEPT !.at = "done"]
  <2>1. /\ request[r].at = "caching" /\ posted' = posted /\ answers' = answers
        /\ request' = [request EXCEPT ![r] = q]
    BY <1>0, <1>7 DEF Image!cacheDownloaded, Image!Goes
  <2>2. q \in Loads /\ Sound(q) /\ Due(q) = Due(request[r]) + 0 + 0
    BY <1>0, <2>1 DEF Loads, Sound, Progress, Due
  <2> HIDE DEF q
  <2>5. Counted(r, q, 0, 0)
    BY <2>1, <2>2 DEF Counted
  <2> QED BY <2>5, LoadStep, Zenon
<1>8. ASSUME NEW r \in Requests, NEW u \in Urls,
             \/ Image!loadCached(r, u) \/ Image!loadImageFromUri(r, u) \/ Image!Download(r, u)
      PROVE  AnswersInv'
  <2>1. CASE Image!loadCached(r, u) \/ Image!loadImageFromUri(r, u)
    BY <1>1, <2>1 DEF Image!loadCached, Image!loadImageFromUri
  <2>2. CASE Image!Download(r, u)
    <3>1. PICK at \in {"fetching", "refused"} : Image!Started(r, u, at)
      BY <2>2 DEF Image!Download
    <3>2. answers' = answers /\ at # "done" /\ at \in {"done", "fetching", "refused"}
      BY <2>2 DEF Image!Download
    <3> QED BY <1>1, <3>1, <3>2
  <2> QED BY <1>8, <2>1, <2>2
<1>9. CASE Image!runPosted
  BY <1>9, PoppedStep
<1>10. CASE UNCHANGED Image!vars
  BY <1>10 DEF Image!vars, AnswersInv, RequestTypes
<1> QED BY <1>2, <1>3, <1>4, <1>5, <1>6, <1>7, <1>8, <1>9, <1>10 DEF Image!Next

(* EachAnsweredOnce: for any number of loads and urls, whatever fails and  *)
(* in whichever order downloads, writes and posted answers come, a load    *)
(* that is over has been answered once, but for the code's two exceptions  *)
(* (helper/ImageLoader.cpp, loadImage and the callback of its download).   *)
THEOREM EachAnsweredOnce == Image!Spec => []AnsweredOnce
<1>1. AnswersInv => AnsweredOnce
  <2> SUFFICES ASSUME AnswersInv, NEW r \in Requests,
                      request[r].at \in {"done", "refused"}, r \notin {posted[i] : i \in DOMAIN posted}
               PROVE  answers[r] = CASE request[r].at = "refused" -> 0
                                     [] ~request[r].written -> 2
                                     [] OTHER -> 1
    BY DEF AnsweredOnce, Image!AnsweredOnce, Image!ToSet
  <2>1. Awaited(posted, r) = {}
    BY DEF Awaited
  <2>2. Cardinality(Awaited(posted, r)) = 0
    BY <2>1, FS_EmptySet
  <2>3. answers[r] = Due(request[r])
    BY <2>2 DEF AnswersInv
  <2>4. request[r].at = "refused" => request[r].written
    BY DEF AnswersInv, RequestTypes, Sound
  <2> QED BY <2>3, <2>4 DEF Due
<1> QED BY AnswersInit, AnswersStep, <1>1, PTL DEF Image!Spec

-----------------------------------------------------------------------------
(* The bytes a list of images takes.                                       *)
Items == [url : Urls, size : Nat]
Total(s) == FoldLeft(LAMBDA sum, item : sum + item.size, 0, s)

LEMMA SumTrace ==
    ASSUME NEW s \in Seq(Items)
    PROVE  \E f \in [0 .. Len(s) -> Nat] :
              /\ f[0] = 0
              /\ \A i \in 1 .. Len(s) : f[i] = f[i - 1] + s[i].size
              /\ Total(s) = f[Len(s)]
<1> DEFINE n == Len(s)
           Add(sum, e) == sum + e.size
           step == [p \in Nat \X Items |-> Add(p[1], p[2])]
           Eq(it) == it = [t \in SUBSET DOMAIN s |-> IF t = {} THEN 0
                              ELSE Add(it[t \ {Max(t)}], s[Max(t)])]
           it == CHOOSE it : Eq(it)
<1>1. step \in [Nat \X Items -> Nat] /\ 0 \in Nat
  BY DEF Items
<1>2. n \in Nat /\ DOMAIN s = 1 .. n /\ s \in [1 .. n -> Items]
  OBVIOUS
<1>3. PICK g \in [SUBSET (1 .. n) -> Nat] : FoldEq(g, 1 .. n, step, 0, s)
  <2> HIDE DEF n, step
  <2> QED BY <1>1, <1>2, FoldExists
<1>4. Eq(g)
  <2>1. ASSUME NEW t \in SUBSET (1 .. n), t # {}
        PROVE  step[<<g[t \ {Max(t)}], s[Max(t)]>>] = Add(g[t \ {Max(t)}], s[Max(t)])
    <3>1. Max(t) \in t
      BY <1>2, <2>1, MaxWithin
    <3>2. g[t \ {Max(t)}] \in Nat /\ s[Max(t)] \in Items
      BY <3>1, <1>2
    <3> QED BY <3>1, <3>2
  <2> HIDE DEF step, n, Add
  <2> QED BY <1>2, <1>3, <2>1 DEF FoldEq
<1>5. Eq(it)
  <2> HIDE DEF Eq
  <2> QED BY <1>4
<1>6. Total(s) = it[DOMAIN s]
  BY DEF Total, FoldLeft, MapThenFoldSet
<1> DEFINE f == [i \in 0 .. n |-> it[1 .. i]]
<1>7. f[0] = 0
  <2> HIDE DEF it
  <2>1. it[{}] = 0
    BY <1>5
  <2>2. 1 .. 0 = {} /\ 0 \in 0 .. n
    BY <1>2
  <2> QED BY <2>1, <2>2
<1>8. ASSUME NEW i \in 1 .. n
      PROVE  f[i] = Add(f[i - 1], s[i])
  <2>1. /\ 1 .. i \in SUBSET (1 .. n) /\ 1 .. i # {}
        /\ Max(1 .. i) = i /\ (1 .. i) \ {i} = 1 .. i - 1
    <3> HIDE DEF n
    <3> QED BY <1>2, Initial
  <2> HIDE DEF it, Add
  <2>2. it[1 .. i] = Add(it[1 .. i - 1], s[i])
    BY <1>2, <1>5, <2>1, Zenon
  <2>3. i \in 0 .. n /\ i - 1 \in 0 .. n
    OBVIOUS
  <2> QED BY <2>2, <2>3
<1>9. f[n] = Total(s)
  <2> HIDE DEF it
  <2> QED BY <1>2, <1>6
<1>10. \A i \in 0 .. n : f[i] \in Nat
  <2> DEFINE T == {i \in Nat : i <= n => f[i] \in Nat}
  <2> HIDE DEF f
  <2>1. 0 \in T
    BY <1>7
  <2>2. ASSUME NEW i \in Nat, i \in T PROVE i + 1 \in T
    <3> SUFFICES ASSUME i + 1 <= n PROVE f[i + 1] \in Nat
      OBVIOUS
    <3>1. i + 1 \in 1 .. n /\ (i + 1) - 1 = i /\ i <= n
      BY <1>2
    <3>2. f[i + 1] = f[i] + s[i + 1].size
      BY <1>8, <3>1
    <3>3. s[i + 1].size \in Nat
      BY <1>2, <3>1 DEF Items
    <3> QED BY <2>2, <3>1, <3>2, <3>3
  <2>3. Nat \subseteq T
    <3> HIDE DEF T
    <3> QED BY <2>1, <2>2, Induction
  <2> QED BY <1>2, <2>3
<1>11. DOMAIN f = 0 .. n /\ f = [i \in 0 .. n |-> f[i]]
  OBVIOUS
<1> HIDE DEF it, f
<1> QED BY <1>7, <1>8, <1>9, <1>10, <1>11

(* Of two lists one behind the other the bytes add up.                     *)
LEMMA TotalConcat ==
    ASSUME NEW s \in Seq(Items), NEW t \in Seq(Items)
    PROVE  Total(s \o t) = Total(s) + Total(t) /\ Total(s) \in Nat /\ Total(t) \in Nat
<1> DEFINE n == Len(s)
           m == Len(t)
           w == s \o t
<1>1. /\ n \in Nat /\ m \in Nat /\ w \in Seq(Items) /\ Len(w) = n + m
      /\ \A i \in 1 .. n + m : w[i] = IF i <= n THEN s[i] ELSE t[i - n]
  BY ConcatProperties
<1>2. PICK f \in [0 .. n -> Nat] : /\ f[0] = 0
                                   /\ \A i \in 1 .. n : f[i] = f[i - 1] + s[i].size
                                   /\ Total(s) = f[n]
  BY SumTrace
<1>3. PICK g \in [0 .. m -> Nat] : /\ g[0] = 0
                                   /\ \A i \in 1 .. m : g[i] = g[i - 1] + t[i].size
                                   /\ Total(t) = g[m]
  BY SumTrace
<1>4. PICK h \in [0 .. n + m -> Nat] :
        /\ h[0] = 0
        /\ \A i \in 1 .. n + m : h[i] = h[i - 1] + w[i].size
        /\ Total(w) = h[n + m]
  BY <1>1, SumTrace
<1>10. \A i \in 1 .. m : t[i] \in Items
  OBVIOUS
<1> HIDE DEF n, m, w
<1>9. f[n] \in Nat /\ g[m] \in Nat /\ \A i \in 1 .. m : t[i].size \in Nat /\ g[i - 1] \in Nat
  <2>1. n \in 0 .. n /\ m \in 0 .. m /\ \A i \in 1 .. m : i - 1 \in 0 .. m
    BY <1>1
  <2>2. \A x \in Items : x.size \in Nat
    BY DEF Items
  <2> QED BY <1>2, <1>3, <1>10, <2>1, <2>2
<1>5. \A i \in Nat : i <= n => h[i] = f[i]
  <2> DEFINE T == {i \in Nat : i <= n => h[i] = f[i]}
  <2>1. 0 \in T
    BY <1>2, <1>4
  <2>2. ASSUME NEW i \in Nat, i \in T PROVE i + 1 \in T
    <3> SUFFICES ASSUME i + 1 <= n PROVE h[i + 1] = f[i + 1]
      OBVIOUS
    <3>1. i + 1 \in 1 .. n /\ i + 1 \in 1 .. n + m /\ (i + 1) - 1 = i /\ i <= n
      BY <1>1
    <3>2. w[i + 1] = s[i + 1]
      BY <1>1, <3>1
    <3>3. h[i + 1] = h[i] + w[i + 1].size /\ f[i + 1] = f[i] + s[i + 1].size
      BY <1>2, <1>4, <3>1
    <3> QED BY <2>2, <3>1, <3>2, <3>3
  <2>3. Nat \subseteq T
    <3> HIDE DEF T
    <3> QED BY <2>1, <2>2, Induction
  <2> QED BY <2>3
<1>6. \A i \in Nat : i <= m => h[n + i] = f[n] + g[i]
  <2> DEFINE T == {i \in Nat : i <= m => h[n + i] = f[n] + g[i]}
  <2>1. 0 \in T
    <3>1. h[n] = f[n] /\ f[n] \in Nat /\ n + 0 = n
      BY <1>1, <1>2, <1>5
    <3> QED BY <3>1, <1>3
  <2>2. ASSUME NEW i \in Nat, i \in T PROVE i + 1 \in T
    <3> SUFFICES ASSUME i + 1 <= m PROVE h[n + (i + 1)] = f[n] + g[i + 1]
      OBVIOUS
    <3>1. /\ i + 1 \in 1 .. m /\ n + (i + 1) \in 1 .. n + m /\ (i + 1) - 1 = i /\ i <= m
          /\ (n + (i + 1)) - 1 = n + i /\ (n + (i + 1)) - n = i + 1 /\ ~(n + (i + 1) <= n)
      BY <1>1
    <3>2. w[n + (i + 1)] = t[i + 1]
      BY <1>1, <3>1
    <3>3. h[n + (i + 1)] = h[n + i] + w[n + (i + 1)].size
      BY <1>4, <3>1
    <3>4. g[i + 1] = g[i] + t[i + 1].size
      BY <1>3, <3>1
    <3>5. g[i] \in Nat /\ f[n] \in Nat /\ t[i + 1].size \in Nat
      <4>1. g[(i + 1) - 1] \in Nat
        BY <1>9, <3>1
      <4> QED BY <1>9, <3>1, <4>1
    <3>6. h[n + i] = f[n] + g[i]
      BY <2>2, <3>1
    <3> QED BY <3>2, <3>3, <3>4, <3>5, <3>6
  <2>3. Nat \subseteq T
    <3> HIDE DEF T
    <3> QED BY <2>1, <2>2, Induction
  <2> QED BY <2>3
<1>7. h[n + m] = f[n] + g[m]
  BY <1>1, <1>6
<1>8. Total(w) = Total(s) + Total(t) /\ Total(s) \in Nat /\ Total(t) \in Nat
  BY <1>2, <1>3, <1>4, <1>7, <1>9
<1> QED BY <1>8, Zenon DEF w

LEMMA TotalOne ==
    ASSUME NEW x \in Items
    PROVE  Total(<<x>>) = x.size /\ Total(<<>>) = 0
<1>1. <<x>> \in Seq(Items) /\ Len(<<x>>) = 1 /\ <<x>>[1] = x
  OBVIOUS
<1>2. PICK f \in [0 .. 1 -> Nat] : /\ f[0] = 0
                                   /\ \A i \in 1 .. 1 : f[i] = f[i - 1] + <<x>>[i].size
                                   /\ Total(<<x>>) = f[1]
  BY <1>1, SumTrace
<1>3. f[1] = f[0] + x.size
  <2>1. 1 \in 1 .. 1 /\ 1 - 1 = 0
    OBVIOUS
  <2> QED BY <1>1, <1>2, <2>1
<1>4. <<>> \in Seq(Items) /\ Len(<<>>) = 0
  OBVIOUS
<1>5. Total(<<>>) = 0
  BY <1>4, SumTrace
<1>6. x.size \in Nat
  BY DEF Items
<1> QED BY <1>2, <1>3, <1>5, <1>6

(* No two images of one url.                                               *)
OneEach(s) == \A i, j \in DOMAIN s : s[i].url = s[j].url => i = j

(* What takes one image out of such a list takes its bytes out.            *)
LEMMA TotalWithout ==
    ASSUME NEW s \in Seq(Items), OneEach(s), NEW x \in ToSet(s)
    PROVE  Total(Without(s, {x})) = Total(s) - x.size
<1> DEFINE n == Len(s)
<1>1. PICK f : /\ f[0] = <<>>
               /\ \A i \in 1 .. n :
                     f[i] = IF s[i] \in {x} THEN f[i - 1] ELSE Append(f[i - 1], s[i])
               /\ Without(s, {x}) = f[n]
  BY WithoutTrace, Zenon
<1>2. PICK g \in [0 .. n -> Nat] : /\ g[0] = 0
                                   /\ \A i \in 1 .. n : g[i] = g[i - 1] + s[i].size
                                   /\ Total(s) = g[n]
  BY SumTrace
<1>3. n \in Nat /\ DOMAIN s = 1 .. n /\ \A i \in 1 .. n : s[i] \in Items
  OBVIOUS
<1>4. PICK k \in 1 .. n : x = s[k]
  BY <1>3 DEF ToSet
<1>5. \A i \in 1 .. n : s[i] = x => i = k
  BY <1>3, <1>4 DEF OneEach
<1>6. x \in Items /\ x.size \in Nat
  BY <1>3, <1>4 DEF Items
<1> HIDE DEF n
<1> DEFINE SoFar(i) == f[i] \in Seq(Items) /\ Total(f[i]) = g[i] - (IF k <= i THEN x.size ELSE 0)
           T == {i \in Nat : i <= n => SoFar(i)}
<1>7. 0 \in T
  <2>1. Total(<<>>) = 0 /\ <<>> \in Seq(Items)
    <3>1. Total(<<>>) = 0
      BY <1>6, TotalOne, Zenon
    <3>2. <<>> \in Seq(Items)
      OBVIOUS
    <3> QED BY <3>1, <3>2
  <2>2. ~(k <= 0)
    BY <1>3, <1>4
  <2>3. SoFar(0)
    BY <1>1, <1>2, <2>1, <2>2
  <2> QED BY <2>3
<1>8. ASSUME NEW i \in Nat, i \in T PROVE i + 1 \in T
  <2> SUFFICES ASSUME i + 1 <= n PROVE SoFar(i + 1)
    OBVIOUS
  <2>1. i + 1 \in 1 .. n /\ (i + 1) - 1 = i /\ i <= n /\ i \in 0 .. n
    BY <1>3
  <2>2. g[i + 1] = g[i] + s[i + 1].size /\ g[i] \in Nat
    BY <1>2, <2>1
  <2>3. s[i + 1] \in Items /\ s[i + 1].size \in Nat
    BY <1>3, <2>1 DEF Items
  <2>4. SoFar(i)
    BY <1>8, <2>1
  <2>5. CASE s[i + 1] = x
    <3>1. f[i + 1] = f[i]
      BY <1>1, <2>1, <2>5
    <3>2. i + 1 = k
      BY <1>5, <2>1, <2>5
    <3>3. k <= i + 1 /\ ~(k <= i)
      BY <3>2
    <3>4. s[i + 1].size = x.size
      BY <2>5
    <3> QED BY <2>2, <2>3, <2>4, <3>1, <3>3, <3>4
  <2>6. CASE s[i + 1] # x
    <3>1. f[i + 1] = Append(f[i], s[i + 1])
      BY <1>1, <2>1, <2>6
    <3>2. i + 1 # k
      BY <1>4, <2>6
    <3>3. (k <= i + 1) <=> (k <= i)
      BY <3>2, <1>3
    <3>4. Append(f[i], s[i + 1]) = f[i] \o <<s[i + 1]>> /\ <<s[i + 1]>> \in Seq(Items)
      <4>1. ASSUME NEW l \in Seq(Items), NEW e \in Items
            PROVE  Append(l, e) = l \o <<e>> /\ <<e>> \in Seq(Items)
        BY AppendIsConcat
      <4> QED BY <2>3, <2>4, <4>1
    <3>5. Total(f[i + 1]) = Total(f[i]) + s[i + 1].size
      <4>1. f[i] \in Seq(Items) /\ <<s[i + 1]>> \in Seq(Items)
        BY <2>4, <3>4
      <4>2. Total(f[i] \o <<s[i + 1]>>) = Total(f[i]) + Total(<<s[i + 1]>>)
        BY <4>1, TotalConcat, Zenon
      <4>3. Total(<<s[i + 1]>>) = s[i + 1].size
        BY <2>3, TotalOne, Zenon
      <4> QED BY <3>1, <3>4, <4>2, <4>3, Zenon
    <3>6. f[i + 1] \in Seq(Items)
      BY <2>3, <2>4, <3>1
    <3> QED BY <2>2, <2>3, <2>4, <3>3, <3>5, <3>6, <1>6
  <2> QED BY <2>5, <2>6
<1>9. n \in T
  <2> HIDE DEF T
  <2> QED BY <1>3, <1>7, <1>8, Induction
<1>10. k <= n
  BY <1>3, <1>4
<1> QED BY <1>1, <1>2, <1>3, <1>9, <1>10

-----------------------------------------------------------------------------
UrlsOf(s) == {s[i].url : i \in DOMAIN s}

(* The three things done to the list: an image is taken out,               *)
LEMMA TakenOut ==
    ASSUME NEW s \in Seq(Items), OneEach(s), NEW x \in ToSet(s)
    PROVE  LET r == Without(s, {x})
           IN  /\ r \in Seq(Items) /\ OneEach(r)
               /\ UrlsOf(r) = UrlsOf(s) \ {x.url}
               /\ Total(r) = Total(s) - x.size
               /\ Len(s) = 1 => r = <<>>
<1> DEFINE r == Without(s, {x})
<1>1. /\ r \in Seq(Items) /\ ToSet(r) = ToSet(s) \ {x}
      /\ \E at \in [1 .. Len(r) -> 1 .. Len(s)] :
            /\ \A i \in 1 .. Len(r) : r[i] = s[at[i]]
            /\ \A i, j \in 1 .. Len(r) : i < j => at[i] < at[j]
  BY WithoutKeeps
<1>2. Total(r) = Total(s) - x.size
  BY TotalWithout
<1> HIDE DEF r
<1>3. PICK at \in [1 .. Len(r) -> 1 .. Len(s)] :
            /\ \A i \in 1 .. Len(r) : r[i] = s[at[i]]
            /\ \A i, j \in 1 .. Len(r) : i < j => at[i] < at[j]
  BY <1>1
<1>4. /\ Len(r) \in Nat /\ DOMAIN r = 1 .. Len(r)
      /\ Len(s) \in Nat /\ DOMAIN s = 1 .. Len(s)
  BY <1>1
<1>5. OneEach(r)
  <2> SUFFICES ASSUME NEW i \in 1 .. Len(r), NEW j \in 1 .. Len(r), r[i].url = r[j].url
               PROVE  i = j
    BY <1>4 DEF OneEach
  <2>1. at[i] = at[j]
    BY <1>3, <1>4 DEF OneEach
  <2>2. at[i] \in Int /\ at[j] \in Int
    OBVIOUS
  <2> QED BY <1>3, <1>4, <2>1, <2>2
<1>6. PICK k \in 1 .. Len(s) : s[k] = x
  BY <1>4 DEF ToSet
<1>7. UrlsOf(r) = UrlsOf(s) \ {x.url}
  <2>1. \A l : UrlsOf(l) = {e.url : e \in ToSet(l)}
    BY DEF UrlsOf, ToSet
  <2>2. \A e \in ToSet(s) : e.url = x.url => e = x
    BY <1>4, <1>6 DEF ToSet, OneEach
  <2> QED BY <1>1, <2>1, <2>2
<1>8. ASSUME Len(s) = 1 PROVE r = <<>>
  <2>0. DOMAIN s = {k} /\ ToSet(s) = {x}
    BY <1>4, <1>6, <1>8 DEF ToSet
  <2>1. ToSet(r) = {}
    BY <1>1, <2>0
  <2>2. DOMAIN r = {}
    BY <2>1 DEF ToSet
  <2> QED BY <1>1, <1>4, <2>2
<1> QED BY <1>1, <1>2, <1>5, <1>7, <1>8 DEF r

(* one is put in front,                                                    *)
LEMMA PutInFront ==
    ASSUME NEW s \in Seq(Items), OneEach(s), NEW x \in Items, x.url \notin UrlsOf(s)
    PROVE  LET r == <<x>> \o s
           IN  /\ r \in Seq(Items) /\ OneEach(r) /\ Len(r) = Len(s) + 1
               /\ UrlsOf(r) = UrlsOf(s) \cup {x.url}
               /\ Total(r) = Total(s) + x.size
<1> DEFINE n == Len(s)
           r == <<x>> \o s
<1>1. <<x>> \in Seq(Items) /\ Len(<<x>>) = 1 /\ <<x>>[1] = x
  OBVIOUS
<1>2. Total(r) = Total(s) + x.size
  <2>1. Total(r) = Total(<<x>>) + Total(s) /\ Total(<<x>>) \in Nat /\ Total(s) \in Nat
    BY <1>1, TotalConcat
  <2>2. Total(<<x>>) = x.size
    BY TotalOne
  <2> HIDE DEF r
  <2>3. x.size \in Nat
    BY DEF Items
  <2> QED BY <2>1, <2>2, <2>3
<1>3. /\ n \in Nat /\ DOMAIN s = 1 .. n /\ r \in Seq(Items) /\ Len(r) = n + 1
      /\ DOMAIN r = 1 .. n + 1 /\ r[1] = x /\ \A i \in 1 .. n : r[i + 1] = s[i]
  OBVIOUS
<1> HIDE DEF n, r
<1>4. \A i \in 1 .. n + 1 : i = 1 \/ (i - 1 \in 1 .. n /\ (i - 1) + 1 = i)
  BY <1>3
<1>5. \A i \in 1 .. n : i + 1 \in 1 .. n + 1 /\ 1 \in 1 .. n + 1
  BY <1>3
<1>6. UrlsOf(r) = UrlsOf(s) \cup {x.url}
  <2>1. ASSUME NEW u \in UrlsOf(r) PROVE u \in UrlsOf(s) \cup {x.url}
    <3>1. PICK i \in 1 .. n + 1 : u = r[i].url
      BY <1>3 DEF UrlsOf
    <3>2. CASE i = 1
      BY <1>3, <3>1, <3>2
    <3>3. CASE i - 1 \in 1 .. n /\ (i - 1) + 1 = i
      <4>1. r[i] = s[i - 1]
        BY <1>3, <3>3
      <4> QED BY <1>3, <3>1, <3>3, <4>1 DEF UrlsOf
    <3> QED BY <1>4, <3>2, <3>3
  <2>2. x.url \in UrlsOf(r)
    <3>1. 1 \in 1 .. n + 1
      BY <1>3
    <3> QED BY <1>3, <3>1 DEF UrlsOf
  <2>3. ASSUME NEW u \in UrlsOf(s) PROVE u \in UrlsOf(r)
    <3>1. PICK i \in 1 .. n : u = s[i].url
      BY <1>3 DEF UrlsOf
    <3> QED BY <1>3, <1>5, <3>1 DEF UrlsOf
  <2> QED BY <2>1, <2>2, <2>3
<1>7. OneEach(r)
  <2> SUFFICES ASSUME NEW i \in 1 .. n + 1, NEW j \in 1 .. n + 1, r[i].url = r[j].url
               PROVE  i = j
    BY <1>3 DEF OneEach
  <2>1. \A k \in 1 .. n : s[k].url # x.url
    BY <1>3 DEF UrlsOf
  <2>2. ASSUME NEW k \in 1 .. n + 1, k # 1
        PROVE  k - 1 \in 1 .. n /\ r[k] = s[k - 1] /\ k \in Int /\ r[k].url # x.url
    <3>1. k - 1 \in 1 .. n /\ (k - 1) + 1 = k
      BY <1>4, <2>2
    <3>2. r[k] = s[k - 1]
      BY <1>3, <3>1
    <3> QED BY <2>1, <3>1, <3>2
  <2>3. CASE i = 1 \/ j = 1
    BY <1>3, <2>2, <2>3
  <2>4. CASE i # 1 /\ j # 1
    <3>1. i - 1 = j - 1
      <4>1. /\ i - 1 \in DOMAIN s /\ j - 1 \in DOMAIN s
            /\ s[i - 1].url = s[j - 1].url
        BY <1>3, <2>2, <2>4
      <4> QED BY <4>1 DEF OneEach
    <3> QED BY <2>2, <2>4, <3>1
  <2> QED BY <2>3, <2>4
<1> QED BY <1>2, <1>3, <1>6, <1>7 DEF n, r

(* and the back is cut off.                                                *)
LEMMA CutOff ==
    ASSUME NEW s \in Seq(Items), OneEach(s), NEW n \in 0 .. Len(s)
    PROVE  LET kept == SubSeq(s, 1, n)
               gone == SubSeq(s, n + 1, Len(s))
           IN  /\ kept \in Seq(Items) /\ Len(kept) = n /\ gone \in Seq(Items)
               /\ OneEach(kept)
               /\ UrlsOf(kept) = UrlsOf(s) \ UrlsOf(gone)
               /\ Total(kept) = Total(s) - Total(gone)
               /\ Total(kept) \in Nat /\ Total(gone) \in Nat
<1> DEFINE m == Len(s)
           d == m - n
           kept == SubSeq(s, 1, n)
           gone == SubSeq(s, n + 1, m)
<1>1. m \in Nat /\ n \in Nat /\ n <= m /\ DOMAIN s = 1 .. m /\ d \in Nat /\ n + d = m
  OBVIOUS
<1>2. \A i \in 1 .. m : s[i] \in Items
  OBVIOUS
<1>3. /\ kept \in Seq(Items) /\ Len(kept) = n /\ DOMAIN kept = 1 .. n
      /\ \A i \in 1 .. n : kept[i] = s[i]
  <2> HIDE DEF m
  <2>1. /\ kept \in Seq(Items) /\ Len(kept) = n
        /\ \A i \in 1 .. n : kept[i] = s[1 + i - 1]
    <3>1. \A i \in 1 .. n : s[i] \in Items
      BY <1>1, <1>2
    <3>2. n \in Int /\ 1 \in Int /\ (IF 1 <= n THEN n - 1 + 1 ELSE 0) = n
      BY <1>1
    <3> QED BY <3>1, <3>2, <1>1, SubSeqProperties
  <2> HIDE DEF kept
  <2>2. \A i \in 1 .. n : 1 + i - 1 = i
    BY <1>1
  <2>3. DOMAIN kept = 1 .. n
    BY <2>1
  <2> QED BY <2>1, <2>2, <2>3
<1>4. /\ gone \in Seq(Items) /\ Len(gone) = d /\ DOMAIN gone = 1 .. d
      /\ \A i \in 1 .. d : gone[i] = s[n + i] /\ n + i \in 1 .. m
  <2> HIDE DEF m, d
  <2>1. /\ gone \in Seq(Items) /\ Len(gone) = d
        /\ \A i \in 1 .. d : gone[i] = s[(n + 1) + i - 1]
    <3>1. \A i \in n + 1 .. m : s[i] \in Items
      BY <1>1, <1>2
    <3>2. n + 1 \in Int /\ m \in Int /\ (IF n + 1 <= m THEN m - (n + 1) + 1 ELSE 0) = d
      BY <1>1 DEF d
    <3>3. m - (n + 1) + 1 = d
      BY <1>1
    <3> QED BY <3>1, <3>2, <3>3, SubSeqProperties
  <2> HIDE DEF gone
  <2>2. \A i \in 1 .. d : (n + 1) + i - 1 = n + i /\ n + i \in 1 .. m
    BY <1>1
  <2>3. DOMAIN gone = 1 .. d
    BY <2>1
  <2> QED BY <2>1, <2>2, <2>3
<1> HIDE DEF kept, gone, d, m
<1>5. s = kept \o gone
  <2> DEFINE w == kept \o gone
  <2>0. /\ kept \in Seq(Items) /\ Len(kept) = n
        /\ gone \in Seq(Items) /\ Len(gone) = d
    BY <1>3, <1>4
  <2>1. /\ w \in Seq(Items) /\ Len(w) = n + d
        /\ \A i \in 1 .. n + d : w[i] = IF i <= n THEN kept[i] ELSE gone[i - n]
    BY <2>0, ConcatProperties
  <2> HIDE DEF w
  <2>2. Len(w) = m /\ Len(s) = m
    BY <1>1, <2>1 DEF m
  <2>3. ASSUME NEW i \in 1 .. m PROVE w[i] = s[i]
    <3>1. CASE i <= n
      <4>1. i \in 1 .. n /\ i \in 1 .. n + d
        BY <1>1, <3>1
      <4> QED BY <1>3, <2>1, <3>1, <4>1
    <3>2. CASE ~(i <= n)
      <4>1. i - n \in 1 .. d /\ i \in 1 .. n + d /\ n + (i - n) = i
        BY <1>1, <3>2
      <4> QED BY <1>4, <2>1, <3>2, <4>1
    <3> QED BY <3>1, <3>2
  <2>4. w = s
    BY <2>1, <2>2, <2>3, SeqEqual
  <2> QED BY <2>4 DEF w
<1>6. Total(kept \o gone) = Total(kept) + Total(gone) /\ Total(kept) \in Nat /\ Total(gone) \in Nat
  BY <1>3, <1>4, TotalConcat
<1>7. Total(kept) = Total(s) - Total(gone)
  <2>1. Total(s) = Total(kept) + Total(gone)
    BY <1>5, <1>6, Zenon
  <2> QED BY <1>6, <2>1
<1>8. OneEach(kept)
  <2>1. \A i \in 1 .. n : i \in 1 .. m
    BY <1>1
  <2> QED BY <1>1, <1>3, <2>1 DEF OneEach
<1>9. UrlsOf(kept) = UrlsOf(s) \ UrlsOf(gone)
  <2>1. ASSUME NEW u \in UrlsOf(kept) PROVE u \in UrlsOf(s) /\ u \notin UrlsOf(gone)
    <3>1. PICK i \in 1 .. n : u = s[i].url
      BY <1>3, <2>1 DEF UrlsOf
    <3>2. i \in 1 .. m
      BY <1>1
    <3>3. ASSUME NEW j \in 1 .. d, u = gone[j].url PROVE FALSE
      <4>1. n + j \in 1 .. m /\ gone[j] = s[n + j]
        BY <1>4
      <4>2. i = n + j
        BY <1>1, <3>1, <3>2, <3>3, <4>1 DEF OneEach
      <4> QED BY <1>1, <4>2
    <3> QED BY <1>1, <1>4, <3>1, <3>2, <3>3 DEF UrlsOf
  <2>2. ASSUME NEW u \in UrlsOf(s), u \notin UrlsOf(gone) PROVE u \in UrlsOf(kept)
    <3>1. PICK i \in 1 .. m : u = s[i].url
      BY <1>1 DEF UrlsOf
    <3>2. CASE i <= n
      <4>1. i \in 1 .. n
        BY <3>2, <1>1
      <4> QED BY <1>3, <3>1, <4>1 DEF UrlsOf
    <3>3. CASE ~(i <= n)
      <4>1. i - n \in 1 .. d /\ n + (i - n) = i
        BY <1>1, <3>3
      <4>2. gone[i - n] = s[i]
        BY <1>4, <4>1
      <4>3. u \in UrlsOf(gone)
        BY <1>4, <3>1, <4>1, <4>2 DEF UrlsOf
      <4> QED BY <2>2, <4>3
    <3> QED BY <3>2, <3>3
  <2> QED BY <2>1, <2>2
<1> QED BY <1>3, <1>4, <1>6, <1>7, <1>8, <1>9 DEF kept, gone, m

-----------------------------------------------------------------------------
(* The operators of the instance are those above.                          *)
LEMMA SameSums ==
    /\ \A s : Image!TotalSize(s) = Total(s)
    /\ \A s : Image!CachedUrls(s) = UrlsOf(s)
    /\ \A s : Image!ToSet(s) = ToSet(s)
    /\ \A s, gone : Image!Without(s, gone) = Without(s, gone)
<1>1. \A s : Image!TotalSize(s) = Total(s)
  BY DEF Image!TotalSize, Total, FoldLeft, Image!FoldLeft, MapThenFoldSet, Image!MapThenFoldSet,
         Max, Image!Max
<1>2. \A s, gone : Image!Without(s, gone) = Without(s, gone)
  BY DEF Without, Image!Without, FoldLeft, Image!FoldLeft, MapThenFoldSet, Image!MapThenFoldSet,
         Max, Image!Max
<1> QED BY <1>1, <1>2 DEF Image!CachedUrls, UrlsOf, Image!ToSet, ToSet

CacheInv ==
    /\ cacheList \in Seq(Items) /\ OneEach(cacheList)
    /\ UrlsOf(cacheList) = cacheMap
    /\ currentMemorySize = Total(cacheList)
    /\ currentMemorySize <= maxMemorySize \/ Len(cacheList) = 1

(* The loop of cacheImage stops where the image fits, or with nothing left. *)
LEMMA FittingFits ==
    ASSUME NEW s \in Seq(Items), NEW used \in Nat, NEW size \in Nat
    PROVE  LET n == Image!Fitting(s, used, size)
           IN  /\ n \in 0 .. Len(s)
               /\ n > 0 => used - Total(SubSeq(s, n + 1, Len(s))) + size <= maxMemorySize
<1> DEFINE m == Len(s)
           Left(k) == used - Total(SubSeq(s, k + 1, m)) + size
           Stops(n) == /\ n > 0 => Left(n) <= maxMemorySize
                       /\ \A k \in n + 1 .. m : Left(k) > maxMemorySize
           T == {n \in 0 .. m : \A k \in n + 1 .. m : Left(k) > maxMemorySize}
<1>1. m \in Nat /\ maxMemorySize \in Nat
  BY ImageAssumption DEF Image!ConstantsTyped
<1>2. Image!Fitting(s, used, size) = CHOOSE n \in 0 .. m : Stops(n)
  BY SameSums DEF Image!Fitting
<1>3. \A k \in 0 .. m : Left(k) \in Int
  <2> SUFFICES ASSUME NEW k \in 0 .. m PROVE Left(k) \in Int
    OBVIOUS
  <2>1. SubSeq(s, k + 1, m) \in Seq(Items)
    <3>1. k + 1 \in Int /\ m \in Int /\ \A i \in k + 1 .. m : s[i] \in Items
      OBVIOUS
    <3> HIDE DEF m
    <3> QED BY <3>1, SubSeqProperties
  <2>2. Total(SubSeq(s, k + 1, m)) \in Nat
    BY <2>1, TotalConcat
  <2> QED BY <2>2
<1> HIDE DEF Left, m
<1>4. m \in T /\ T \subseteq Nat
  BY <1>1
<1>5. PICK n \in T : \A j \in T : n <= j
  <2> HIDE DEF T
  <2> QED BY <1>4, Least
<1>6. Stops(n)
  <2> SUFFICES ASSUME n > 0, ~(Left(n) <= maxMemorySize) PROVE FALSE
    OBVIOUS
  <2>1. n - 1 \in 0 .. m /\ n \in 0 .. m
    BY <1>1
  <2>2. Left(n) > maxMemorySize
    BY <1>1, <1>3, <2>1
  <2>3. \A k \in (n - 1) + 1 .. m : k = n \/ k \in n + 1 .. m
    BY <2>1
  <2>4. n - 1 \in T
    BY <2>1, <2>2, <2>3
  <2>5. n <= n - 1
    BY <1>5, <2>4
  <2> QED BY <2>1, <2>5
<1>7. n \in 0 .. m
  OBVIOUS
<1> DEFINE c == CHOOSE i \in 0 .. m : Stops(i)
<1>8. c \in 0 .. m /\ Stops(c)
  <2> HIDE DEF Stops
  <2> QED BY <1>6, <1>7
<1> QED BY <1>2, <1>8 DEF Left, m

LEMMA CachedItem ==
    ASSUME CacheInv, NEW u \in cacheMap
    PROVE  Image!Item(u) \in ToSet(cacheList) /\ Image!Item(u).url = u /\ Image!Item(u) \in Items
<1>1. PICK i \in DOMAIN cacheList : cacheList[i].url = u
  BY DEF CacheInv, UrlsOf
<1>2. cacheList[i] \in ToSet(cacheList) /\ ToSet(cacheList) \subseteq Items
  BY DEF ToSet, CacheInv
<1>3. Image!Item(u) = CHOOSE item \in ToSet(cacheList) : item.url = u
  BY SameSums, Zenon DEF Image!Item
<1> QED BY <1>1, <1>2, <1>3

LEMMA CacheHit ==
    ASSUME CacheInv, NEW u, Image!getCachedImage(u)
    PROVE  CacheInv'
<1> DEFINE x == Image!Item(u)
           r == Without(cacheList, {x})
<1>1. /\ u \in cacheMap /\ cacheMap' = cacheMap /\ currentMemorySize' = currentMemorySize
      /\ cacheList' = <<x>> \o r
  BY SameSums DEF Image!getCachedImage
<1>2. x \in ToSet(cacheList) /\ x.url = u /\ x \in Items
  BY <1>1, CachedItem
<1> HIDE DEF x
<1>3. /\ r \in Seq(Items) /\ OneEach(r)
      /\ UrlsOf(r) = UrlsOf(cacheList) \ {u}
      /\ Total(r) = Total(cacheList) - x.size
      /\ Len(cacheList) = 1 => r = <<>>
  BY <1>2, TakenOut DEF CacheInv
<1> HIDE DEF r
<1>4. /\ cacheList' \in Seq(Items) /\ OneEach(cacheList') /\ Len(cacheList') = Len(r) + 1
      /\ UrlsOf(cacheList') = UrlsOf(r) \cup {u}
      /\ Total(cacheList') = Total(r) + x.size
  BY <1>1, <1>2, <1>3, PutInFront
<1>5. Total(cacheList) \in Nat /\ x.size \in Nat
  BY <1>2, TotalConcat DEF CacheInv, Items
<1>6. Total(cacheList') = Total(cacheList)
  BY <1>3, <1>4, <1>5
<1>7. UrlsOf(cacheList') = cacheMap'
  BY <1>1, <1>3, <1>4 DEF CacheInv
<1>8. Len(cacheList) = 1 => Len(cacheList') = 1
  BY <1>3, <1>4
<1> QED BY <1>1, <1>4, <1>6, <1>7, <1>8 DEF CacheInv

LEMMA CacheAdd ==
    ASSUME CacheInv, NEW u \in Urls, NEW size \in Nat, Image!cacheImage(u, size)
    PROVE  CacheInv'
<1> DEFINE rest == Image!removeFromCache(u)
           n == Image!Fitting(rest.list, rest.size, size)
           kept == SubSeq(rest.list, 1, n)
           evicted == SubSeq(rest.list, n + 1, Len(rest.list))
           x == [url |-> u, size |-> size]
<1>1. /\ rest.list \in Seq(Items) /\ OneEach(rest.list)
      /\ UrlsOf(rest.list) = cacheMap \ {u}
      /\ rest.size = Total(rest.list) /\ rest.size \in Nat
  <2>1. CASE u \in cacheMap
    <3> DEFINE y == Image!Item(u)
               r == Without(cacheList, {y})
    <3>1. rest = [list |-> r, size |-> currentMemorySize - y.size]
      BY <2>1, SameSums DEF Image!removeFromCache
    <3>2. y \in ToSet(cacheList) /\ y.url = u
      BY <2>1, CachedItem
    <3> HIDE DEF y, rest
    <3>3. /\ r \in Seq(Items) /\ OneEach(r)
          /\ UrlsOf(r) = UrlsOf(cacheList) \ {u}
          /\ Total(r) = Total(cacheList) - y.size
      BY <3>2, TakenOut DEF CacheInv
    <3>4. Total(r) \in Nat
      BY <3>3, TotalConcat
    <3> HIDE DEF r
    <3> QED BY <3>1, <3>3, <3>4 DEF CacheInv
  <2>2. CASE u \notin cacheMap
    <3>1. rest = [list |-> cacheList, size |-> currentMemorySize]
      BY <2>2 DEF Image!removeFromCache
    <3>2. Total(cacheList) \in Nat
      BY TotalConcat DEF CacheInv
    <3> HIDE DEF rest
    <3> QED BY <2>2, <3>1, <3>2 DEF CacheInv
  <2> QED BY <2>1, <2>2
<1>2. /\ n \in 0 .. Len(rest.list)
      /\ n > 0 => rest.size - Total(evicted) + size <= maxMemorySize
  <2> HIDE DEF rest
  <2> QED BY <1>1, FittingFits
<1>3. /\ kept \in Seq(Items) /\ Len(kept) = n /\ OneEach(kept)
      /\ UrlsOf(kept) = UrlsOf(rest.list) \ UrlsOf(evicted)
      /\ Total(kept) = Total(rest.list) - Total(evicted)
      /\ Total(kept) \in Nat /\ Total(evicted) \in Nat
  <2> HIDE DEF rest, n
  <2> QED BY <1>1, <1>2, CutOff
<1>4. /\ cacheList' = <<x>> \o kept
      /\ cacheMap' = (cacheMap \ UrlsOf(evicted)) \cup {u}
      /\ currentMemorySize' = rest.size - Total(evicted) + size
  <2>1. /\ cacheList' = <<x>> \o kept
        /\ cacheMap' = (cacheMap \ UrlsOf(SubSeq(rest.list, Len(kept) + 1, Len(rest.list)))) \cup {u}
        /\ currentMemorySize' =
               rest.size - Total(SubSeq(rest.list, Len(kept) + 1, Len(rest.list))) + size
    <3> HIDE DEF rest
    <3> QED BY SameSums DEF Image!cacheImage, rest
  <2> HIDE DEF rest, n, kept
  <2> QED BY <1>3, <2>1
<1>5. x \in Items /\ x.url = u /\ x.size = size
  BY DEF Items
<1>6. u \notin UrlsOf(kept)
  BY <1>1, <1>3
<1> HIDE DEF rest, n, kept, evicted, x
<1>7. /\ cacheList' \in Seq(Items) /\ OneEach(cacheList') /\ Len(cacheList') = n + 1
      /\ UrlsOf(cacheList') = UrlsOf(kept) \cup {u}
      /\ Total(cacheList') = Total(kept) + size
  BY <1>3, <1>4, <1>5, <1>6, PutInFront
<1>8. UrlsOf(cacheList') = cacheMap'
  BY <1>1, <1>3, <1>4, <1>7
<1>9. currentMemorySize' = Total(cacheList')
  BY <1>1, <1>3, <1>4, <1>7
<1>10. currentMemorySize' <= maxMemorySize \/ Len(cacheList') = 1
  BY <1>2, <1>4, <1>7
<1> QED BY <1>7, <1>8, <1>9, <1>10 DEF CacheInv

LEMMA CacheInit == Image!Init => CacheInv
<1> SUFFICES ASSUME Image!Init PROVE CacheInv
  OBVIOUS
<1>1. cacheList = <<>> /\ cacheMap = {} /\ currentMemorySize = 0
  BY DEF Image!Init
<1>2. cacheList \in Seq(Items) /\ OneEach(cacheList) /\ UrlsOf(cacheList) = {}
  BY <1>1 DEF OneEach, UrlsOf
<1>3. Total(cacheList) = 0
  <2>1. cacheList \in Seq(Items) /\ Len(cacheList) = 0
    BY <1>1
  <2> QED BY <2>1, SumTrace
<1>4. maxMemorySize \in Nat
  BY ImageAssumption DEF Image!ConstantsTyped
<1> QED BY <1>1, <1>2, <1>3, <1>4 DEF CacheInv

LEMMA CacheStep == AnswersInv /\ CacheInv /\ [Image!Next]_Image!vars => CacheInv'
<1> SUFFICES ASSUME AnswersInv, CacheInv, [Image!Next]_Image!vars PROVE CacheInv'
  OBVIOUS
<1>1. ASSUME UNCHANGED Image!cache PROVE CacheInv'
  BY <1>1 DEF Image!cache, CacheInv
<1>2. ASSUME NEW r \in Requests, NEW u \in Urls, Image!loadCached(r, u) PROVE CacheInv'
  BY <1>2, CacheHit DEF Image!loadCached
<1>3. ASSUME NEW r \in Requests, NEW u \in Urls, Image!loadImageFromUri(r, u) PROVE CacheInv'
  <2>1. Sizes \subseteq Nat
    BY ImageAssumption DEF Image!ConstantsTyped
  <2> QED BY <1>1, <1>3, <2>1, CacheAdd DEF Image!loadImageFromUri
<1>4. ASSUME NEW r \in Requests, Image!cacheDownloaded(r) PROVE CacheInv'
  <2>1. request[r] \in Loads /\ Sound(request[r]) /\ request[r].at = "caching"
    BY <1>4 DEF AnswersInv, RequestTypes, Image!cacheDownloaded
  <2>2. request[r].url \in Urls /\ request[r].image \in Nat
    BY <2>1 DEF Loads, Sound
  <2>3. Image!cacheImage(request[r].url, request[r].image)
    BY <1>4 DEF Image!cacheDownloaded, Image!Url
  <2> QED BY <2>2, <2>3, CacheAdd
<1>5. ASSUME NEW r \in Requests,
             \/ \E u \in Urls : Image!Download(r, u)
             \/ Image!downloadFailed(r)
             \/ \E size \in Sizes \cup {0} : Image!loadImageFromData(r, size)
             \/ Image!OpenFile(r) \/ Image!WriteFile(r) \/ Image!WriteFileFailed(r)
      PROVE  CacheInv'
  BY <1>1, <1>5 DEF Image!Download, Image!downloadFailed, Image!loadImageFromData,
     Image!OpenFile, Image!WriteFile, Image!WriteFileFailed
<1>6. CASE Image!runPosted
  BY <1>1, <1>6 DEF Image!runPosted
<1>7. CASE UNCHANGED Image!vars
  BY <1>1, <1>7 DEF Image!vars, Image!cache
<1> QED BY <1>2, <1>3, <1>4, <1>5, <1>6, <1>7 DEF Image!Next

(* CacheAlwaysAccounted: for any urls, sizes and budget, and any number of *)
(* downloads that fill it, the list, the map and the byte count are one    *)
(* cache, over its budget only by a single image that is larger than it    *)
(* (helper/ImageLoader.cpp, cacheImage, removeFromCache, getCachedImage).  *)
THEOREM CacheAlwaysAccounted == Image!Spec => []CacheAccounted
<1>1. CacheInv => CacheAccounted
  <2> SUFFICES ASSUME CacheInv PROVE CacheAccounted
    OBVIOUS
  <2> DEFINE n == Len(cacheList)
             f == [i \in 1 .. n |-> cacheList[i].url]
  <2>1. n \in Nat /\ DOMAIN cacheList = 1 .. n
    BY DEF CacheInv
  <2>2. UrlsOf(cacheList) = cacheMap
    BY DEF CacheInv
  <2> HIDE DEF n
  <2>3. f \in Bijection(1 .. n, cacheMap)
    <3>1. f \in [1 .. n -> cacheMap]
      BY <2>1, <2>2 DEF UrlsOf
    <3>2. f \in Injection(1 .. n, cacheMap)
      BY <2>1, <3>1 DEF CacheInv, OneEach, Injection, IsInjective
    <3>3. f \in Surjection(1 .. n, cacheMap)
      BY <2>1, <2>2, <3>1 DEF UrlsOf, Surjection
    <3> QED BY <3>2, <3>3 DEF Bijection
  <2>4. ExistsBijection(1 .. n, cacheMap)
    BY <2>3 DEF ExistsBijection
  <2>5. Cardinality(cacheMap) = n
    BY <2>1, <2>4, FS_CountingElements
  <2>6. /\ Image!CachedUrls(cacheList) = UrlsOf(cacheList)
        /\ Image!TotalSize(cacheList) = Total(cacheList)
    BY SameSums, Zenon
  <2>7. Len(cacheList) = Cardinality(cacheMap)
    BY <2>5 DEF n
  <2>8. /\ currentMemorySize = Total(cacheList)
        /\ currentMemorySize <= maxMemorySize \/ Len(cacheList) = 1
    BY DEF CacheInv
  <2>9. Image!Cardinality(cacheMap) = Cardinality(cacheMap)
    BY DEF Cardinality, Image!Cardinality
  <2> QED BY <2>2, <2>6, <2>7, <2>8, <2>9, Zenon DEF CacheAccounted, Image!CacheAccounted
<1> QED BY AnswersInit, AnswersStep, CacheInit, CacheStep, <1>1, PTL DEF Image!Spec
==============================================================================
