----------------------------- MODULE NodeEvents -----------------------------
(***************************************************************************)
(* From a callback of JS down to ArkUI, and rows that pass native nodes on *)
(* to each other.                                                          *)
(*                                                                         *)
(*   element/attribute/event.cpp  callbacks of JS, by name of the event    *)
(*   event_emitter.cpp            listeners: name, for JS or a widget, node *)
(*   event_generator_hm.cpp       targets: which names a node's events have *)
(*   event_adapter.cpp            keepers: which elements want which type  *)
(*   ArkUI                        one registration for a node and a type   *)
(*   arkui_node_adapter.cpp       rows of a lazy list and the pool of rows *)
(*                                out of sight, whose nodes are taken over *)
(*                                                                         *)
(* Everything runs on MAIN.  Each layer tells the next only about its first *)
(* and its last entry of a kind, and each is emptied in its own way when a *)
(* node changes hands.  The elements are views of one tag and one reuse_id; *)
(* the callbacks for one name count as one.  Native handles are not reused *)
(* by the allocator.                                                       *)
(***************************************************************************)
EXTENDS Naturals, FiniteSets

CONSTANTS
    Rows,           \* elements of the list
    Handles,        \* native nodes; bound: as many as are ever created
    Names,          \* names JS knows events by
    Types,          \* ArkUI's types of events
    Type,           \* getHmEventType: the type of the event with a name
    None,           \* nullptr
    MaxWidgets,     \* bound: listeners of widgets at a time
    AvoidTwice      \* JS adds no callback where a listener was left behind

ASSUME NodeEventsAssumption ==
    /\ Type \in [Names -> Types] /\ None \notin Handles
    /\ MaxWidgets \in Nat /\ AvoidTwice \in BOOLEAN

VARIABLES
    reg,        \* listeners, targets, keepers and ArkUI's registrations
    live,       \* native nodes that exist
    made,       \* native nodes that ever did
    alive,      \* elements that exist
    handle,     \* the native node in the render node of an element
    cached,     \* cachedItems_, by the element of the render node
    named,      \* names in listeners_ref_
    called,     \* those of them that have callbacks
    twice       \* listeners of JS the emitter has more than once

vars == <<reg, live, made, alive, handle, cached, named, called, twice>>

Listeners == Rows \X Names \X BOOLEAN \X Handles     \* BOOLEAN: call_js_
Targets == Rows \X Handles \X Names
Keepers == Handles \X Rows \X Types

-----------------------------------------------------------------------------
(* The registry.  An operator for each function, from registry to registry. *)

hasRegister(keepers, h, t) == \E k \in keepers : k[1] = h /\ k[3] = t

(* Keepers in gone go; ArkUI forgets what has no keeper left.              *)
unRegisterNodeEvent(r, gone) ==
    [r EXCEPT !.keepers = @ \ gone,
              !.native = {x \in @ : hasRegister(gone, x[1], x[2])
                                     => hasRegister(r.keepers \ gone, x[1], x[2])}]

disposeArkNode(r, h) == unRegisterNodeEvent(r, {k \in r.keepers : k[1] = h})

(* Types that the element has no target for yet go down to the adapter.    *)
registerEvent(r, e, names, h) ==
    LET known == {Type[x[3]] : x \in {y \in r.targets : y[1] = e /\ y[2] = h}}
        new == {Type[n] : n \in names} \ known
    IN  [r EXCEPT !.targets = @ \cup {<<e, h, n>> : n \in names},
                  !.keepers = @ \cup {<<h, e, t>> : t \in new},
                  !.native = @ \cup {<<h, t>> : t \in {u \in new : ~hasRegister(r.keepers, h, u)}}]

(* gone: pairs of a native node and a name.                                *)
unRegisterEvent(r, e, gone) ==
    LET left == r.targets \ {<<e, g[1], g[2]>> : g \in gone}
        Idle(k) == /\ k[2] = e
                   /\ \E g \in gone : g[1] = k[1] /\ Type[g[2]] = k[3]
                   /\ ~\E x \in left : x[1] = e /\ x[2] = k[1] /\ Type[x[3]] = k[3]
    IN  unRegisterNodeEvent([r EXCEPT !.targets = left], {k \in r.keepers : Idle(k)})

addEventListener(r, e, names, js, h) ==
    [registerEvent(r, e, names, h)
        EXCEPT !.listeners = @ \cup {<<e, n, js, h>> : n \in names}]

(* variant: the name is given up although a widget, or JS, still listens   *)
DropAll(r, e, removed) ==
    unRegisterEvent([r EXCEPT !.listeners = @ \ removed], e, {<<l[4], l[2]>> : l \in removed})

(* What the listeners in `removed' leave without a listener is given up.   *)
Drop(r, e, removed) ==
    LET left == r.listeners \ removed
        Wanted(l) == \E m \in left : m[1] = l[1] /\ m[2] = l[2] /\ m[4] = l[4]
    IN  unRegisterEvent([r EXCEPT !.listeners = left], e,
                        {<<l[4], l[2]>> : l \in {m \in removed : ~Wanted(m)}})

removeEventListener(r, e, n, js) ==
    Drop(r, e, {l \in r.listeners : l[1] = e /\ l[2] = n /\ l[3] = js})

(* variant: only listeners of widgets go when a node changes hands          *)
ClearWidgets(r, e, h) == Drop(r, e, {l \in r.listeners : l[1] = e /\ l[4] = h /\ ~l[3]})

clearNodeEvent(r, e, h) == Drop(r, e, {l \in r.listeners : l[1] = e /\ l[4] = h})

(* ~EventGenerator_HM, with the emitter that owns it.                      *)
destroyEmitter(r, e) ==
    unRegisterNodeEvent([r EXCEPT !.listeners = {l \in @ : l[1] # e},
                                  !.targets = {x \in @ : x[1] # e}],
                        {k \in r.keepers : k[2] = e})

-----------------------------------------------------------------------------
(* An event of ArkUI: the elements and names it is posted to MAIN for, and *)
(* the listener of JS each of these finds.                                 *)
dispatchEvent(h, t) ==
    {x \in alive \X Names : <<h, x[1], t>> \in reg.keepers
                            /\ <<x[1], h, x[2]>> \in reg.targets /\ Type[x[2]] = t}
triggerEvents(e, h, n) == {l \in reg.listeners : l = <<e, n, TRUE, h>>}

Init ==
    /\ reg = [listeners |-> {}, targets |-> {}, keepers |-> {}, native |-> {}]
    /\ live = {} /\ made = {} /\ alive = Rows /\ cached = {} /\ twice = {}
    /\ handle = [e \in Rows |-> None]
    /\ named = [e \in Rows |-> {}] /\ called = [e \in Rows |-> {}]

(* Without a native node addEventListener returns; the name stays in       *)
(* listeners_ref_ and is bound when there is one.                          *)
addNodeEventListener(e, n) ==
    /\ e \in alive /\ n \notin called[e]
    /\ named' = [named EXCEPT ![e] = @ \cup {n}]
    /\ called' = [called EXCEPT ![e] = @ \cup {n}]
    /\ IF handle[e] = None THEN UNCHANGED <<reg, twice>>
       ELSE /\ twice' = twice \cup ({<<e, n, TRUE, handle[e]>>} \cap reg.listeners)
            /\ AvoidTwice => twice' = twice
            /\ reg' = addEventListener(reg, e, {n}, TRUE, handle[e])
    /\ UNCHANGED <<live, made, alive, handle, cached>>

removeNodeEventListener(e, n) ==
    /\ e \in alive
    /\ named' = [named EXCEPT ![e] = @ \cup {n}]
    /\ called' = [called EXCEPT ![e] = @ \ {n}]
    /\ reg' = removeEventListener(reg, e, n, TRUE)
    /\ twice' = {l \in twice : l[1] # e \/ l[2] # n}
    /\ UNCHANGED <<live, made, alive, handle, cached>>

(* A widget listens, on its own native node or on one it draws in.         *)
registerEvent_NoCallBack(e, n, h) ==
    /\ e \in alive /\ h \in live
    /\ Cardinality({l \in reg.listeners : ~l[3]}) < MaxWidgets
    /\ reg' = addEventListener(reg, e, {n}, FALSE, h)
    /\ UNCHANGED <<live, made, alive, handle, cached, named, called, twice>>

unRegisterEventByName_NoCallBack(e, n) ==
    /\ e \in alive
    /\ reg' = removeEventListener(reg, e, n, FALSE)
    /\ UNCHANGED <<live, made, alive, handle, cached, named, called, twice>>

updateListenEvent(r, e, h) == addEventListener(r, e, named[e], TRUE, h)
TwiceAfter(r, e, h) == twice \cup ({<<e, n, TRUE, h>> : n \in named[e]} \cap r.listeners)

(* A row comes into sight, recycleManager: it still has its native node,   *)
attachInitialized(e) ==
    /\ e \in alive /\ handle[e] # None /\ e \in cached
    /\ cached' = cached \ {e}
    /\ UNCHANGED <<reg, live, made, alive, handle, named, called, twice>>

(* or takes that of a row out of sight, Build(reuse_element); rows of the  *)
(* pool that died are dropped when they are met,                           *)
attachReused(e, old, dropped) ==
    /\ e \in alive /\ handle[e] = None
    /\ old \in cached \cap alive /\ dropped \subseteq cached \ alive
    /\ LET h == handle[old]
           disposed == {handle[d] : d \in dropped}
           free == unRegisterNodeEvent(reg, {k \in reg.keepers : k[1] \in disposed})
           cleared == clearNodeEvent(free, old, h)
       IN  /\ reg' = updateListenEvent(cleared, e, h)
           /\ twice' = TwiceAfter(cleared, e, h)
           /\ live' = live \ disposed
           /\ handle' = [d \in Rows |-> IF d = e THEN h
                                        ELSE IF d \in dropped \cup {old} THEN None
                                        ELSE handle[d]]
    /\ cached' = cached \ (dropped \cup {old})
    /\ UNCHANGED <<made, alive, named, called>>

(* or is built with a native node of its own.                              *)
attachBuilt(e, h) ==
    /\ e \in alive /\ handle[e] = None /\ h \in Handles \ made
    /\ cached \cap alive = {}
    /\ LET disposed == {handle[d] : d \in cached}
           free == unRegisterNodeEvent(reg, {k \in reg.keepers : k[1] \in disposed})
       IN  /\ reg' = updateListenEvent(free, e, h)
           /\ twice' = TwiceAfter(free, e, h)
           /\ live' = (live \ disposed) \cup {h}
    /\ handle' = [d \in Rows |-> IF d = e THEN h ELSE IF d \in cached THEN None ELSE handle[d]]
    /\ made' = made \cup {h} /\ cached' = {}
    /\ UNCHANGED <<alive, named, called>>

(* A row goes out of sight.                                                *)
onItemRecycled(e) ==
    /\ e \in alive /\ handle[e] # None
    /\ cached' = cached \cup {e}
    /\ UNCHANGED <<reg, live, made, alive, handle, named, called, twice>>

(* JS removes a row.  A render node in the pool outlives its element.      *)
destroy(e) ==
    /\ e \in alive
    /\ alive' = alive \ {e}
    /\ named' = [named EXCEPT ![e] = {}] /\ called' = [called EXCEPT ![e] = {}]
    /\ twice' = {l \in twice : l[1] # e}
    /\ IF e \in cached \/ handle[e] = None
       THEN reg' = destroyEmitter(reg, e) /\ UNCHANGED <<live, handle>>
       ELSE /\ reg' = disposeArkNode(destroyEmitter(reg, e), handle[e])
            /\ live' = live \ {handle[e]}
            /\ handle' = [handle EXCEPT ![e] = None]
    /\ UNCHANGED <<made, cached>>

Next ==
    \/ \E e \in Rows, n \in Names :
        \/ addNodeEventListener(e, n)
        \/ removeNodeEventListener(e, n)
        \/ unRegisterEventByName_NoCallBack(e, n)
        \/ \E h \in Handles : registerEvent_NoCallBack(e, n, h)
    \/ \E e \in Rows :
        \/ attachInitialized(e)
        \/ \E old \in Rows, dropped \in SUBSET Rows : attachReused(e, old, dropped)
        \/ \E h \in Handles : attachBuilt(e, h)
        \/ onItemRecycled(e)
        \/ destroy(e)

Spec == Init /\ [][Next]_vars

-----------------------------------------------------------------------------
TypeOK ==
    /\ reg \in [listeners : SUBSET Listeners, targets : SUBSET Targets,
                keepers : SUBSET Keepers, native : SUBSET (Handles \X Types)]
    /\ live \subseteq made /\ made \subseteq Handles
    /\ alive \subseteq Rows /\ cached \subseteq Rows
    /\ handle \in [Rows -> live \cup {None}]

(* The layers agree, whatever was added, removed, passed on or destroyed:  *)
(* a target for the listeners of each kind, a keeper for the targets of    *)
(* each type on a node that exists, a registration with ArkUI for each     *)
(* type a node has keepers of, and nothing else (event_emitter,            *)
(* event_generator_hm, event_adapter).                                     *)
Consistent(r, nodes) ==
    /\ r.targets = {<<l[1], l[4], l[2]>> : l \in r.listeners}
    /\ r.keepers = {<<x[2], x[1], Type[x[3]]>> : x \in {y \in r.targets : y[2] \in nodes}}
    /\ r.native = {<<k[1], k[3]>> : k \in r.keepers}
LayersAgree == Consistent(reg, live)

(* What JS listens for reaches it, once, and only from the row's own node: *)
(* a row that gave its node away hears nothing of it, and the one that has *)
(* it now is heard, whichever way it was built (event.cpp, Build of a      *)
(* reuse_element, recycleManager).                                         *)
Heard ==
    /\ twice = {}
    /\ \A l \in reg.listeners : l[3] => l[4] = handle[l[1]]
    /\ \A e \in alive : handle[e] # None => \A n \in called[e] :
        /\ <<handle[e], Type[n]>> \in reg.native
        /\ <<e, n>> \in dispatchEvent(handle[e], Type[n])
        /\ triggerEvents(e, handle[e], n) # {}
=============================================================================
