-------------------------- MODULE UniqueWeakPtrQueue --------------------------
(***************************************************************************)
(* The queues of dirty nodes (runtime/dirty_vsync_task.h, UniqueWeakPtr-   *)
(* Queue): a deque of weak pointers beside a set of the ids it holds.      *)
(* push consults only the set, pop follows only the deque, empty() asks    *)
(* only the set, and a node that dies silently leaves its expired pointer  *)
(* in the one and its id in the other.  Ids are never used again           *)
(* (arkui_node.cpp:99), so a node stands for its id.                       *)
(*                                                                         *)
(* Everything happens on the MAIN thread: the operations are atomic.       *)
(***************************************************************************)
EXTENDS Naturals, Sequences, FiniteSets, SequencesExt, Lists

CONSTANTS
    Nodes,      \* nodes that become dirty
    MaxPushes   \* bound on the calls of push

VARIABLES
    queue,    \* std::deque<std::weak_ptr<T>>
    set,      \* std::unordered_set<int>
    alive,    \* nodes some shared_ptr owns
    pushes,   \* calls of push so far
    dirty     \* nodes pushed and not popped, painted or cleared (history)

vars == <<queue, set, alive, pushes, dirty>>

Init ==
    /\ queue = <<>>
    /\ set = {}
    /\ alive = Nodes
    /\ pushes = 0
    /\ dirty = {}

Live(s) == Without(s, Nodes \ alive)

empty == set = {}

-----------------------------------------------------------------------------
Pushed(n) == IF n \in set THEN queue ELSE Append(queue, n)

push(n) ==
    /\ n \in alive
    /\ pushes < MaxPushes
    /\ pushes' = pushes + 1
    /\ set' = set \cup {n}
    /\ queue' = Pushed(n)
    /\ dirty' = dirty \cup {n}
    /\ UNCHANGED alive

(* The last shared_ptr of a node goes.                                     *)
Expire(n) ==
    /\ n \in alive
    /\ alive' = alive \ {n}
    /\ UNCHANGED <<queue, set, pushes, dirty>>

SetAfterPopUnfiltered(n) == set                \* variant: set.erase is missing
SetAfterPop(n) == set \ {n}

(* pop() called by a Flush loop, which has tested empty(): expired         *)
(* pointers before the first live one are dropped with it, their ids stay. *)
PopLive ==
    /\ ~empty
    /\ \E i \in DOMAIN queue :
          /\ queue[i] \in alive
          /\ \A j \in 1 .. i - 1 : queue[j] \notin alive
          /\ queue' = SubSeq(queue, i + 1, Len(queue))
          /\ set' = SetAfterPop(queue[i])
          /\ dirty' = dirty \ {queue[i]}
    /\ UNCHANGED <<alive, pushes>>

SetKept == set         \* variant: set.clear() is missing
SetWhenNoneLeft == {}

(* pop() that meets no live pointer clears the ids left over.              *)
PopNothing ==
    /\ ~empty
    /\ Live(queue) = <<>>
    /\ queue' = <<>>
    /\ set' = SetWhenNoneLeft
    /\ UNCHANGED <<alive, pushes, dirty>>

SetAfterLocal(painted) == set \ painted

(* FlushPaintLocalSync takes the nodes of one subtree out of the middle    *)
(* and drops every expired pointer, but not its id.                        *)
FlushPaintLocalSync ==
    \E painted \in SUBSET ToSet(Live(queue)) :
        /\ queue' = Without(Live(queue), painted)
        /\ set' = SetAfterLocal(painted)
        /\ dirty' = dirty \ painted
        /\ UNCHANGED <<alive, pushes>>

clear ==
    /\ queue' = <<>>
    /\ set' = {}
    /\ dirty' = {}
    /\ UNCHANGED <<alive, pushes>>

Pop == PopLive \/ PopNothing

Next ==
    \/ \E n \in Nodes : push(n) \/ Expire(n)
    \/ Pop
    \/ FlushPaintLocalSync
    \/ clear

Spec == Init /\ [][Next]_vars

-----------------------------------------------------------------------------
(* WaitsInDeque: the deque holds a live node, once, exactly when it is    *)
(* dirty, after any mix of marks, deaths, pops and partial flushes: no     *)
(* node waits where no pop will find it (dirty_vsync_task.h:70-88).        *)
WaitsInDeque == ToSet(Live(queue)) = dirty \cap alive /\ IsInjective(queue)

(* EmptyIsTrue: whatever died or was painted in between, the set says      *)
(* `not empty' as long as a live dirty node waits, and a node that is not  *)
(* waiting is not in it, so it can be pushed again (:72, 99-101).          *)
EmptyIsTrue == set \cap alive = dirty \cap alive

(* The two are one queue.                                                  *)
DequeAndSet == WaitsInDeque /\ EmptyIsTrue

(* PopMakesProgress: each pop of `while (!q.empty()) q.pop()' makes the    *)
(* set smaller, so the loop ends even when all that is left is ids of dead *)
(* nodes (dirty_vsync_task.cpp:116, 125, 139, 169; .h:86).                 *)
PopMakesProgress == [][Pop => set' \subseteq set /\ set' # set]_vars
=============================================================================
