----------------------------- MODULE MCServices -----------------------------
(* Small instances of NodeEvents, RenderMarks, ImageLoader and             *)
(* UniqueWeakPtrQueue for TLC.  They share no state, so a behaviour is one *)
(* of any and the others keep their initial states.                        *)
EXTENDS NodeEvents, Sequences, TLC

CONSTANTS RenderNodes, Root, Texts, Painted, Fixable, Hideable, AvoidedMarks,
          Requests, Urls, File, Sizes, maxMemorySize,
          Dirty, MaxPushes
VARIABLES page, phase,
          cacheList, cacheMap, currentMemorySize, file, fileWriteLock, request,
          posted, answers,
          queue, set, owned, pushes, dirty,
          service

marks == <<page, phase>>
images == <<cacheList, cacheMap, currentMemorySize, file, fileWriteLock, request,
            posted, answers>>
queues == <<queue, set, owned, pushes, dirty>>

Marks == INSTANCE RenderMarks WITH Nodes <- RenderNodes, Avoided <- AvoidedMarks
Image == INSTANCE ImageLoader
Queue == INSTANCE UniqueWeakPtrQueue WITH Nodes <- Dirty, alive <- owned

ASSUME MarksAssumption == Marks!ConstantsApart
ASSUME ImageAssumption == Image!ConstantsTyped

OneType == [n \in Names |-> "touch"]
OneFile == [u \in Urls |-> "f"]

(* Rows, loads and dirty nodes bear the same three names, native nodes and *)
(* urls the same two: one symmetry each.                                   *)
Symmetry == Permutations(Rows) \cup Permutations(Handles)

LayoutAwaited == Marks!LayoutAwaited
MarksQueued == Marks!MarksQueued
PaintAwaited == Marks!PaintAwaited
CacheAccounted == Image!CacheAccounted
AnsweredOnce == Image!AnsweredOnce
DequeAndSet == Queue!DequeAndSet
PopMakesProgress == Queue!PopMakesProgress

AllInit ==
    /\ Init /\ Marks!Init /\ Image!Init /\ Queue!Init
    /\ service \in {"events", "marks", "images", "queue"}

AllNext ==
    /\ \/ service = "events" /\ Next /\ UNCHANGED <<marks, images, queues>>
       \/ service = "marks" /\ Marks!Next /\ UNCHANGED <<vars, images, queues>>
       \/ service = "images" /\ Image!Next /\ UNCHANGED <<vars, marks, queues>>
       \/ service = "queue" /\ Queue!Next /\ UNCHANGED <<vars, marks, images>>
    /\ UNCHANGED service

AllSpec == AllInit /\ [][AllNext]_<<vars, marks, images, queues, service>>
=============================================================================
