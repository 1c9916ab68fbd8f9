---------------------------- MODULE NodeAnimations ----------------------------
(***************************************************************************)
(* A property of a render node between its style and its animations.       *)
(*                                                                         *)
(*   ark_nodes/arkui_node       SetStyle, RemoveChild, the end of a layout *)
(*   animation/node_animations  what a style starts, keeps and cancels     *)
(*   animation/css_animation,   the animators of keyframes and of          *)
(*     css_transition, animate  transitions, stopped and deleted           *)
(*   animation/props_controller, animation_property                        *)
(*                              which animator's value goes to the node    *)
(*   animation/trigger          who is ticked by a frame                   *)
(*                                                                         *)
(* MAIN changes styles and the vsync thread ticks, both under              *)
(* AnimationLock; a tick hands what it has for the node to MAIN as tasks,  *)
(* and between a tick and its tasks anything may happen.  The property has *)
(* a value in every style (opacity, say); the node is displayed and on one *)
(* page, the keyframes have one name and are loaded once.                  *)
(*                                                                         *)
(* Sequences the code does not get right have names, as in Document:       *)
(*   "zero"       a transition's duration becomes 0 before it is deleted:  *)
(*                the new value is set, the transition goes on to the old  *)
(*   "outlived"   a transition ends before an earlier one of the property  *)
(*   "beneath"    keyframes start while a transition runs                  *)
(*   "late"       a frame comes between the deletion of a transition and   *)
(*                its last value, which MAIN then refuses                  *)
(*   "leftover"   a style drops the transition while keyframes hold the    *)
(*                property: it is reset though they still do               *)
(*   "unstarted"  keyframes are dropped before a layout has started them:  *)
(*                their first value stays                                  *)
(*   "moved"      an element is moved while it is animated                 *)
(*   "versioned"  the first layout comes while a transition's value is on  *)
(*                its way, which MAIN then refuses                         *)
(***************************************************************************)
EXTENDS Naturals, Sequences, FiniteSets, SequencesExt

CONSTANTS
    Values,     \* of the property in styles
    MaxStyles,  \* bound: styles a node is given
    MaxTasks,   \* bound: a frame finds fewer tasks that MAIN has not run
    Avoided     \* flaws, see above, that do not happen

VARIABLES
    style, old,     \* style_ref_, old_style_ref_
    setting,        \* MAIN's place in SetStyle
    node,           \* the property's value in the render node
    animated,       \* animation_ is not null
    anim_version_,  \* of the keyframes: 0 until a layout starts them, then 1
    keyframes,      \* the animator of keyframes, if there is one
    transitions,    \* animators of transitions, in order of their ids
    known,          \* type_to_animator_ is not empty
    deleted,        \* delete_queue_ of the transitions
    resets,         \* engines with the property in set_system_props_
    tasks,          \* for MAIN
    operate_queue,  \* of the master: to enable or to disable
    triggered,      \* the node's trigger is in the master's map
    ids             \* animators made so far

engine == <<keyframes, transitions, known, deleted, resets>>
trigger == <<operate_queue, triggered>>
vars == <<style, old, setting, node, animated, anim_version_, engine, tasks, trigger, ids>>

Styles == [value : Values, transition : {"none", "zero", "some"},
           keyframes : BOOLEAN, fill : {"none", "forwards"}]

NoAnimator == [state |-> "none", id |-> 0, fill |-> "none"]

IsRunning(a) == a.state = "running"

(* isActivePropType: keyframes that run or hold their last value.          *)
Held == \/ keyframes.state = "running"
        \/ keyframes.state = "stopped" /\ keyframes.fill = "forwards"

Enable == operate_queue' = Append(operate_queue, TRUE)

-----------------------------------------------------------------------------
(* MAIN: a style.                                                          *)
SetStyle(s) ==
    /\ setting = "done" /\ ids.styles < MaxStyles /\ s # style
    /\ "zero" \in Avoided =>
          ~(s.transition = "zero" /\ transitions # <<>>)
    /\ "leftover" \in Avoided => ~(s.transition = "none" /\ known /\ keyframes # NoAnimator)
    /\ "unstarted" \in Avoided =>
          ~(style.keyframes /\ ~s.keyframes /\ keyframes = NoAnimator)
    /\ style' = s /\ old' = style
    /\ setting' = "clear"
    /\ ids' = [ids EXCEPT !.styles = @ + 1]
    /\ UNCHANGED <<node, animated, anim_version_, engine, tasks, trigger>>

(* variant: the property is not reset.                                     *)
CancelOnly(k) == /\ keyframes' = NoAnimator
                 /\ resets' = resets \cup k

cancelAnimation(k) == /\ keyframes' = NoAnimator
                      /\ resets' = resets \cup k \cup {"keyframes"}

Stop(a) == IF IsRunning(a) THEN [a EXCEPT !.state = "stopped"] ELSE a
Deletions(ts) == [i \in DOMAIN ts |-> [kind |-> "delete", id |-> ts[i].id]]

clearStyleCSSAnimations ==
    LET drop == known /\ style.transition = "none"
        reset == IF drop THEN {"transitions"} ELSE {}
    IN
    /\ setting = "clear" /\ setting' = "diff"
    /\ IF old.keyframes /\ ~style.keyframes /\ keyframes # NoAnimator
       THEN cancelAnimation(reset)
       ELSE resets' = resets \cup reset /\ UNCHANGED keyframes
    /\ IF drop
       THEN /\ transitions' = [i \in DOMAIN transitions |-> Stop(transitions[i])]
            /\ tasks' = tasks \o Deletions(SelectSeq(transitions, IsRunning))
       ELSE UNCHANGED <<transitions, tasks>>
    /\ UNCHANGED <<style, old, node, animated, anim_version_, known, deleted, trigger, ids>>

bindTransition ==
    /\ transitions' = Append(transitions, [state |-> "running", id |-> ids.animators + 1,
                                           to |-> style.value])
    /\ known' = TRUE
    /\ Enable
    /\ ids' = [ids EXCEPT !.animators = @ + 1]

(* The differ: keyframes keep the new value away, a transition leads to it. *)
onSetPropertyIntoNode ==
    /\ setting = "diff" /\ setting' = "zero"
    /\ animated' = (animated \/ (style.value # old.value /\ style.transition # "none"))
    /\ \/ /\ style.value # old.value /\ ~Held /\ style.transition = "some"
          /\ bindTransition
          /\ UNCHANGED node
       \/ /\ style.value # old.value /\ ~Held /\ style.transition # "some"
          /\ node' = style.value
          /\ UNCHANGED <<transitions, known, operate_queue, ids>>
       \/ /\ style.value = old.value \/ Held
          /\ UNCHANGED <<node, transitions, known, operate_queue, ids>>
    /\ UNCHANGED <<style, old, anim_version_, keyframes, deleted, resets, tasks, triggered>>

(* New keyframes without a delay: their first value is set at once.        *)
setCSSAnimationZeroValue ==
    /\ setting = "zero" /\ setting' = "done"
    /\ animated' = (animated \/ style.keyframes)
    /\ IF style.keyframes /\ ~old.keyframes THEN node' \in {node, "first"}
       ELSE UNCHANGED node
    /\ UNCHANGED <<style, old, anim_version_, engine, tasks, trigger, ids>>

(* A layout reached the node: its first one sets the version, with or      *)
(* without keyframes to start.                                             *)
bindAnimation ==
    /\ "beneath" \in Avoided => transitions = <<>>
    /\ keyframes' = [state |-> "running", id |-> ids.animators + 1, fill |-> style.fill]
    /\ ids' = [ids EXCEPT !.animators = @ + 1]
    /\ Enable

startCSSAnimation ==
    /\ setting = "done" /\ animated
    /\ "versioned" \in Avoided =>
          anim_version_ = 1 \/ \A i \in DOMAIN tasks : tasks[i].kind # "transitions"
    /\ anim_version_' = 1
    /\ \/ /\ style.keyframes /\ keyframes = NoAnimator
          /\ bindAnimation
       \/ /\ style.keyframes => keyframes # NoAnimator
          /\ UNCHANGED <<keyframes, ids, operate_queue>>
    /\ UNCHANGED <<style, old, setting, node, animated, transitions, known, deleted,
                   resets, tasks, triggered>>

(* The element leaves its parent; it may come back with its render node,   *)
(* whose next animations are a new object with a new trigger.              *)
RemoveChild ==
    /\ setting = "done"
    /\ "moved" \in Avoided => keyframes = NoAnimator /\ transitions = <<>> /\ tasks = <<>>
                              /\ resets = {} /\ ~style.keyframes
    /\ animated' = FALSE /\ anim_version_' = 0
    /\ keyframes' = NoAnimator /\ transitions' = <<>> /\ known' = FALSE
    /\ deleted' = {} /\ resets' = {}
    /\ operate_queue' = <<>> /\ triggered' = FALSE
    /\ UNCHANGED <<style, old, setting, node, tasks, ids>>

-----------------------------------------------------------------------------
(* MAIN: the tasks of ticks.                                               *)
HasAnimator(t) ==
    IF t.kind = "keyframes" THEN keyframes.id = t.id
    ELSE \E a \in Range(transitions) : a.id = t.id

IsValid(t) == t.version = anim_version_ /\ HasAnimator(t)

RunTask ==
    /\ setting = "done" /\ tasks # <<>>
    /\ tasks' = Tail(tasks)
    /\ LET t == Head(tasks) IN
       \/ /\ t.kind = "delete"
          /\ deleted' = IF HasAnimator(t) THEN deleted \cup {t.id} ELSE deleted
          /\ UNCHANGED node
       \/ /\ t.kind = "reset"
          /\ node' = style.value
          /\ UNCHANGED deleted
       \/ /\ t.kind \in {"keyframes", "transitions"}
          /\ node' = IF IsValid(t) THEN t.value ELSE node
          /\ UNCHANGED deleted
    /\ UNCHANGED <<style, old, setting, animated, anim_version_, keyframes, transitions,
                   known, resets, trigger, ids>>

-----------------------------------------------------------------------------
(* The vsync thread: a frame, under AnimationLock.  Each animator that     *)
(* runs waits for its delay, has a value on the way, or ends.              *)
Progress == {"waits", "moves", "ends"}

After(a, p) == IF p = "ends" THEN [a EXCEPT !.state = "stopped"] ELSE a

Reset == <<[kind |-> "reset"]>>

(* variant: only keyframes are asked whether they are active.              *)
ActiveKeyframes(ks, ts) == ks # NoAnimator
isActive(ks, ts) == ks # NoAnimator \/ ts # <<>>

executeDelete(ts) == SelectSeq(ts, LAMBDA a : a.id \notin deleted)

tick(p, q) ==
    LET left == executeDelete(transitions)
        moved == [i \in DOMAIN left |-> After(left[i], q[i])]
        ended == SelectSeq([i \in DOMAIN left |-> [id |-> left[i].id, p |-> q[i]]],
                           LAMBDA e : e.p = "ends")
        kmoved == After(keyframes, p)
        last == {i \in DOMAIN left : q[i] \in {"moves", "ends"}}
        top == CHOOSE i \in last : \A j \in last : j <= i
        value ==
            IF p \in {"moves", "ends"}
            THEN <<[kind |-> "keyframes", id |-> keyframes.id,
                    version |-> anim_version_,
                    value |-> IF p = "ends" /\ keyframes.fill = "forwards" THEN "last"
                              ELSE "between"]>>
            ELSE IF last = {} THEN <<>>
            ELSE <<[kind |-> "transitions", id |-> left[top].id,
                    version |-> anim_version_,
                    value |-> IF q[top] = "ends" THEN left[top].to ELSE "between"]>>
    IN
    /\ q \in [DOMAIN left -> Progress]
    /\ \A i \in DOMAIN left : IsRunning(left[i]) \/ q[i] = "waits"
    /\ IsRunning(keyframes) \/ p = "waits"
    /\ "outlived" \in Avoided =>
          \A i, j \in DOMAIN left : i < j /\ q[j] = "ends" => ~IsRunning(moved[i])
    /\ keyframes' = kmoved
    /\ transitions' = moved
    /\ deleted' = {}
    /\ resets' = IF p = "ends" /\ keyframes.fill = "none" THEN {"keyframes"} ELSE {}
    /\ tasks' = tasks \o (IF "keyframes" \in resets THEN Reset ELSE <<>>)
                      \o (IF "transitions" \in resets THEN Reset ELSE <<>>)
                      \o Deletions(ended)
                      \o value
    /\ operate_queue' = IF isActive(kmoved, moved) THEN <<>> ELSE <<FALSE>>

onFrame ==
    /\ Len(tasks) < MaxTasks
    /\ triggered' = IF operate_queue = <<>> THEN triggered ELSE Last(operate_queue)
    /\ "late" \in Avoided =>
          ~\E i \in DOMAIN tasks : tasks[i].kind = "transitions" /\ tasks[i].id \in deleted
    /\ IF triggered' THEN \E p \in Progress :
                             \E q \in UNION {[1 .. n -> Progress] : n \in 0 .. Len(transitions)} :
                                 tick(p, q)
       ELSE operate_queue' = <<>> /\ UNCHANGED <<keyframes, transitions, deleted, resets, tasks>>
    /\ UNCHANGED <<style, old, setting, node, animated, anim_version_, known, ids>>

Init ==
    /\ style \in {s \in Styles : ~s.keyframes} /\ old = style
    /\ node = style.value
    /\ setting = "done" /\ animated = FALSE /\ anim_version_ = 0
    /\ keyframes = NoAnimator /\ transitions = <<>> /\ known = FALSE
    /\ deleted = {} /\ resets = {} /\ tasks = <<>>
    /\ operate_queue = <<>> /\ triggered = FALSE
    /\ ids = [styles |-> 0, animators |-> 0]

Next ==
    \/ \E s \in Styles : SetStyle(s)
    \/ clearStyleCSSAnimations \/ onSetPropertyIntoNode \/ setCSSAnimationZeroValue
    \/ startCSSAnimation \/ RemoveChild
    \/ RunTask
    \/ onFrame

Spec == Init /\ [][Next]_vars

-----------------------------------------------------------------------------
WillTick == IF operate_queue = <<>> THEN triggered ELSE Last(operate_queue)

(* Ticked: whatever has an animator, or keyframes it was freed of, is      *)
(* ticked by the next frame, across the frames that disable the trigger    *)
(* and the styles that enable it (node_animations.cpp:51, 68, 158).        *)
Ticked == keyframes # NoAnimator \/ transitions # <<>> \/ "keyframes" \in resets => WillTick

(* Settled: when nothing runs, waits or is to be deleted, the property has *)
(* the value that the keyframes hold, or else the style's, whatever frames *)
(* and styles came between the ticks and their tasks.                      *)
Quiet ==
    /\ setting = "done" /\ tasks = <<>> /\ transitions = <<>> /\ ~IsRunning(keyframes)
    /\ "keyframes" \notin resets
    /\ style.keyframes => keyframes # NoAnimator

Settled == Quiet => node = IF Held THEN "last" ELSE style.value
===============================================================================
