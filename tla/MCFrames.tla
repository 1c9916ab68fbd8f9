------------------------------ MODULE MCFrames ------------------------------
(* Small instances of DirtyTaskPipeline, NodeAnimations and StyleSheet for *)
(* TLC: what a frame flushes, what it animates and which styles it finds.  *)
(* They share no state, so a behaviour is one of any and the others keep   *)
(* their initial states.                                                   *)
EXTENDS DirtyTaskPipeline, MCAnimations, TLC

CONSTANTS Views, Page, NoView, MaxChanges, AvoidedChanges
VARIABLES rules, dom, attr, classes, changes, frame

styles == <<rules, dom, attr, classes, changes>>

(* Three sheets: one asks for two classes or an ancestor's, one for a      *)
(* parent's parent or no child, one for a place among siblings.            *)
Classes == {"x", "y"}
Attributes == {{}, Classes}
Of(c) == <<[class |-> c, match |-> "subject"]>>
And(selector, match, c) == Append(selector, [class |-> c, match |-> match])
Rule(selector, pseudo) == [selector |-> selector, pseudo |-> pseudo, a |-> 2, b |-> 1]
Sheets ==
    {<<Rule(And(Of("x"), "multiple", "y"), "none"),
       Rule(And(Of("y"), "ancestor", "x"), "none")>>,
     <<Rule(And(And(Of("x"), "parent", "y"), "parent", "x"), "none"),
       Rule(Of("y"), "empty"), Rule(Of("y"), "after")>>,
     <<Rule(Of("x"), "first"), Rule(Of("y"), "last"),
       Rule(Of("x"), "before"), Rule(Of("x"), "nth")>>}
Sheet == INSTANCE StyleSheet WITH Nodes <- Views, None <- NoView, Avoided <- AvoidedChanges
ASSUME SheetsAssumption == Sheet!ConstantsBounded

Symmetry == Permutations(Values) \cup Permutations(Views)

Styled == Sheet!Styled

FrameInit ==
    /\ Init /\ Animation!Init /\ Sheet!Init
    /\ frame \in {"flushes", "animates", "matches"}
    /\ frame # "animates" => style = CHOOSE s \in Animation!Styles : ~s.keyframes
    /\ frame # "matches" => attr[Page] = {} /\ rules = CHOOSE sheet \in Sheets : TRUE

FrameNext ==
    /\ \/ frame = "flushes" /\ Next /\ UNCHANGED <<animations, styles>>
       \/ frame = "animates" /\ Animation!Next /\ UNCHANGED <<vars, styles>>
       \/ frame = "matches" /\ Sheet!Next /\ UNCHANGED <<vars, animations>>
    /\ UNCHANGED frame

FrameSpec == FrameInit /\ [][FrameNext]_<<vars, animations, styles, frame>>
=============================================================================
