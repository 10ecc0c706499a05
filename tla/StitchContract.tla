---------------------------- MODULE StitchContract ----------------------------
(* What stitching promises, whatever the order of the lines and the bounds of *)
(* its memory: a child is passed on if its parent is somewhere in the file    *)
(* and is quarantined as an orphan if it is not; no answer is ever revised.   *)
EXTENDS Integers, Sequences

CONSTANT Lines          \* lines of a result: [kind, id, parent]

VARIABLES file, answer

ParentKinds == {"product", "item"}
ChildKinds == {"variant", "metafield", "level"}

Parents(f) == {f[i].id : i \in {n \in DOMAIN f : f[n].kind \in ParentKinds}}

Right(f, i) ==
    IF f[i].kind \in ParentKinds THEN "parent"
    ELSE IF f[i].kind \notin ChildKinds THEN "invalid"
    ELSE IF f[i].parent \in Parents(f) THEN "emit" ELSE "orphan"

Unanswered == [i \in DOMAIN file |-> "none"]

Init == file \in Seq(Lines) /\ answer = Unanswered

Answer ==
    \E i \in DOMAIN file :
        /\ answer[i] = "none"
        /\ answer' = [answer EXCEPT ![i] = Right(file, i)]
        /\ UNCHANGED file

\* A new attempt begins from the first line.
Restart == answer' = Unanswered /\ UNCHANGED file

Next == Answer \/ Restart

Spec == Init /\ [][Next]_<<file, answer>>
=============================================================================
