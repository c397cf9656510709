----------------------------- MODULE DurableFile -----------------------------
(***************************************************************************)
(* What ui/durable_write.hpp promises of a file of state: "cutting the     *)
(* power at any moment leaves either the old file whole, or the new one    *)
(* whole".  A file holds a version that was asked for, and goes from one   *)
(* to a later one in a single step; a power cut is no step of it at all.   *)
(***************************************************************************)
EXTENDS Integers

CONSTANT Files

VARIABLES asked, content

Ask(f) ==
    /\ asked' = [asked EXCEPT ![f] = @ + 1]
    /\ UNCHANGED content

Replace(f) ==
    /\ \E v \in content[f] + 1 .. asked[f] : content' = [content EXCEPT ![f] = v]
    /\ UNCHANGED asked

Init == asked = [f \in Files |-> 0] /\ content = [f \in Files |-> 0]
Next == \E f \in Files : Ask(f) \/ Replace(f)
Spec == Init /\ [][Next]_<<asked, content>>
=============================================================================
