------------------------------ MODULE FileLife ------------------------------
(***************************************************************************)
(* What the recorders promise of the files they write, whatever happens to *)
(* the drive: a writer has at most one file open; a file that was closed   *)
(* is never written again; a file with content is never removed before it  *)
(* is closed, and never loses its content.                                 *)
(***************************************************************************)
EXTENDS Integers, Sequences

CONSTANT Writers

VARIABLE life    \* the files, in the order in which they were opened

NewLife(w, phase) == [by |-> w, phase |-> phase, content |-> FALSE]
IsOpen(k) == life[k].phase = "open"

LifeInit == life = <<>>

Begin(w) ==
    /\ \A k \in DOMAIN life : ~(IsOpen(k) /\ life[k].by = w)
    /\ life' = Append(life, NewLife(w, "open"))

\* The writer failed to begin and leaves an empty file behind.
Spoil(w) == life' = Append(life, NewLife(w, "closed"))

Write(k) == IsOpen(k) /\ life' = [life EXCEPT ![k].content = TRUE]

End(k) == IsOpen(k) /\ life' = [life EXCEPT ![k].phase = "closed"]

\* A file without content is not kept.
Drop(k) ==
    /\ IsOpen(k) /\ ~life[k].content
    /\ life' = [life EXCEPT ![k].phase = "removed"]

\* Space is needed.
Remove(k) ==
    /\ life[k].phase = "closed"
    /\ life' = [life EXCEPT ![k].phase = "removed"]

LifeNext ==
    \/ \E w \in Writers : Begin(w) \/ Spoil(w)
    \/ \E k \in DOMAIN life : Write(k) \/ End(k) \/ Drop(k) \/ Remove(k)

LifeSpec == LifeInit /\ [][LifeNext]_life
=============================================================================
