------------------------------ MODULE Channel ------------------------------
(***************************************************************************)
(* What a data channel of a camera connection promises its reader: the      *)
(* messages the camera wrote, in the order it wrote them, none left out,    *)
(* none twice, and none after the connection is over.                       *)
(***************************************************************************)
EXTENDS Naturals, Sequences

CONSTANT Written     \* the camera's messages, in the order it wrote them

VARIABLES got,       \* the messages handed to the reader's queue
          over       \* the connection has ended

Init == got = <<>> /\ over = FALSE

\* One packet may complete several messages, and may end the connection.
Step ==
    /\ ~over
    /\ \E n \in Len(got)..Len(Written) : got' = SubSeq(Written, 1, n)
    /\ over' \in BOOLEAN

Spec == Init /\ [][Step]_<<got, over>>
=============================================================================
