----------------------------- MODULE SegmentSeq -----------------------------
(***************************************************************************)
(* What the lists of 415640/ll.c promise: each is a sequence of segments,  *)
(* and every call takes effect at once.                                    *)
(***************************************************************************)
EXTENDS Naturals, Sequences

CONSTANTS Threads, Region, Data

VARIABLE content  \* the sequence each list holds

Init == content = [l \in Threads \cup {Region} |-> <<>>]

\* Also ll_append_safe, on Region.
ll_append(l, d) == content' = [content EXCEPT ![l] = Append(@, d)]

\* The first element that is d.
ll_remove(l, d) ==
    \E i \in 1..Len(content[l]) :
        /\ content[l][i] = d /\ \A j \in 1..(i - 1) : content[l][j] # d
        /\ content' = [content EXCEPT ![l] = SubSeq(@, 1, i - 1) \o SubSeq(@, i + 1, Len(@))]

ll_concat_safe(t) ==
    content' = [content EXCEPT ![Region] = @ \o content[t], ![t] = <<>>]

ll_destroy(l) == content' = [content EXCEPT ![l] = <<>>]

Next ==
    \/ \E t \in Threads : ll_concat_safe(t)
    \/ \E l \in Threads \cup {Region} :
          \/ \E d \in Data : ll_append(l, d) \/ ll_remove(l, d)
          \/ ll_destroy(l)

Spec == Init /\ [][Next]_content
=============================================================================
