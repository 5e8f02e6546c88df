------------------------- MODULE MCConfirmedBuffer -------------------------
(* Small instances of ConfirmedBuffer for TLC.                             *)
EXTENDS ConfirmedBuffer

Update(id, slot, label) == [id |-> id, slot |-> slot, label |-> label]

\* Three confirmed transactions of one slot, one of another, and a processed
\* one, which is never held back.
MCUpdates ==
    {Update(i, 1, "confirmed") : i \in 1 .. 3}
        \cup {Update(4, 2, "confirmed"), Update(5, 2, "confirmed"), Update(6, 1, "processed")}
=============================================================================
