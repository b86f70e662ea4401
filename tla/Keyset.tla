------------------------------- MODULE Keyset -------------------------------
(***************************************************************************)
(* Keyset pagination as the candidate reads of the directory use it: rows  *)
(* ordered by a time, the actor URL and the candidate kind, read one       *)
(* bounded page at a time, each page starting after the last row of the    *)
(* one before.  A key is a sequence of numbers; a row is a record with a   *)
(* field key.                                                              *)
(***************************************************************************)
EXTENDS Naturals, FiniteSets, Sequences

(* The cursor of a first page, below every key. *)
Start == <<>>

(* Row-value comparison: (a, b, c) < (d, e, f). *)
Before(k, l) ==
    \E i \in 1..Len(l) : /\ \A j \in 1..(i - 1) : j <= Len(k) /\ k[j] = l[j]
                         /\ i <= Len(k) => k[i] < l[i]

AfterCursor(rows, cursor) == {c \in rows : Before(cursor, c.key)}

(* The first limit rows. *)
PageOf(rows, limit) ==
    {c \in rows : Cardinality({d \in rows : Before(d.key, c.key)}) < limit}

LastKey(rows) == (CHOOSE c \in rows : \A d \in rows : ~Before(c.key, d.key)).key

(* The query asks for one row more than the page holds.  When it comes, the *)
(* next page starts after the last row of this one; otherwise the cursor is *)
(* zero and the scan is over.                                               *)
NextCursor(rows, limit) ==
    IF Cardinality(rows) > limit THEN LastKey(PageOf(rows, limit)) ELSE Start
=============================================================================
