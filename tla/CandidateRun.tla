---------------------------- MODULE CandidateRun ----------------------------
(***************************************************************************)
(* What the maintenance runs of the directory have in common: they scan    *)
(* keyset pages of candidate actors within an attempt budget, and between  *)
(* the read of a page and the transaction for each of its candidates the   *)
(* database is free to change.                                             *)
(***************************************************************************)
EXTENDS RelayRepository, Keyset

CONSTANT Rank  \* position of an actor URL in the order of SQLite's BINARY collation

ASSUME RankAssumption ==
    /\ Rank \in [Actors -> Nat]
    /\ \A a, b \in Actors : Rank[a] = Rank[b] => a = b

(* An actor URL has at most maximumRelayActorBytes bytes. *)
ASSUME ActorsFinite == IsFiniteSet(Actors)

(* A run that processes a page candidate by candidate. *)
NoRun == [pc |-> "waiting", observed |-> Never, cursor |-> Start, page |-> {},
          next |-> Start, scanned |-> 0]

(* The page size left by the budget. *)
Limit(scanned, page, budget) ==
    IF budget - scanned < page THEN budget - scanned ELSE page

(* A page holds no more than was asked for, all of it beyond the cursor,    *)
(* and its next cursor is its last row.                                     *)
WellFormedPage(page, next, cursor, limit) ==
    /\ Cardinality(page) <= limit
    /\ \A row \in page : Before(cursor, row.key)
    /\ next # Start => page # {} /\ next = LastKey(page)

(* The candidates of a page are taken in its order. *)
FirstOf(page) == {row \in page : \A other \in page : ~Before(other.key, row.key)}

(* Mutant: the end of a page is taken for the end of the candidates. *)
OnwardOnePage(run, row, budget) ==
    LET rest == run.page \ {row} IN
    [run EXCEPT !.scanned = @ + 1,
                !.page    = rest,
                !.pc      = IF rest # {} THEN "attempt" ELSE "exhausted"]

(* Another attempt made: the rest of the page, the next page, the end of    *)
(* the candidates, or the end of the budget.                                *)
Onward(run, row, budget) ==
    LET rest == run.page \ {row} IN
    [run EXCEPT !.scanned = @ + 1,
                !.page    = rest,
                !.cursor  = IF rest = {} THEN run.next ELSE @,
                !.pc      = IF rest # {} THEN "attempt"
                            ELSE IF run.next = Start THEN "exhausted"
                            ELSE IF run.scanned + 1 = budget THEN "truncated"
                            ELSE "read"]
=============================================================================
