--------------------------- MODULE DirectoryPages ---------------------------
(***************************************************************************)
(* Reading the directory while transactions change it: a page of the       *)
(* tier-ordered projection in either direction, the export that walks its  *)
(* pages, and the walks ordered by last-seen time                          *)
(* (internal/storage/sqlite: directory_projection.go, public_listing.go,   *)
(* health.go; internal/httpapi: directory_projection.go,                   *)
(* public_listing.go, directory_export.go; internal/directoryexport).      *)
(*                                                                         *)
(* A page is several statements, each with a snapshot of its own: for each *)
(* tier the lifecycle candidates, the discovery candidates and then the    *)
(* details of at most a scan's worth of them, and when the page is full    *)
(* the same again to find out whether anything follows.  Transactions may  *)
(* commit between any two statements.  One reader is enough: readers write *)
(* nothing.  A position of a scan is <<tier, rank>>; the empty actor, from *)
(* which a tier is scanned from its beginning, has rank 0.                 *)
(***************************************************************************)
EXTENDS DirectoryView, Keyset

CONSTANTS
    Rank,                \* order of the actor URLs
    PageLimit,           \* requested page size
    ScanLimit,           \* storage.MaximumDirectoryProjectionScan, 400
    MaximumExportPages,  \* directoryexport.MaximumExportPages, 256
    MaximumExportRelays  \* directoryexport.MaximumExportRelays

ASSUME PagesAssumption ==
    /\ Rank \in [Actors -> Nat \ {0}]
    /\ \A a, b \in Actors : Rank[a] = Rank[b] => a = b
    /\ IsFiniteSet(Actors)
    /\ PageLimit \in Nat \ {0}
    /\ ScanLimit \in Nat \ {0}
    /\ MaximumExportPages \in Nat \ {0}
    /\ MaximumExportRelays \in Nat \ {0}

VARIABLES
    reader,   \* the read under way
    steady    \* history: actors whose rows have not changed since it began

pageVars == <<vars, reader, steady>>

NoCursor == <<0, 0>>

Idle == [kind |-> "none", phase |-> "idle"]

-----------------------------------------------------------------------------
(* Order.  dir is 1 in a forward and -1 in a backward scan. *)

Ahead(dir, k, l) == Before(<<dir * k[1], dir * k[2]>>, <<dir * l[1], dir * l[2]>>)

Less(k, l) == Ahead(1, k, l)

FirstOf(set, n, dir) ==
    {a \in set : Cardinality({b \in set : dir * Rank[b] < dir * Rank[a]}) < n}

LastRank(set, dir) ==
    Rank[CHOOSE a \in set : \A b \in set : dir * Rank[b] <= dir * Rank[a]]

FirstKey(keys) == CHOOSE k \in keys : \A l \in keys : ~Less(l, k)
FinalKey(keys) == CHOOSE k \in keys : \A l \in keys : ~Less(k, l)

LastTier(dir) == IF dir = 1 THEN 4 ELSE 1

-----------------------------------------------------------------------------
(* The statements of a scan.  remaining + 1 candidates tell whether the     *)
(* tier has more of them than may still be examined.                        *)

Remaining == ScanLimit - reader.scanned

Beyond(a) == reader.boundary = 0 \/ reader.dir * reader.boundary < reader.dir * Rank[a]

ReadLifecycleCandidates ==
    /\ reader.phase = "lifecycle"
    /\ reader' = [reader EXCEPT
         !.phase  = "discovery",
         !.actors = FirstOf({a \in Actors : LifecycleKnown(a) /\ Beyond(a)},
                            Remaining + 1, reader.dir)]
    /\ UNCHANGED <<vars, steady>>

ReadDiscoveryCandidates ==
    /\ reader.phase = "discovery"
    /\ LET found == FirstOf({a \in Actors : DiscoveryKnown(a) /\ Beyond(a)},
                            Remaining + 1, reader.dir)
       IN  reader' = [reader EXCEPT
             !.phase  = "details",
             !.actors = FirstOf(reader.actors \cup found, Remaining + 1, reader.dir)]
    /\ UNCHANGED <<vars, steady>>

Seeds == FirstOf(reader.actors, Remaining, reader.dir)

(* One relay whose evidence does not validate fails the read. *)
Invalid == \E a \in Seeds : PublicRelay(a) /\ ~ValidEvidence(a, reader.observed)

DetailsFail ==
    /\ reader.phase = "details"
    /\ Invalid
    /\ reader' = [reader EXCEPT !.phase = "failed"]
    /\ UNCHANGED <<vars, steady>>

(* The public relays among the seeds that are of the tier being scanned. *)
Hits == {a \in Seeds : /\ PublicRelay(a)
                       /\ ClassifyDirectoryTier(a, reader.observed) = reader.tier}

Scanned == reader.scanned + Cardinality(Seeds)

(* Where the scan stands after the seeds. *)
Position == <<reader.tier, IF Seeds = {} THEN reader.boundary
                                         ELSE LastRank(Seeds, reader.dir)>>

TierHasMore == Cardinality(reader.actors) > Cardinality(Seeds)
Exhausted   == TierHasMore \/ Scanned = ScanLimit
Final       == reader.tier = LastTier(reader.dir)

NextTier(r) == [r EXCEPT !.phase = "lifecycle", !.tier = @ + r.dir,
                         !.boundary = 0, !.scanned = Scanned]

(* The end of a page: where it may be continued, and where the scan stopped *)
(* when it was its budget that ended it.                                    *)
Closed(r, keys, continuation, stop) ==
    [r EXCEPT !.phase = "page", !.listed = keys,
              !.continuation = continuation, !.stop = stop]

Key(a) == <<reader.tier, Rank[a]>>

(* The page is full: the cursor is its last relay, and whether there is     *)
(* more is found out by a scan of its own, with its own budget.             *)
PageFills ==
    /\ reader.phase = "details"
    /\ ~reader.probing
    /\ ~Invalid
    /\ LET room  == PageLimit - Cardinality(reader.listed)
           taken == FirstOf(Hits, room, reader.dir)
       IN  /\ Cardinality(taken) = room
           /\ reader' = [reader EXCEPT
                !.phase    = "lifecycle",
                !.probing  = TRUE,
                !.listed   = @ \cup {Key(a) : a \in taken},
                !.boundary = LastRank(taken, reader.dir),
                !.scanned  = 0]
    /\ UNCHANGED <<vars, steady>>

(* Mutant: a scan that used up its budget with the tier is taken as over.   *)
TierScannedStops ==
    /\ reader.phase = "details"
    /\ ~reader.probing
    /\ ~Invalid
    /\ Cardinality(Hits) < PageLimit - Cardinality(reader.listed)
    /\ LET keys == reader.listed \cup {Key(a) : a \in Hits}
       IN  reader' =
             IF TierHasMore THEN Closed(reader, keys, Position, Position)
             ELSE IF Scanned = ScanLimit THEN Closed(reader, keys, NoCursor, Position)
             ELSE IF Final THEN Closed(reader, keys, NoCursor, NoCursor)
             ELSE [NextTier(reader) EXCEPT !.listed = keys]
    /\ UNCHANGED <<vars, steady>>

TierScanned ==
    /\ reader.phase = "details"
    /\ ~reader.probing
    /\ ~Invalid
    /\ Cardinality(Hits) < PageLimit - Cardinality(reader.listed)
    /\ LET keys == reader.listed \cup {Key(a) : a \in Hits}
       IN  reader' =
             IF TierHasMore THEN Closed(reader, keys, Position, Position)
             ELSE IF Scanned = ScanLimit
             THEN Closed(reader, keys, IF Final THEN NoCursor ELSE Position, Position)
             ELSE IF Final THEN Closed(reader, keys, NoCursor, NoCursor)
             ELSE [NextTier(reader) EXCEPT !.listed = keys]
    /\ UNCHANGED <<vars, steady>>

(* hasDirectoryRelayAfter and hasDirectoryRelayBefore. *)
MoreProbed ==
    /\ reader.phase = "details"
    /\ reader.probing
    /\ ~Invalid
    /\ LET last == IF reader.dir = 1 THEN FinalKey(reader.listed)
                                     ELSE FirstKey(reader.listed)
       IN  reader' =
             IF Hits # {} \/ TierHasMore \/ (Exhausted /\ ~Final)
             THEN Closed(reader, reader.listed, last, NoCursor)
             ELSE IF Final THEN Closed(reader, reader.listed, NoCursor, NoCursor)
             ELSE NextTier(reader)
    /\ UNCHANGED <<vars, steady>>

-----------------------------------------------------------------------------
(* What becomes of a page: HTTP presentation checks it, an export goes on.  *)

PreviousLink(r) ==
    IF r.dir = -1 THEN r.continuation
    ELSE IF r.from = NoCursor THEN NoCursor
    ELSE IF r.listed = {} THEN r.from
    ELSE FirstKey(r.listed)

NextLink(r) ==
    IF r.dir = 1 THEN r.continuation
    ELSE IF r.listed = {} THEN r.stop
    ELSE FinalKey(r.listed)

(* loadDirectoryProjectionWithParser: rows and links are on the right side  *)
(* of the cursor of the request and of each other.                          *)
Presentable(r) ==
    LET previous == PreviousLink(r)
        next     == NextLink(r)
        after    == r.dir = 1 /\ r.from # NoCursor
    IN  /\ after => \A k \in r.listed : Less(r.from, k)
        /\ r.dir = -1 => \A k \in r.listed : Less(k, r.from)
        /\ previous # NoCursor =>
             /\ r.from # NoCursor
             /\ after => ~Less(previous, r.from)
             /\ r.dir = -1 => Less(previous, r.from)
             /\ r.listed # {} => ~Less(FirstKey(r.listed), previous)
        /\ next # NoCursor =>
             /\ after => Less(r.from, next)
             /\ r.dir = -1 => Less(next, r.from)
             /\ r.listed # {} => ~Less(next, FinalKey(r.listed))
             /\ previous # NoCursor => ~Less(next, previous)

Present ==
    /\ reader.phase = "page"
    /\ reader.kind = "page"
    /\ reader' = [reader EXCEPT !.phase = IF Presentable(reader) THEN "done" ELSE "refused"]
    /\ UNCHANGED <<vars, steady>>

ActorsOf(keys) == {a \in Actors : \E k \in keys : k[2] = Rank[a]}

(* A relay that moved to a later tier while the export was reading comes    *)
(* twice, and the export fails.                                             *)
Duplicates(r) ==
    \/ ActorsOf(r.listed) \cap r.seen # {}
    \/ Cardinality(ActorsOf(r.listed)) < Cardinality(r.listed)

PageFrom(r, cursor) ==
    [r EXCEPT !.phase = "lifecycle", !.probing = FALSE, !.from = cursor,
              !.tier = IF cursor = NoCursor THEN 1 ELSE cursor[1],
              !.boundary = cursor[2], !.scanned = 0, !.actors = {}, !.listed = {},
              !.continuation = NoCursor, !.stop = NoCursor]

Scopes == {"active", "unavailable", "all"}

ScopeIncludes(scope, tier) ==
    CASE scope = "active"      -> tier <= 2
      [] scope = "unavailable" -> tier >= 3
      [] scope = "all"         -> TRUE

(* directoryexport.Render, after a page: the relays of the scope are kept.  *)
ExportPage ==
    /\ reader.phase = "page"
    /\ reader.kind = "export"
    /\ LET included == {k \in reader.listed : ScopeIncludes(reader.scope, k[1])}
           r == [reader EXCEPT !.seen = @ \cup ActorsOf(reader.listed),
                               !.kept = @ \cup ActorsOf(included), !.pages = @ + 1]
       IN  reader' =
             IF Duplicates(reader) THEN [reader EXCEPT !.phase = "failed"]
             ELSE IF Cardinality(r.kept) > MaximumExportRelays THEN [r EXCEPT !.phase = "limit"]
             ELSE IF reader.continuation = NoCursor THEN [r EXCEPT !.phase = "done"]
             ELSE IF ~Less(reader.from, reader.continuation)
             THEN [reader EXCEPT !.phase = "refused"]
             ELSE IF r.pages = MaximumExportPages THEN [r EXCEPT !.phase = "limit"]
             ELSE PageFrom(r, reader.continuation)
    /\ UNCHANGED <<vars, steady>>

-----------------------------------------------------------------------------
(* Walks ordered by (last_seen_at_unix, relay_actor), one statement a page: *)
(* the /v1/relays listing, whose cursor carries the observation time of its *)
(* first page, and the health projection, which has no cutoff.              *)

WalkRow(kind, a, t) ==
    IF kind = "listing" THEN PublicListed(a, t) ELSE ActivelyRegistered(a)

WalkRows ==
    AfterCursor({[actor |-> a, key |-> <<relays[a].seen, Rank[a]>>] :
                   a \in {b \in Actors : WalkRow(reader.kind, b, reader.observed)}},
                reader.from)

(* The rows are classified as they are read, the one that only tells that   *)
(* there is more included.                                                  *)
WalkFails ==
    \E c \in PageOf(WalkRows, PageLimit + 1) :
        ClassifyHealth(c.key[1], reader.observed) \in
            {"invalid"} \cup (IF reader.kind = "listing" THEN {"prune"} ELSE {})

WalkPage ==
    /\ reader.phase = "query"
    /\ LET page == PageOf(WalkRows, PageLimit)
           more == Cardinality(WalkRows) > PageLimit
           last == IF page = {} THEN NoCursor ELSE LastKey(page)
       IN  reader' =
             IF WalkFails THEN [reader EXCEPT !.phase = "failed"]
             ELSE [reader EXCEPT !.phase  = IF more THEN "between" ELSE "done",
                                 !.seen   = @ \cup {c.actor : c \in page},
                                 !.from   = last]
    /\ UNCHANGED <<vars, steady>>

(* The client comes back with the cursor, or too late: a cursor is good for *)
(* five minutes and for one process.                                        *)
NextWalkPage ==
    /\ reader.phase = "between"
    /\ \E phase \in {"query", "expired"} : reader' = [reader EXCEPT !.phase = phase]
    /\ UNCHANGED <<vars, steady>>

-----------------------------------------------------------------------------
Reading(kind, dir, t) ==
    [kind |-> kind, phase |-> "idle", dir |-> dir, observed |-> t, probing |-> FALSE,
     from |-> NoCursor, tier |-> 1, boundary |-> 0, scanned |-> 0, actors |-> {},
     listed |-> {}, continuation |-> NoCursor, stop |-> NoCursor,
     seen |-> {}, pages |-> 0, scope |-> "all", kept |-> {}]

Cursors == {<<tier, Rank[a]>> : tier \in Tiers, a \in Actors}

(* A request arrives.  The clock is not behind what it already recorded. *)
Arrives(t) ==
    /\ reader = Idle
    /\ \A a \in Actors : RecordedBy(a, t)
    /\ steady' = Actors
    /\ UNCHANGED vars

RequestPage(t) ==
    /\ Arrives(t)
    /\ \/ \E cursor \in Cursors \cup {NoCursor} :
             reader' = PageFrom(Reading("page", 1, t), cursor)
       \/ \E cursor \in Cursors :
             reader' = PageFrom(Reading("page", -1, t), cursor)

RequestExport(t) ==
    /\ Arrives(t)
    /\ \E scope \in Scopes :
          reader' = PageFrom([Reading("export", 1, t) EXCEPT !.scope = scope], NoCursor)

RequestWalk(t) ==
    /\ Arrives(t)
    /\ \E kind \in {"listing", "health"} :
          reader' = [Reading(kind, 1, t) EXCEPT !.phase = "query"]

(* The deadline of the read passes. *)
TimesOut ==
    /\ reader.phase \in {"lifecycle", "discovery", "details", "query"}
    /\ reader' = [reader EXCEPT !.phase = "timeout"]
    /\ UNCHANGED <<vars, steady>>

ReadEnded == {"done", "failed", "refused", "limit", "timeout", "expired"}

Answered ==
    /\ reader.phase \in ReadEnded
    /\ reader' = Idle
    /\ steady' = Actors
    /\ UNCHANGED vars

ReaderStep ==
    \/ \E t \in Instants : RequestPage(t) \/ RequestExport(t) \/ RequestWalk(t)
    \/ ReadLifecycleCandidates
    \/ ReadDiscoveryCandidates
    \/ DetailsFail
    \/ PageFills
    \/ TierScanned
    \/ MoreProbed
    \/ Present
    \/ ExportPage
    \/ WalkPage
    \/ NextWalkPage
    \/ TimesOut
    \/ Answered

Unchanged(a) ==
    /\ relays'[a] = relays[a]
    /\ discoveries'[a] = discoveries[a]
    /\ observations'[a] = observations[a]
    /\ diagnostics'[a] = diagnostics[a]

(* A transaction beside the reader. *)
Disturbed ==
    /\ steady' = {a \in steady : Unchanged(a)}
    /\ UNCHANGED reader

PagesInit == Init /\ reader = Idle /\ steady = Actors

PagesNext == ReaderStep \/ (Next /\ Disturbed)

PagesSpec == PagesInit /\ [][PagesNext]_pageVars

-----------------------------------------------------------------------------
KeyAt(a) == <<ClassifyDirectoryTier(a, reader.observed), Rank[a]>>

(* The stretch of the order a page answers for: from its cursor to where it *)
(* may be continued, or to the end.                                         *)
Covered(r, k) ==
    /\ Ahead(r.dir, r.from, k)
    /\ r.continuation = NoCursor \/ ~Ahead(r.dir, r.continuation, k)

(* Although a page is read by many statements, each from its own snapshot,  *)
(* and pages are cut by a scan budget that counts relays of other tiers, no *)
(* relay that did not change meanwhile is missed or shown out of place: a   *)
(* page lists exactly the public ones of its stretch, a finished walk all   *)
(* of them, a finished export those of its scope.  A read fails only when   *)
(* something changed under it, and HTTP presentation never refuses the page *)
(* or the links it was given.                                               *)
PageIsExact ==
    /\ reader.phase # "refused"
    /\ reader.phase = "failed" => steady # Actors
    /\ reader.phase = "done" => \A a \in steady :
         CASE reader.kind = "page" ->
                {k \in reader.listed : k[2] = Rank[a]} =
                  {k \in {KeyAt(a)} : PublicRelay(a) /\ Covered(reader, k)}
           [] reader.kind = "export" ->
                (a \in reader.kept) = (PublicRelay(a) /\ ScopeIncludes(reader.scope, KeyAt(a)[1]))
           [] OTHER -> (a \in reader.seen) = WalkRow(reader.kind, a, reader.observed)
=============================================================================
