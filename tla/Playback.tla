------------------------------- MODULE Playback -------------------------------
(***************************************************************************)
(* Choosing the next clip (services.py and selection.py): a select_next_   *)
(* clip call for a collection reads the Worker's catalog page by page,     *)
(* keeps what is playable, puts it in the order the playback mode asks     *)
(* for, and makes one claim in the playback history.  Meanwhile the        *)
(* catalog changes and other calls go ahead.                               *)
(***************************************************************************)
EXTENDS PlaybackHistory, FiniteSets

CONSTANTS
  Home,         \* the collection of each clip
  PageSize,     \* clips per page of GET /api/v1/clips
  CustomOrder,  \* ordered_clip_ids of custom playback
  MaxEdits      \* bound: changes of the catalog

ASSUME PlaybackAssumption ==
  /\ ClipIds \subseteq Nat /\ IsFiniteSet(ClipIds)
  /\ Home \in [ClipIds -> Collections]
  /\ PageSize \in Nat \ {0}
  /\ CustomOrder \in Seq(Nat)
  /\ \A i, j \in DOMAIN CustomOrder : CustomOrder[i] = CustomOrder[j] => i = j
  /\ MaxEdits \in Nat

VARIABLES
  row,      \* the Worker's row of each clip; absent: not catalogued yet
  listing,  \* the listing each call is reading
  edits     \* changes of the catalog so far

playVars == <<row, listing, edits>>
allVars == <<vars, playVars>>

-----------------------------------------------------------------------------
(* GET /api/v1/clips: every row that is not deleted, by ID.  A row has a   *)
(* compiled output when it is ready or stale.                              *)

RowStates == {"absent", "discovered", "ready", "stale", "deleted"}
Listed == {c \in ClipIds : row[c] \notin {"absent", "deleted"}}

\* Mutant: rows are listed by state.
RankByState(c) ==
  Cardinality({d \in Listed : (row[d] = "ready" /\ row[c] # "ready")
                              \/ ((row[d] = "ready" <=> row[c] = "ready") /\ d < c)}) + 1

Rank(c) == Cardinality({d \in Listed : d < c}) + 1

\* Items of page n, as they are now.
PageOf(n) ==
  LET clipAt(r) == CHOOSE c \in Listed : Rank(c) = r
      first     == (n - 1) * PageSize
      size      == Cardinality({c \in Listed : first < Rank(c) /\ Rank(c) <= first + PageSize})
  IN  [i \in 1 .. size |-> [clip |-> clipAt(first + i), state |-> row[clipAt(first + i)]]]

\* The Worker changes the state of one row: a scan (catalog.py), but also a request or
\* a job (queue.py:124, 177, 227, 251, jobs.py:677, 725, 1077, library_manager.py:593,
\* 679, 802, 894, 990, api.py:1084).  Which of them, and when, is left open.
ChangeRow ==
  /\ edits < MaxEdits
  /\ \E c \in ClipIds, state \in RowStates \ {"absent"} :
       /\ state # row[c]
       /\ row[c] = "absent" => state = "discovered"
       /\ row' = [row EXCEPT ![c] = state]
       /\ listing' = [k \in Calls |->
            [listing[k] EXCEPT !.steady = IF state = "ready" THEN @ ELSE @ \ {c},
                               !.left = @ \/ state = "deleted"]]
  /\ edits' = edits + 1
  /\ UNCHANGED vars

-----------------------------------------------------------------------------
(* The call.  steady and left are kept for the properties: the clips that  *)
(* have been ready ever since the listing began, and whether a row has     *)
(* left the catalog since.                                                 *)

Modes == {"random", "sequential", "custom"}
NoListing == [page |-> 0, home |-> CHOOSE c \in Collections : TRUE, op |-> "dry",
              mode |-> "random", got |-> <<>>, steady |-> {}, left |-> FALSE]

\* async_select_next_clip has its collection: requested, or resolved from the
\* policies at hand.
Open(k) ==
  /\ call[k].pc = "idle" /\ listing[k].page = 0
  /\ \E c \in Collections, mode \in Modes, op \in {"select", "dry"} :
       listing' = [listing EXCEPT ![k] =
         [NoListing EXCEPT !.page = 1, !.home = c, !.op = op, !.mode = mode,
                           !.steady = {d \in ClipIds : row[d] = "ready" /\ Home[d] = c}]]
  /\ UNCHANGED <<vars, row, edits>>

\* Playable clips of the collection: the ready ones, or else whatever has a file.
Candidates(got, home) ==
  LET playable == {g \in got : Home[g.clip] = home /\ g.state \in {"ready", "stale"}}
      ready    == {g \in playable : g.state = "ready"}
  IN  {g.clip : g \in (IF ready = {} THEN playable ELSE ready)}

\* What a mode sorts by.  Clips are in the order of their IDs, which is that of
\* their output paths; in custom playback the configured ones come first.
Place(c, mode) ==
  IF mode = "custom" /\ c \in Members(CustomOrder)
  THEN CHOOSE i \in DOMAIN CustomOrder : CustomOrder[i] = c
  ELSE Len(CustomOrder) + 1 + c

InOrder(clips, mode) ==
  [i \in 1 .. Cardinality(clips) |->
     CHOOSE c \in clips :
       Cardinality({d \in clips : Place(d, mode) < Place(c, mode)}) = i - 1]

\* What listings make of a catalog is among the lists the history is asked with.
ASSUME OffersAssumption ==
  \A clips \in SUBSET ClipIds, mode \in Modes : InOrder(clips, mode) \in Offers

\* One page of async_list_clips.  The listing is complete when it is as long as
\* the total the page names; it is cut to that length.
Fetch(k) ==
  /\ listing[k].page > 0
  /\ LET l     == listing[k]
         items == PageOf(l.page)
         got   == l.got \o items
         total == Cardinality(Listed)
         known == Members(SubSeq(got, 1, total))
     IN  IF Len(got) >= total
         THEN /\ AskSelect(k, l.home, InOrder(Candidates(known, l.home), l.mode),
                           l.mode # "random", l.op)
              /\ listing' = [listing EXCEPT ![k] = NoListing]
         ELSE /\ listing' = [listing EXCEPT ![k] =
                   IF items = <<>> THEN NoListing
                   ELSE [l EXCEPT !.page = @ + 1, !.got = got]]
              /\ UNCHANGED vars
  /\ UNCHANGED <<row, edits>>

\* The Worker cannot be reached: the call raises.
FetchFails(k) ==
  /\ listing[k].page > 0
  /\ listing' = [listing EXCEPT ![k] = NoListing]
  /\ UNCHANGED <<vars, row, edits>>

PlayInit ==
  /\ Init
  /\ row \in [ClipIds -> {"absent", "ready", "stale"}]
  /\ listing = [k \in Calls |-> NoListing]
  /\ edits = 0

\* Resets and listener callbacks need no listing.
OtherCall(k) ==
  /\ listing[k].page = 0
  /\ \/ \E ids \in SUBSET Collections : AskReset(k, ids)
     \/ AskDaily(k)
  /\ UNCHANGED playVars

PlayNext ==
  \/ \E k \in Calls :
       \/ Open(k) \/ Fetch(k) \/ FetchFails(k) \/ OtherCall(k)
       \/ Step(k) /\ UNCHANGED playVars
  \/ Restart /\ listing' = [k \in Calls |-> NoListing] /\ UNCHANGED <<row, edits>>
  \/ NextDay /\ UNCHANGED playVars
  \/ ChangeRow

PlaySpec == PlayInit /\ [][PlayNext]_allVars

-----------------------------------------------------------------------------
\* A clip that is ready for as long as a call reads the catalog is offered to
\* the history, whatever is added to the catalog or recompiled between two
\* pages; only a row that leaves the catalog meanwhile may hide another.
ReadyClipIsOffered ==
  [][\A k \in Calls :
       listing[k].page > 0 /\ call'[k].pc = "wait" /\ call[k].pc = "idle"
         /\ ~listing[k].left
       => listing[k].steady \subseteq Members(call'[k].offered)]_allVars

-----------------------------------------------------------------------------
(* What a call that reads the catalog knows; inductive.                    *)

Items == [clip: ClipIds, state: RowStates]
Listings ==
  [page: Nat, home: Collections \cup {NoListing.home}, op: {"select", "dry"}, mode: Modes,
   got: Seq(Items), steady: SUBSET ClipIds, left: BOOLEAN]

Shown(l, c) == \E i \in DOMAIN l.got : l.got[i] = [clip |-> c, state |-> "ready"]

\* While no row leaves the catalog, the pages read are full ones, and the clips
\* that are still to come have their place behind them.
OnTheWay(l, listed) ==
  /\ Len(l.got) = (l.page - 1) * PageSize /\ Len(l.got) <= Cardinality(listed)
  /\ \A c \in l.steady : Shown(l, c) \/ Len(l.got) <= Cardinality({d \in listed : d < c})

Reading(l, rows, listed) ==
  /\ l.home \in Collections
  /\ \A c \in l.steady : rows[c] = "ready" /\ Home[c] = l.home
  /\ ~l.left => OnTheWay(l, listed)

ListingInv ==
  /\ row \in [ClipIds -> RowStates]
  /\ listing \in [Calls -> Listings]
  /\ \A k \in Calls : listing[k].page > 0 => Reading(listing[k], row, Listed)
=============================================================================
