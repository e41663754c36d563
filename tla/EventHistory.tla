---------------------------- MODULE EventHistory ----------------------------
(***************************************************************************)
(* The EventsIterator of escrow/monitor.ts: an application walks through   *)
(* the contract's events page by page, with a fetchFn that parses them.    *)
(* Events are numbered in the order of the ledger as in EscrowMonitor:     *)
(* those parseEvents returns have a number, and place says where they lie  *)
(* among all. An async generator runs only while its caller waits for it.  *)
(***************************************************************************)
EXTENDS Naturals

CONSTANTS HistoryLength, \* bound: the events that are ever issued
          HistoryPage,   \* the events the node puts into a page
          Places         \* how the parsed events may lie among all

ASSUME HistoryAssumption ==
  /\ HistoryLength \in Nat /\ HistoryPage \in Nat
  /\ \A p \in Places : /\ p \in [0 .. HistoryLength -> Nat]
                       /\ \A c, e \in 0 .. HistoryLength : c < e => p[c] < p[e]

VARIABLES
  place,       \* place[e]: how many events the contract issues up to e
  issued,      \* the events issued so far
  fromCursor,  \* options.fromCursor, 0 for none
  walk,        \* paused, fetching, ended, failed, aborted, left
  pageCursor,  \* cursor
  page,        \* what is left of the page
  walkAborted, \* options.signal has fired
  yielded,     \* history: the events the caller was given
  twice,       \* history: one of them again, or after a later one
  toldEmpty    \* history: the events issued when the node had no more, 0 before

historyVars ==
  <<place, issued, fromCursor, walk, pageCursor, page, walkAborted, yielded, twice, toldEmpty>>

Position == 0 .. HistoryLength
Issued == 1 .. HistoryLength

HistoryTypeOK ==
  /\ place \in Places /\ issued \in Position /\ fromCursor \in Position /\ pageCursor \in Position
  /\ walk \in {"paused", "fetching", "ended", "failed", "aborted", "left"}
  /\ page \subseteq Issued /\ yielded \subseteq Issued /\ toldEmpty \in Position
  /\ walkAborted \in BOOLEAN /\ twice \in BOOLEAN

HistoryInit ==
  /\ place \in Places /\ issued \in Position /\ fromCursor \in 0 .. issued
  /\ walk = "paused" /\ pageCursor = fromCursor /\ page = {} /\ walkAborted = FALSE
  /\ yielded = {} /\ twice = FALSE /\ toldEmpty = 0

-----------------------------------------------------------------------------
\* The page after cursor c, as parseEvents leaves it.
PageAfter(c) == {e \in Issued : c < e /\ e <= issued /\ place[e] <= place[c] + HistoryPage}

\* The first of the events goes to the caller, unless the signal has fired.
Yield(events) ==
  \/ walkAborted /\ walk' = "aborted" /\ page' = events /\ UNCHANGED <<yielded, twice>>
  \/ \E e \in events :
       /\ ~walkAborted /\ \A f \in events : e <= f
       /\ walk' = "paused" /\ page' = events \ {e} /\ yielded' = yielded \cup {e}
       /\ twice' = (twice \/ \E f \in yielded : e <= f)

\* The caller asks for the next event: the page goes on or, after it, another is fetched.
NextEvent ==
  /\ walk = "paused"
  /\ IF page # {} THEN Yield(page)
     ELSE walk' = (IF walkAborted THEN "aborted" ELSE "fetching") /\ UNCHANGED <<page, yielded, twice>>
  /\ UNCHANGED <<place, issued, fromCursor, pageCursor, walkAborted, toldEmpty>>

\* A page arrives. Until all of it was given nobody looks at the cursor, so it moves at once.
PageArrives ==
  /\ walk = "fetching" /\ Yield(PageAfter(pageCursor))
  /\ \E last \in PageAfter(pageCursor) :
       (\A e \in PageAfter(pageCursor) : e <= last) /\ pageCursor' = last
  /\ UNCHANGED <<place, issued, fromCursor, walkAborted, toldEmpty>>

\* An empty page ends the walk.
PageIsEmpty ==
  /\ walk = "fetching" /\ PageAfter(pageCursor) = {} /\ walk' = "ended" /\ toldEmpty' = issued
  /\ UNCHANGED <<place, issued, fromCursor, pageCursor, page, walkAborted, yielded, twice>>

\* fetchFn fails, or the caller breaks out of its loop.
WalkBreaksOff ==
  /\ walk \in {"fetching", "paused"} /\ walk' = (IF walk = "fetching" THEN "failed" ELSE "left")
  /\ UNCHANGED <<place, issued, fromCursor, pageCursor, page, walkAborted, yielded, twice, toldEmpty>>

AbortWalk ==
  /\ ~walkAborted /\ walkAborted' = TRUE
  /\ UNCHANGED <<place, issued, fromCursor, walk, pageCursor, page, yielded, twice, toldEmpty>>

Issue ==
  /\ issued < HistoryLength /\ issued' = issued + 1
  /\ UNCHANGED <<place, fromCursor, walk, pageCursor, page, walkAborted, yielded, twice, toldEmpty>>

HistoryNext == \/ NextEvent \/ PageArrives \/ PageIsEmpty \/ WalkBreaksOff \/ AbortWalk \/ Issue

HistorySpec == HistoryInit /\ [][HistoryNext]_historyVars

-----------------------------------------------------------------------------
\* No page on the way from the first cursor to event e is without a parsed event.
InReach(e) ==
  \A f \in Issued : fromCursor < f /\ f <= e => place[f] <= place[f - 1] + HistoryPage

\* The caller gets the events after its cursor in order and once, and none is left out; a
\* walk that ends by itself has given every event there was, unless parseEvents left nothing
\* of a page on the way.
HistoryIsWhole ==
  /\ ~twice
  /\ \A e \in yielded : fromCursor < e /\ \A f \in Issued : fromCursor < f /\ f < e => f \in yielded
  /\ walk = "ended" =>
       \A e \in Issued : fromCursor < e /\ e <= toldEmpty /\ InReach(e) => e \in yielded

=============================================================================
