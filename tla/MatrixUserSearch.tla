-------------------------- MODULE MatrixUserSearch --------------------------
(***************************************************************************)
(* useMatrixUserSearch of src/ui/common/hooks/matrix.ts: a search box     *)
(* whose effect, on every change of query, clears the pending 500 ms      *)
(* timer and schedules a new one; the timer dispatches searchMatrixUsers, *)
(* whose answer sets the results or the error and, in its finally, clears *)
(* isSearching.  Searches already sent are never cancelled or checked     *)
(* against the query.  A query is a model value; its results are the     *)
(* query they were computed for (the filter keeps users whose display     *)
(* name equals it).  A query that is a matrix user id or a fedi user URI *)
(* (IdQueries) still runs the debounced search, but the hook returns the  *)
(* exact-match user and no spinner in place of the search state.          *)
(***************************************************************************)
EXTENDS Naturals

CONSTANTS
    Queries,        \* non-empty queries (model values)
    IdQueries,      \* those that are matrix ids or fedi matrix user URIs
    NoQuery,        \* the empty string ''
    NoResults,      \* the empty result list []
    None,           \* undefined (no timer, no error)
    MaxKeystrokes   \* bound on changes of the query

ASSUME NoQuery \notin Queries /\ IdQueries \subseteq Queries

VARIABLES
    query,          \* useState query
    timer,          \* timeoutRef.current: None or the query it will search
    inflight,       \* inflight[q]: searchMatrixUsers(q) calls not yet settled
    searchedUsers,  \* NoResults or the query whose results are stored
    isSearching,
    searchError,    \* None or the query whose search failed
    keystrokes

vars == <<query, timer, inflight, searchedUsers, isSearching, searchError,
          keystrokes>>

Init ==
    /\ query = NoQuery
    /\ timer = None
    /\ inflight = [q \in Queries |-> 0]
    /\ searchedUsers = NoResults
    /\ isSearching = FALSE
    /\ searchError = None
    /\ keystrokes = 0

(* Seeded fault: the effect without its early return for an empty query. *)
SetQueryNoEarlyReturn(q) ==
    /\ q # query
    /\ keystrokes < MaxKeystrokes
    /\ keystrokes' = keystrokes + 1
    /\ query' = q
    /\ searchError' = None
    /\ isSearching' = TRUE
    /\ timer' = q
    /\ UNCHANGED <<searchedUsers, inflight>>

(* setQuery(q) and the effect it triggers: the cleanup clears the old     *)
(* timer; the new run clears the error, then either empties the results   *)
(* (empty query) or sets isSearching and schedules the search.           *)
SetQuery(q) ==
    /\ q # query
    /\ keystrokes < MaxKeystrokes
    /\ keystrokes' = keystrokes + 1
    /\ query' = q
    /\ searchError' = None
    /\ IF q = NoQuery
       THEN /\ isSearching' = FALSE
            /\ searchedUsers' = NoResults
            /\ timer' = None
       ELSE /\ isSearching' = TRUE
            /\ timer' = q
            /\ UNCHANGED searchedUsers
    /\ UNCHANGED inflight

(* The 500 ms timeout fires: dispatch(searchMatrixUsers(query)).          *)
TimerFires ==
    /\ timer # None
    /\ inflight' = [inflight EXCEPT ![timer] = @ + 1]
    /\ timer' = None
    /\ UNCHANGED <<query, searchedUsers, isSearching, searchError, keystrokes>>

(* A search settles: then sets the results, catch the error, and finally  *)
(* clears isSearching, whatever the query is now.                        *)
SearchResolves(q) ==
    /\ inflight[q] > 0
    /\ inflight' = [inflight EXCEPT ![q] = @ - 1]
    /\ searchedUsers' = q
    /\ isSearching' = FALSE
    /\ UNCHANGED <<query, timer, searchError, keystrokes>>

(* Seeded fault: isSearching cleared in then, not in finally.           *)
SearchRejectsKeepsSpinner(q) ==
    /\ inflight[q] > 0
    /\ inflight' = [inflight EXCEPT ![q] = @ - 1]
    /\ searchError' = q
    /\ UNCHANGED <<query, timer, searchedUsers, isSearching, keystrokes>>

SearchRejects(q) ==
    /\ inflight[q] > 0
    /\ inflight' = [inflight EXCEPT ![q] = @ - 1]
    /\ searchError' = q
    /\ isSearching' = FALSE
    /\ UNCHANGED <<query, timer, searchedUsers, keystrokes>>

(* queryUserId: the query itself when it is a valid matrix user id or   *)
(* decodes as a fedi matrix user URI, else undefined.                     *)
QueryUserId == IF query \in IdQueries THEN query ELSE None

(* exactMatchUsers: the one user of that id, known to the store or made  *)
(* up from the id; undefined without a queryUserId.                      *)
ExactMatchUsers ==
    IF QueryUserId = None THEN None ELSE [exact |-> QueryUserId]

(* The hook's return: the exact match overrides the search state.        *)
ShownIsSearching == IF ExactMatchUsers # None THEN FALSE ELSE isSearching
ShownUsers == IF ExactMatchUsers # None THEN ExactMatchUsers ELSE searchedUsers

Next ==
    \/ \E q \in Queries \cup {NoQuery} : SetQuery(q)
    \/ TimerFires
    \/ \E q \in Queries : SearchResolves(q) \/ SearchRejects(q)

(* The timer fires while it is pending (the hook stays mounted), and the  *)
(* bridge settles every search it was sent.                              *)
Fairness ==
    /\ WF_vars(TimerFires)
    /\ \A q \in Queries : WF_vars(SearchResolves(q) \/ SearchRejects(q))

Spec == Init /\ [][Next]_vars /\ Fairness

-----------------------------------------------------------------------------
(* Properties.                                                             *)

TypeOK ==
    /\ query \in Queries \cup {NoQuery}
    /\ timer \in Queries \cup {None}
    /\ inflight \in [Queries -> 0..MaxKeystrokes]
    /\ searchedUsers \in Queries \cup {NoResults}
    /\ isSearching \in BOOLEAN
    /\ searchError \in Queries \cup {None}
    /\ keystrokes \in 0..MaxKeystrokes

(* The spinner never stays on for a query the user has stopped changing:  *)
(* once isSearching is set for a query, it is cleared unless the query    *)
(* changes first, whether the search succeeds or fails.                   *)
SearchSettles ==
    \A q \in Queries :
        (isSearching /\ query = q) ~> (~isSearching \/ query # q)

(* Spec 9: once the spinner the hook returns is off and no error is      *)
(* shown, the users it returns are those of the query in the box: its    *)
(* search results, or the exact match of a user id.                      *)
ShownResultsMatchQuery ==
    (query # NoQuery /\ ~ShownIsSearching /\ searchError = None)
        => ShownUsers \in {query, [exact |-> query]}

(* While a debounced search is scheduled the spinner is on.              *)
SpinnerWhileSearchScheduled ==
    timer # None => isSearching

=============================================================================
