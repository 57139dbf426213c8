-------------------------------- MODULE Search --------------------------------
(***************************************************************************)
(* A client that reads the pages of GET /search/users one after the other, *)
(* while accounts appear, disappear, are blocked and unblocked.  A page is *)
(* filled batch by batch: a batch comes from the database, and posts-api   *)
(* then says which of its accounts the viewer may not see.                 *)
(*                                                                         *)
(* An account is its position in the order of the query, (created_at, id): *)
(* a larger number is a newer account, listed first.  Lists are in that    *)
(* order, so they are kept as sets.  A cursor is the position it encodes.  *)
(***************************************************************************)
EXTENDS Naturals, FiniteSets, FiniteSetsExt

CONSTANTS Account,        \* accounts that may match the query
          Top,            \* the position before the first: no cursor
          PageSize,       \* accounts in a page
          SearchBatchSize \* SEARCH_BATCH_SIZE

ASSUME SearchAssumption ==
  /\ Account \subseteq Nat
  /\ Top \in Nat /\ \A a \in Account : a < Top
  /\ PageSize \in Nat \ {0}
  /\ SearchBatchSize \in Nat \ {0}

VARIABLES
  matching,   \* accounts the query finds: app accounts, not deleted, that match
  excluded,   \* accounts with a block between them and the viewer
  step,       \* what the request does next
  cursor,     \* the position the request was sent with
  at,         \* the position the loop has reached
  candidates, \* those of the last query
  visible,    \* those of the request that passed the filter
  shown,      \* accounts of the pages answered so far
  steady      \* accounts that could have been shown ever since the first request

searchVars == <<matching, excluded, step, cursor, at, candidates, visible, shown, steady>>
loop == <<step, cursor, at, candidates, visible, shown>>

SearchInit ==
  /\ matching \in SUBSET Account
  /\ excluded \in SUBSET Account
  /\ steady = matching \ excluded
  /\ step = "ask"
  /\ cursor = Top /\ at = Top
  /\ candidates = {} /\ visible = {} /\ shown = {}

-----------------------------------------------------------------------------
(* What happens to the accounts meanwhile.                                 *)

\* A registration commits, or a name is edited to match.
Appear(a) ==
  /\ a \notin matching
  /\ matching' = matching \cup {a}
  /\ UNCHANGED <<excluded, loop, steady>>

\* The account is deleted, or its name no longer matches.
Disappear(a) ==
  /\ a \in matching
  /\ matching' = matching \ {a}
  /\ steady' = steady \ {a}
  /\ UNCHANGED <<excluded, loop>>

Block(a) ==
  /\ a \notin excluded
  /\ excluded' = excluded \cup {a}
  /\ steady' = steady \ {a}
  /\ UNCHANGED <<matching, loop>>

Unblock(a) ==
  /\ a \in excluded
  /\ excluded' = excluded \ {a}
  /\ UNCHANGED <<matching, loop, steady>>

-----------------------------------------------------------------------------
(* UserSearchService.search.                                               *)

\* The first n of S: ORDER BY created_at DESC, id DESC LIMIT n.
Newest(S, n) == {a \in S : Cardinality({b \in S : b > a}) < n}

\* The rows past a cursor.
After(c) == {a \in matching : a < c}

Ask ==
  /\ step = "ask"
  /\ step' = "fetch"
  /\ at' = cursor
  /\ visible' = {}
  /\ UNCHANGED <<matching, excluded, cursor, candidates, shown, steady>>

\* search_public_accounts.  No candidates ends the loop.
Fetch ==
  /\ step = "fetch"
  /\ candidates' = Newest(After(at), SearchBatchSize)
  /\ step' = IF candidates' = {} THEN "answer" ELSE "filter"
  /\ UNCHANGED <<matching, excluded, cursor, at, visible, shown, steady>>

\* Mutant of Filter: the loop does not move past what it has filtered out.
FilterInPlace ==
  /\ step = "filter"
  /\ visible' = visible \cup (candidates \ excluded)
  /\ at' = Min({at} \cup (candidates \ excluded))
  /\ step' = IF Cardinality(candidates) < SearchBatchSize \/ Cardinality(visible') > PageSize
             THEN "answer" ELSE "fetch"
  /\ UNCHANGED <<matching, excluded, cursor, candidates, shown, steady>>

\* excluded_ids, and the end of an iteration: a short batch or one account more
\* than a page ends the loop.
Filter ==
  /\ step = "filter"
  /\ visible' = visible \cup (candidates \ excluded)
  /\ at' = Min(candidates)
  /\ step' = IF Cardinality(candidates) < SearchBatchSize \/ Cardinality(visible') > PageSize
             THEN "answer" ELSE "fetch"
  /\ UNCHANGED <<matching, excluded, cursor, candidates, shown, steady>>

\* posts-api does not answer, twice: 503, and the client asks again.
Unavailable ==
  /\ step = "filter"
  /\ step' = "ask"
  /\ UNCHANGED <<matching, excluded, cursor, at, candidates, visible, shown, steady>>

\* Mutant of NextCursor: taken from the account past the page, which the next
\* page then starts after.
NextCursorPast == Min(Newest(visible, PageSize + 1))

\* visible[19].cursor
NextCursor == Min(Newest(visible, PageSize))

\* The page, and a cursor when there is an account past it.
Answer ==
  /\ step = "answer"
  /\ shown' = shown \cup Newest(visible, PageSize)
  /\ IF Cardinality(visible) > PageSize
     THEN step' = "ask" /\ cursor' = NextCursor
     ELSE step' = "over" /\ UNCHANGED cursor
  /\ UNCHANGED <<matching, excluded, at, candidates, visible, steady>>

Request == Ask \/ Fetch \/ Filter \/ Answer

SearchNext ==
  \/ \E a \in Account : Appear(a) \/ Disappear(a) \/ Block(a) \/ Unblock(a)
  \/ Request \/ Unavailable

SearchSpec == SearchInit /\ [][SearchNext]_searchVars

\* A request that can go on does.
FairSearch == SearchSpec /\ WF_searchVars(Request)

-----------------------------------------------------------------------------
(* Properties.                                                             *)

(***************************************************************************)
(* No account is listed twice, neither by two batches of a request nor by  *)
(* two pages, whatever is registered, edited or blocked in between         *)
(* (search_public_accounts: a keyset and not an offset); and whoever reads *)
(* to the last page has seen every account that matched and was not        *)
(* blocked all along: neither a batch that is filtered out nor the account *)
(* kept back to know that a page follows is lost.                          *)
(***************************************************************************)
EachOnce ==
  /\ step = "filter" => candidates \cap visible = {}
  /\ step = "answer" => Newest(visible, PageSize) \cap shown = {}
  /\ step = "over" => steady \subseteq shown

(***************************************************************************)
(* Every request is answered, with a page or a 503, although accounts come *)
(* and go: a batch of which nothing is visible moves the loop on.          *)
(***************************************************************************)
RequestEnds == step = "fetch" ~> step \in {"ask", "over"}
===============================================================================
