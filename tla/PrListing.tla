----------------------------- MODULE PrListing -----------------------------
(***************************************************************************)
(* Listing merged pull requests (core/git/github.rs) and working the list  *)
(* off (personal/pr_monitor.rs, personal/git_to_svn.rs).  GitHub serves    *)
(* the closed pull requests of a base branch page by page and computes     *)
(* every page when it is asked for, so what people do on GitHub between    *)
(* two requests moves items from one page to another.                      *)
(*                                                                         *)
(* A pull request is its number; a page has PageSize of them (100 in the   *)
(* code) and MaxPages are asked for (10).  An item of the listing is a     *)
(* pull request on a page: one that was on two pages is listed twice.      *)
(***************************************************************************)
EXTENDS Naturals, FiniteSets

CONSTANTS
    LastPr,         \* pull requests are numbered 1..LastPr
    PageSize,
    MaxPages,
    MaxRetries,     \* retry_request asks again at most this many times
    MaxMoves,       \* bound: changes people make on GitHub
    MaxBad,         \* bound: requests that are not answered with success
    MaxListings     \* bound: listings made

ASSUME PrListingAssumption ==
    /\ LastPr \in Nat /\ PageSize \in Nat \ {0} /\ MaxPages \in Nat \ {0}
    /\ MaxRetries \in Nat
    /\ MaxMoves \in Nat /\ MaxBad \in Nat /\ MaxListings \in Nat

PullRequests == 1..LastPr

VARIABLES
    \* GitHub: the closed ones, when each was last updated, and which merge
    \* it was (0: not merged)
    closed, updated, mergedAt,
    \* pr_sync_log: the merges replayed, and how many merges there were when
    \* the last replay was completed
    replayed, since,
    \* the listing: its step, page and attempt, the items got so far
    at, page, attempt, got,
    \* history: what the listing should find, what moved since it began
    wanted, moved, reopened, truncated,
    \* bounds
    moves, bad, listings

onGitHub == <<closed, updated, mergedAt>>
prLog    == <<replayed, since>>
listing  == <<at, page, attempt, got>>
observed == <<wanted, moved, reopened, truncated>>
prVars   == <<closed, updated, mergedAt, replayed, since, at, page, attempt, got,
              wanted, moved, reopened, truncated, moves, bad, listings>>

Merged == {p \in PullRequests : mergedAt[p] > 0}

\* The pull requests merged after the first n merges.
MergedAfter(n) == {p \in PullRequests : mergedAt[p] > n}

PrInit ==
    /\ closed \in SUBSET PullRequests
    /\ \E m \in SUBSET closed :
        mergedAt = [p \in PullRequests |->
                        IF p \in m THEN Cardinality({q \in m : q <= p}) ELSE 0]
    /\ updated = [p \in PullRequests |-> p]
    /\ replayed = {} /\ since = 0
    /\ at = "idle" /\ page = 1 /\ attempt = 0 /\ got = {}
    /\ wanted = {} /\ moved = {} /\ reopened = FALSE /\ truncated = FALSE
    /\ moves = 0 /\ bad = 0 /\ listings = 0

-----------------------------------------------------------------------------
(* People on GitHub.                                                       *)

Touch(p) ==
    /\ moves < MaxMoves /\ moves' = moves + 1
    /\ updated' = [updated EXCEPT ![p] = LastPr + moves + 1]
    /\ moved' = moved \cup {p}
    /\ UNCHANGED <<prLog, listing, wanted, truncated, bad, listings>>

Close(p) ==
    /\ p \notin closed /\ Touch(p)
    /\ closed' = closed \cup {p}
    /\ \/ UNCHANGED mergedAt
       \/ mergedAt' = [mergedAt EXCEPT ![p] = Cardinality(Merged) + 1]
    /\ UNCHANGED reopened

Comment(p) ==
    p \in closed /\ Touch(p) /\ UNCHANGED <<closed, mergedAt, reopened>>

\* Only a pull request that was closed without merging can be reopened.
Reopen(p) ==
    /\ p \in closed \ Merged /\ Touch(p)
    /\ closed' = closed \ {p} /\ reopened' = TRUE
    /\ UNCHANGED mergedAt

-----------------------------------------------------------------------------
(* One listing.                                                            *)

ByUpdate == since > 0

\* GitHub lists q before p.
Newer(q, p) == IF ByUpdate THEN updated[q] > updated[p] ELSE q > p

\* The number of closed ones that GitHub would list before p at this moment.
Rank(p) == Cardinality({q \in closed : Newer(q, p)})

Page(n) ==
    {p \in closed : (n - 1) * PageSize <= Rank(p) /\ Rank(p) < n * PageSize}

\* The Link header of the answer has a rel="next".
LinksNext(n) == Cardinality(closed) > n * PageSize

\* Variant for mutation testing: the page limit is one page short.
GoesOnShort(n) == LinksNext(n) /\ n + 1 < MaxPages

GoesOn(n) == LinksNext(n) /\ n < MaxPages

StartListing ==
    /\ at = "idle" /\ listings < MaxListings
    /\ listings' = listings + 1
    /\ at' = "ask" /\ page' = 1 /\ attempt' = 0 /\ got' = {}
    /\ wanted' = MergedAfter(since)
    /\ moved' = {} /\ reopened' = FALSE /\ truncated' = FALSE
    /\ UNCHANGED <<onGitHub, prLog, moves, bad>>

MayRetry == attempt < MaxRetries

\* 429 or a server error: wait and ask again, three times at most.
Busy ==
    /\ at = "ask" /\ bad < MaxBad /\ bad' = bad + 1
    /\ IF MayRetry THEN attempt' = attempt + 1 /\ UNCHANGED <<at, page, got>>
       ELSE at' = "idle" /\ page' = 1 /\ attempt' = 0 /\ got' = {}
    /\ UNCHANGED <<onGitHub, prLog, observed, moves, listings>>

\* Any other status, or no answer: the listing fails at once.
TurnedDown ==
    /\ at = "ask" /\ bad < MaxBad /\ bad' = bad + 1
    /\ at' = "idle" /\ page' = 1 /\ attempt' = 0 /\ got' = {}
    /\ UNCHANGED <<onGitHub, prLog, observed, moves, listings>>

Items(n) == {[page |-> n, pr |-> p] : p \in Page(n)}

\* The merged ones since the last replay.
MergedItems(items) == {x \in items : x.pr \in MergedAfter(since)}

\* An answered page; after the last one, or the tenth, the list is complete.
GetPage ==
    /\ at = "ask"
    /\ attempt' = 0
    /\ IF GoesOn(page)
       THEN /\ page' = page + 1 /\ got' = got \cup Items(page)
            /\ UNCHANGED <<at, truncated>>
       ELSE /\ page' = 1 /\ got' = MergedItems(got \cup Items(page))
            /\ at' = "work" /\ truncated' = (LinksNext(page) /\ page = MaxPages)
    /\ UNCHANGED <<onGitHub, prLog, wanted, moved, reopened, moves, bad,
                   listings>>

-----------------------------------------------------------------------------
(* Working the list off: the monitor's list only says whether to go on, so *)
(* one listing stands for both.                                            *)

IsReplayed(p) == p \in replayed

\* Oldest merge first; the sort is stable.
Sooner(x, y) ==
    \/ mergedAt[x.pr] < mergedAt[y.pr]
    \/ x.pr = y.pr /\ x.page <= y.page

IsNext(x) == at = "work" /\ x \in got /\ \A y \in got : Sooner(x, y)

TakeItem(x) == got' = got \ {x} /\ UNCHANGED <<at, page, attempt>>

SkipItem(x) ==
    /\ IsNext(x) /\ IsReplayed(x.pr)
    /\ TakeItem(x)
    /\ UNCHANGED <<onGitHub, prLog, observed, moves, bad, listings>>

\* completed_at is the time the replay ends, not the time of the merge; a
\* replay that fails leaves its row all the same, but without being completed.
ReplayItem(x) ==
    /\ IsNext(x) /\ ~IsReplayed(x.pr)
    /\ replayed' = replayed \cup {x.pr}
    /\ since' \in {since, Cardinality(Merged)}
    /\ TakeItem(x)
    /\ UNCHANGED <<onGitHub, observed, moves, bad, listings>>

\* get_pr_commits is asked for once, without a retry, before a row is
\* written; the next pull request is tried.
ItemFails(x) ==
    /\ IsNext(x) /\ ~IsReplayed(x.pr)
    /\ bad < MaxBad /\ bad' = bad + 1
    /\ TakeItem(x)
    /\ UNCHANGED <<onGitHub, prLog, observed, moves, listings>>

ListDone ==
    /\ at = "work" /\ got = {}
    /\ at' = "idle"
    /\ UNCHANGED <<onGitHub, prLog, page, attempt, got, observed, moves, bad,
                   listings>>

PrNext ==
    \/ \E p \in PullRequests : Close(p) \/ Comment(p) \/ Reopen(p)
    \/ StartListing \/ Busy \/ TurnedDown \/ GetPage
    \/ \E x \in got : SkipItem(x) \/ ReplayItem(x) \/ ItemFails(x)
    \/ ListDone

PrSpec == PrInit /\ [][PrNext]_prVars

-----------------------------------------------------------------------------
\* get_merged_pull_requests: a pull request that was merged when the listing
\* began is in the list, unless people moved it or took another one out of
\* the list meanwhile, or the page limit was reached.
ListedUnlessMoved ==
    [][ at = "ask" /\ at' = "work" =>
        reopened \/ truncated' \/ wanted \ moved \subseteq {x.pr : x \in got'} ]_prVars
=============================================================================
