----------------------------- MODULE SourceListing -----------------------------
(***************************************************************************)
(* Searches that read a source page by page (discovery/providers/udata.py,   *)
(* wot_tdd.py) through the bounded client (discovery/http.py): a request      *)
(* budget, a redirect limit, a limit on the size of a body, and one rule      *)
(* about origins.  A uData portal's pages shrink while they are too large; a  *)
(* directory's pages are followed by their links, and must not repeat a       *)
(* Thing.  Items are named by numbers; a listing is a sequence of them.       *)
(***************************************************************************)
EXTENDS Naturals, FiniteSets, SequencesExt, Functions

CONSTANTS Listings,     \* what a portal answers to each query, one sequence per query
          Weights,      \* sizes an item may have
          MaxBytes,     \* the limit on a body
          PageSize,     \* of the first page of a portal, and of a directory
          SearchLimit,  \* _SEARCH_REQUEST_LIMIT
          Limit,        \* candidates the search was asked for
          MaxThings,    \* _MAX_THINGS
          MaxRequests,  \* the client's budget
          MaxRedirects, \* the client's limit on redirects
          Directories,  \* listings a directory may begin with
          MaxChanges    \* changes of the directory while it is read

VARIABLES source,    \* [kind, public, credentialed, weight], fixed
          directory, \* the Things the directory lists now
          changes,
          http,      \* the request under way: stage, origin, redirects; and what was spent
          visited,   \* origins that were asked
          search     \* where the search is

vars == <<source, directory, changes, http, visited, search>>

-----------------------------------------------------------------------------
(* The client (http.py).                                                    *)

Origins == {"source", "other", "private"}
Idle == [stage |-> "idle", at |-> "source", redirects |-> 0]
Fetching == [stage |-> "fetch", at |-> "source", redirects |-> 0]

(* The budget is spent and the address checked before every hop.           *)
Connects == (source.public => http.spent < MaxRequests) /\ ~(source.public /\ http.at = "private")

MayHop(target) == http.redirects < MaxRedirects /\ ~(source.credentialed /\ target # http.at)

Fail == search' = [search EXCEPT !.stage = "failed"] /\ http' = Idle @@ http

Connect ==
    /\ http.stage = "fetch"
    /\ IF Connects
       THEN /\ http' = [http EXCEPT !.stage = "answer", !.spent = @ + 1]
            /\ visited' = visited \cup {http.at}
            /\ UNCHANGED search
       ELSE Fail /\ UNCHANGED visited
    /\ UNCHANGED <<source, directory, changes>>

Redirect ==
    /\ http.stage = "answer"
    /\ \E target \in Origins :
          IF MayHop(target)
          THEN /\ http' = [http EXCEPT !.stage = "fetch", !.at = target, !.redirects = @ + 1]
               /\ UNCHANGED search
          ELSE Fail
    /\ UNCHANGED <<source, directory, changes, visited>>

Unavailable ==
    /\ http.stage = "answer"
    /\ Fail
    /\ UNCHANGED <<source, directory, changes, visited>>

-----------------------------------------------------------------------------
(* A portal (udata.py search).                                              *)

Pages(page, size, listing) == SubSeq(listing, (page - 1) * size + 1,
                                     IF page * size < Len(listing) THEN page * size ELSE Len(listing))
Size(items) == FoldSeq(LAMBDA i, total : source.weight[i] + total, 0, items)
Halved(size) == IF size <= 2 THEN 1 ELSE size \div 2

(* Rounding down may repeat an item, never skip one.                       *)
PageAt(offset, size) == offset \div size + 1

AskPortal ==
    /\ source.kind = "udata" /\ search.stage = "ask"
    /\ search' = [search EXCEPT !.stage = "await", !.left = @ - 1,
                                !.page = PageAt(search.offset, search.size)]
    /\ http' = Fetching @@ http
    /\ UNCHANGED <<source, directory, changes, visited>>

(* The query is exhausted, or enough was found, or no request is left.     *)
Advanced(got, more) ==
    IF more /\ search.left > 0
    THEN [search EXCEPT !.stage = "ask", !.got = got, !.offset = search.page * search.size]
    ELSE IF Cardinality(got) >= Limit \/ search.left = 0 \/ search.query = Len(Listings)
         THEN [search EXCEPT !.stage = "done", !.got = got, !.cut = more]
         ELSE [search EXCEPT !.stage = "ask", !.got = got, !.offset = 0, !.query = @ + 1]

ReadPortal ==
    /\ source.kind = "udata" /\ http.stage = "answer"
    /\ LET listing == Listings[search.query]
           items == Pages(search.page, search.size, listing)
           got == search.got \cup Range(items)
       IN  IF Size(items) > MaxBytes
           THEN search' = IF search.size = 1 \/ search.left = 0
                          THEN [search EXCEPT !.stage = "failed"]
                          ELSE [search EXCEPT !.stage = "ask", !.size = Halved(search.size)]
           ELSE search' = Advanced(got, /\ Cardinality(got) < Limit /\ items # <<>>
                                        /\ search.page * search.size < Len(listing))
    /\ http' = Idle @@ http
    /\ UNCHANGED <<source, directory, changes, visited>>

-----------------------------------------------------------------------------
(* A directory (wot_tdd.py _things), which changes while it is read.       *)

ChangeDirectory ==
    /\ source.kind = "wot-tdd" /\ changes < MaxChanges /\ changes' = changes + 1
    /\ \E i \in 1..Len(directory) : directory' \in {RemoveAt(directory, i), InsertAt(directory, i, 0)}
    /\ UNCHANGED <<source, http, visited, search>>

AskDirectory ==
    /\ source.kind = "wot-tdd" /\ search.stage = "ask"
    /\ search' = [search EXCEPT !.stage = "await"]
    /\ http' = Fetching @@ http
    /\ UNCHANGED <<source, directory, changes, visited>>

(* A Thing seen before, one too many, or a link to another origin ends it. *)
ReadDirectory ==
    /\ source.kind = "wot-tdd" /\ http.stage = "answer"
    /\ LET end == search.offset + PageSize
           items == SubSeq(directory, search.offset + 1, IF end < Len(directory) THEN end ELSE Len(directory))
           things == search.things \o items
       IN  \E next \in IF end < Len(directory) THEN {"source", "other"} ELSE {"none"} :
              search' =
                 IF ~IsInjective(things) \/ Len(things) > MaxThings \/ next = "other"
                 THEN [search EXCEPT !.stage = "failed"]
                 ELSE [search EXCEPT !.stage = IF next = "source" THEN "ask" ELSE "done",
                                     !.things = things, !.offset = end]
    /\ http' = Idle @@ http
    /\ UNCHANGED <<source, directory, changes, visited>>

-----------------------------------------------------------------------------
ListingInit ==
    /\ source \in [kind : {"udata", "wot-tdd"}, public : BOOLEAN, credentialed : BOOLEAN,
                   weight : [UNION {Range(Listings[q]) : q \in DOMAIN Listings} -> Weights]]
    /\ source.kind = "wot-tdd" => \A i \in DOMAIN source.weight : source.weight[i] = CHOOSE w \in Weights : TRUE
    /\ source.kind = "udata" => ~source.credentialed
    /\ directory \in Directories /\ (source.kind = "udata" => directory = <<>>)
    /\ changes = 0 /\ visited = {}
    /\ http = [spent |-> 0] @@ Idle
    /\ search = [stage |-> "ask", query |-> 1, offset |-> 0, size |-> PageSize, page |-> 0,
                 left |-> SearchLimit, got |-> {}, cut |-> FALSE, things |-> <<>>]

ListingNext ==
    \/ Connect \/ Redirect \/ Unavailable
    \/ AskPortal \/ ReadPortal \/ ChangeDirectory \/ AskDirectory \/ ReadDirectory

-----------------------------------------------------------------------------
(* A secret stays with its origin, a public source is never reached at a    *)
(* private address, and its budget holds across pages and redirects         *)
(* (http.py:194-225).                                                       *)
RequestsBounded ==
    /\ source.credentialed => visited \subseteq {"source"}
    /\ source.public => http.spent <= MaxRequests /\ "private" \notin visited

(* However the page size shrinks, what lies before the offset was read, and *)
(* a search that ends by itself with too few candidates has read everything *)
(* (udata.py:226-248).                                                      *)
NothingSkipped ==
    source.kind = "udata" =>
       /\ search.stage \in {"ask", "await"} =>
             \A i \in 1..search.offset : Listings[search.query][i] \in search.got
       /\ search.stage = "done" /\ ~search.cut /\ search.left > 0 /\ Cardinality(search.got) < Limit =>
             search.got = UNION {Range(Listings[q]) : q \in DOMAIN Listings}

(* A directory that did not change is listed whole and in order; one that   *)
(* did never lists a Thing twice (wot_tdd.py:219-232).                      *)
DirectoryListed ==
    source.kind = "wot-tdd" /\ search.stage = "done" =>
       /\ IsInjective(search.things) /\ Len(search.things) <= MaxThings
       /\ changes = 0 => search.things = directory

ListingSound == RequestsBounded /\ NothingSkipped /\ DirectoryListed
=============================================================================
