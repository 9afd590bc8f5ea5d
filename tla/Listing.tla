------------------------------ MODULE Listing ------------------------------
(***************************************************************************)
(* The two offset-paged listings a sweep prunes by (crates/github): the    *)
(* installation's repositories, whose pages carry a total, and a           *)
(* repository's open pull requests, whose pages do not.  The collection    *)
(* changes at GitHub between two pages.                                    *)
(***************************************************************************)
EXTENDS Naturals, Sequences, FiniteSets, SequencesExt

CONSTANTS
    MaxItems,   \* bound: the repositories, or pull requests, there are
    Kinds,      \* the listings of this instance, of {"repositories", "pulls"}
    PageSize,   \* LISTING_PAGE_SIZE
    MaxChanges  \* bound: items that join or leave during the listing

ASSUME ListingAssumption ==
    /\ MaxItems \in Nat
    /\ Kinds \subseteq {"repositories", "pulls"}
    /\ PageSize \in Nat \ {0}
    /\ MaxChanges \in Nat

VARIABLES
    kind,     \* which listing runs
    there,    \* what GitHub would list, in its order
    pages,    \* the pages read: [total, items]
    listing,  \* "reading", "listed" or "shifted"
    changes,  \* how many items joined or left so far
    left,     \* history: items that left since the listing started
    joined    \* history: items that joined since the listing started

listingVars == <<kind, there, pages, listing, changes, left, joined>>

Items == 1..MaxItems

-----------------------------------------------------------------------------

\* Mutant: a page that ends one item late.
Page_longer(n) ==
    [total |-> Len(there),
     items |-> SubSeq(there, (n - 1) * PageSize + 1, Min({n * PageSize + 1, Len(there)}))]

\* GET ...?per_page=N&page=n, as things are when it is answered.
Page(n) ==
    [total |-> Len(there),
     items |-> SubSeq(there, (n - 1) * PageSize + 1, Min({n * PageSize, Len(there)}))]

Listed(read) == UNION {ToSet(read[n].items) : n \in 1..Len(read)}

Count(read) == FoldSeq(LAMBDA page, sum : Len(page.items) + sum, 0, read)

\* A short page is the last; the repositories also stop at the first page's total.
IsLastPage(read) ==
    \/ Len(read[Len(read)].items) < PageSize
    \/ kind = "repositories" /\ Count(read) >= read[1].total

\* Mutant: the ids are counted and the totals are not compared.
fold_repository_pages_untold(read) ==
    Cardinality(Listed(read)) = read[Len(read)].total

\* fold_repository_pages: the pages agree on the total and their distinct ids
\* add up to it.
fold_repository_pages(read) ==
    /\ \A n \in 1..Len(read) : read[n].total = read[1].total
    /\ Cardinality(Listed(read)) = read[1].total

\* One page is read; with the last, the repositories are folded or refused, and
\* the pull requests are taken as they are.
ReadPage ==
    /\ listing = "reading"
    /\ pages' = Append(pages, Page(Len(pages) + 1))
    /\ listing' = IF ~IsLastPage(pages') THEN "reading"
                  ELSE IF kind = "repositories" /\ ~fold_repository_pages(pages')
                    THEN "shifted"
                    ELSE "listed"
    /\ UNCHANGED <<kind, there, changes, left, joined>>

\* Mutant: the first page is not read again.
StartOver_keeps_first ==
    /\ listing = "shifted"
    /\ pages' = SubSeq(pages, 1, 1)
    /\ listing' = "reading"
    /\ left' = {}
    /\ joined' = {}
    /\ UNCHANGED <<kind, there, changes>>

\* Shifted is retryable: the listing starts over from the first page.
StartOver ==
    /\ listing = "shifted"
    /\ pages' = <<>>
    /\ listing' = "reading"
    /\ left' = {}
    /\ joined' = {}
    /\ UNCHANGED <<kind, there, changes>>

\* An item leaves, from anywhere in GitHub's order: a repository is removed, a
\* pull request closed.
Leaves(at) ==
    /\ listing # "listed"
    /\ changes < MaxChanges
    /\ there' = RemoveAt(there, at)
    /\ changes' = changes + 1
    /\ left' = left \cup {there[at]}
    /\ UNCHANGED <<kind, pages, listing, joined>>

\* An item joins, anywhere in GitHub's order.
Joins(i) ==
    /\ listing # "listed"
    /\ changes < MaxChanges
    /\ i \notin ToSet(there)
    /\ \E at \in 1..(Len(there) + 1) : there' = InsertAt(there, at, i)
    /\ changes' = changes + 1
    /\ joined' = joined \cup {i}
    /\ UNCHANGED <<kind, pages, listing, left>>

\* An item is known by its first place in the order: one order stands for all.
ListingInit ==
    /\ kind \in Kinds
    /\ \E n \in 0..MaxItems : there = [i \in 1..n |-> i]
    /\ pages = <<>>
    /\ listing = "reading"
    /\ changes = 0
    /\ left = {}
    /\ joined = {}

ListingNext ==
    \/ ReadPage
    \/ StartOver
    \/ \E at \in 1..Len(there) : Leaves(at)
    \/ \E i \in Items : Joins(i)

\* The listing's step is run until it answers.
ListingSpec ==
    /\ ListingInit /\ [][ListingNext]_listingVars
    /\ WF_listingVars(ReadPage) /\ WF_listingVars(StartOver)

-----------------------------------------------------------------------------

\* The pages and the collection stay within their bounds: no page of GitHub's is
\* longer than was asked for.
ListingTypeOK ==
    /\ kind \in Kinds
    /\ ToSet(there) \subseteq Items
    /\ \A n \in 1..Len(pages) : Len(pages[n].items) <= PageSize
    /\ listing \in {"reading", "listed", "shifted"}
    /\ changes \in 0..MaxChanges
    /\ left \subseteq Items
    /\ joined \subseteq Items

\* What was there from the listing's first page to its last.
Throughout == ToSet(there) \ (joined \cup left)

\* A listing that is complete misses nothing that was there throughout, so the
\* prune it drives deletes nothing that is still there.
ListedIsComplete == listing = "listed" => Throughout \subseteq Listed(pages)

\* ... unless one item left and another joined, which the totals cannot tell.
ListedIsCompleteOrSwapped ==
    listing = "listed" /\ ~(left # {} /\ joined # {}) => Throughout \subseteq Listed(pages)

\* Starting over ends: once the collection keeps still, the listing answers.
ListingEnds == <>(listing = "listed")
=============================================================================
