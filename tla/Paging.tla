------------------------------- MODULE Paging -------------------------------
(***************************************************************************)
(* Lists that are read page by page: what a query with ORDER BY, OFFSET    *)
(* and LIMIT may return, and how many pages a reader takes a total for.    *)
(***************************************************************************)
EXTENDS Integers, SequencesExt, FiniteSetsExt

CONSTANTS DefaultSize, MaxSize  \* of a page

ASSUME SizesAssumption == DefaultSize \in 1 .. MaxSize /\ MaxSize \in Nat

\* Mutant: the handler lets pass what the repository cuts.
bindPageUncapped(asked) == IF asked < 1 THEN DefaultSize ELSE asked

\* What the handler takes the size that was asked for to be,
bindPage(asked) == IF asked \in 1 .. MaxSize THEN asked ELSE DefaultSize

\* and what the repository makes of that.
normalizePage(size) == IF size < 1 THEN DefaultSize ELSE Min({size, MaxSize})

AskedSizes == 0 .. MaxSize + 1

\* The orders a query may return S in; `order` is the relation of its ORDER BY.
Orders(S, order) ==
  {s \in SetToSeqs(S) : \A i, j \in DOMAIN s : i < j => <<s[j], s[i]>> \notin order}

\* OFFSET and LIMIT
Slice(s, offset, limit) == SubSeq(s, offset + 1, Min({offset + limit, Len(s)}))

Offset(page, size) == (page - 1) * size

\* Mutant: a page that is not full is not counted.
FullPages(total, size) == Max({1, total \div size})

Pages(total, size) == Max({1, (total + size - 1) \div size})

\* Mutant: the next page may be one too many.
NextPageAnyway(page, pages) == page + 1

NextPage(page, pages) == Min({pages, page + 1})
=============================================================================
