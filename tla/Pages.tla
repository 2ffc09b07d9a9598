---------------------------------- MODULE Pages ----------------------------------
(***************************************************************************)
(* PaginatedIterator: it fetches pages as they are needed and hands out     *)
(* their items. A fetch may throw; the application calls again.             *)
(***************************************************************************)
EXTENDS Naturals, Sequences, SequencesExt

CONSTANTS
  Listing    \* what the server lists: a sequence of pages of items

VARIABLE iter   \* params: the page that params_ asks for, 1 if it asks for none;
                \* items, index, done; calling: the call in progress;
                \* given: what next() has returned; over: it has thrown out_of_range;
                \* misled: history, an error has passed for an answer

-------------------------------------------------------------------------------
(* Faults: what a plausible mistake would make of a definition that follows. *)

\* The next fetch is for the same page.
StaysOn(page) == page
\* A page without a link is not read.
NoItemsWithoutLink(page) == IF page = Len(Listing) THEN <<>> ELSE Listing[page]
-------------------------------------------------------------------------------
Init == iter = [params |-> 1, items |-> <<>>, index |-> 0, done |-> FALSE,
                calling |-> "none", given |-> <<>>, over |-> FALSE,
                misled |-> FALSE]

Call == /\ iter.calling = "none"
        /\ \E op \in {"has_next", "next"} : iter' = [iter EXCEPT !.calling = op]

Returns(op) == iter.calling = op

\* has_next(): true as soon as an item is there, false when there will be none.
HasNext == /\ Returns("has_next")
           /\ iter.index < Len(iter.items) \/ iter.done
           /\ iter' = [iter EXCEPT !.calling = "none"]

\* next() returns an item, or throws out_of_range.
NextItem ==
  /\ Returns("next")
  /\ \/ /\ iter.index < Len(iter.items)
        /\ iter' = [iter EXCEPT !.calling = "none", !.index = @ + 1,
                                !.given = Append(@, iter.items[iter.index + 1])]
     \/ /\ iter.index = Len(iter.items) /\ iter.done
        /\ iter' = [iter EXCEPT !.calling = "none", !.over = TRUE]

\* The items of a page, and the page its links.next asks for.
ItemsOf(page) == Listing[page]
LinkOf(page) == page + 1

Needed == /\ iter.calling # "none" /\ iter.index = Len(iter.items) /\ ~iter.done

\* fetch_next(): an empty page is the last one, whatever it links to.
FetchNext ==
  /\ Needed
  /\ LET had  == ItemsOf(iter.params)
         link == LinkOf(iter.params)
     IN  iter' = [iter EXCEPT
           !.items = @ \o had,
           !.params = IF had # <<>> /\ iter.params < Len(Listing) THEN link ELSE @,
           !.done = had = <<>> \/ iter.params = Len(Listing)]

\* get() throws: nothing has changed.
FetchThrows == Needed /\ iter' = [iter EXCEPT !.calling = "none"]

\* get() returns {} for an error without a body: no items, no link.
FetchReturnsNothing ==
  Needed /\ iter' = [iter EXCEPT !.done = TRUE, !.misled = TRUE]

Next == Call \/ HasNext \/ NextItem \/ FetchNext \/ FetchThrows \/ FetchReturnsNothing

Spec == Init /\ [][Next]_iter
-------------------------------------------------------------------------------
(* Properties. *)

\* The items come in the order of the listing, each once, however often a fetch has
\* thrown in between; and when the iterator is exhausted, all of them have come.
\* (Not if the server has refused without a text, and not behind an empty page.)
AllItemsInOrder ==
  /\ IsPrefix(iter.given, FlattenSeq(Listing))
  /\ iter.over /\ ~iter.misled => iter.given = FlattenSeq(Listing)
===============================================================================
