--------------------------- MODULE MCFeedRefresh ---------------------------
(***************************************************************************)
(* An instance of FeedRefresh for TLC: the timer's process and one started *)
(* by hand; a feed of advisories with an unreadable dump between two       *)
(* readable ones, of which the unzip passes over an entry and stops before *)
(* the end, and one names a package twice; a list, unreadable at first.    *)
(***************************************************************************)
EXTENDS FeedRefresh

CONSTANTS timer, hand, osv, list, k1, k2, v1, v2

MCRefreshers == {timer, hand}
MCFeeds == <<osv, list>>
MCAdvisories == {osv}
MCKeys == {k1, k2}
MCValues == {v1, v2}

Entry(k, v) == [key |-> k, value |-> v, size |-> 1, packed |-> 1, parses |-> TRUE]
Oversized(k, v) == [Entry(k, v) EXCEPT !.size = 3, !.packed = 3]
Dense(k, v) == [Entry(k, v) EXCEPT !.size = 2]
Garbled(k, v) == [Entry(k, v) EXCEPT !.parses = FALSE]
Dump(rows) == [broken |-> FALSE, rows |-> rows]
Broken == [broken |-> TRUE, rows |-> <<>>]

MCDumps ==
    [f \in {osv, list} |->
        IF f = osv
        THEN <<Dump(<<Garbled(k1, v2), Oversized(k2, v1), Entry(k1, v1), Dense(k1, v2)>>),
               Broken,
               Dump(<<Entry(k1, v1), Entry(k1, v2), Entry(k2, v2), Entry(k2, v1)>>)>>
        ELSE <<Broken, Dump(<<Entry(k1, v2)>>)>>]
============================================================================
