----------------------------- MODULE MCReading -----------------------------
(* Listings read in several requests: the Agents' and the console's          *)
(* listings of Pages, and the console's feeds.  The two share no state, so a *)
(* behaviour follows one of them (focus).                                    *)
EXTENDS Retrieval, AdminFeeds

VARIABLE focus

\* The start in which the listings stay while a feed is read.
NothingToList ==
    /\ rows = [p \in Pages |-> Absent] /\ mode = "legacy"
    /\ pass.route = "sections" /\ pass.limit = 1

MCInit ==
    /\ focus \in {"listings", "feeds"}
    /\ FeedInit /\ RetrievalInit
    /\ IF focus = "feeds" THEN NothingToList ELSE walk.feed = "activity"

MCNext ==
    /\ UNCHANGED focus
    /\ \/ focus = "listings" /\ RetrievalNext /\ UNCHANGED feedVars
       \/ focus = "feeds" /\ FeedNext /\ UNCHANGED retrievalVars

MCSpec == MCInit /\ [][MCNext]_<<retrievalVars, feedVars, focus>>
=============================================================================
