------------------------------ MODULE MCBiPipeline ------------------------------
(***************************************************************************)
(* Two articles of one source, one customer.  The second is dated ahead of *)
(* the clock and scores by its page.  The AI may word either in two ways,  *)
(* and what it words alike is one story.                                   *)
(***************************************************************************)
EXTENDS BiPipeline, TLC

CONSTANTS c1, t1, s1, s2, d1, ours, theirs

MCArticles == 1 .. 2
MCRelevant == {1, 2}
MCPublished == <<1, 2>>
MCStory == [a \in MCArticles |-> [w \in {ours, theirs} |-> IF w = ours THEN s1 ELSE s2]]
MCDomain == [a \in MCArticles |-> d1]
MCFingerprint == <<1, 2>>
MCMatch == 
    [c \in {c1} |-> <<[summary |-> 30, page |-> 30], [summary |-> 10, page |-> 40]>>]
MCThreshold == [c \in {c1} |-> 50]
MCAnswers ==
    {[type |-> t1, points |-> 30, conf |-> 80, snippets |-> 2,
      summary |-> w, brief |-> FALSE, ai |-> TRUE] : w \in {ours, theirs}}
MCHints ==
    [a \in MCArticles |-> [type |-> t1, points |-> 60, summary |-> theirs, brief |-> a = 2]]
MCLabels == {[customer |-> c1, domain |-> d1, type |-> t1, good |-> FALSE]}
================================================================================
