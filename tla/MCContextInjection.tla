------------------------- MODULE MCContextInjection -------------------------
(* One hook, three conversations, and lists around the threshold.          *)
EXTENDS ContextInjection

CONSTANTS h1, c1, c2, c3

P(id, d, words, hits) == [id |-> id, domain |-> d, words |-> words, hits |-> hits]

\* Shares of a quarter (3 of 12, 1 of 4) qualify, 3 of 13 does not; 5 of 7 and
\* 7 of 10 differ by little, 2 of 8 and 3 of 12 not at all.
MCVersions ==
    {<<P(1, "python", 8, 0), P(2, "general", 12, 3), P(3, "python", 3, 3)>>,
     <<P(4, "general", 13, 3), P(5, "general", 10, 7), P(6, "general", 7, 5)>>}

MCSeed == <<P(7, "general", 2, 1), P(14, "general", 0, 0)>>

MCAnswers ==
    {<<>>,
     <<P(8, "debug", 4, 3), P(9, "debug", 9, 9), P(10, "general", 4, 1), P(11, "python", 2, 1)>>,
     <<P(12, "general", 12, 3), P(15, "general", 8, 2), P(13, "general", 3, 3)>>}
=============================================================================
