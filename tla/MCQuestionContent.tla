-------------------------- MODULE MCQuestionContent -------------------------
(***************************************************************************)
(* A small instance of QuestionContent: no, two equal, two and three       *)
(* choices; an alphabet of two letters, which the third choice is beyond;  *)
(* the real int64, with the 55 sleeps that come out right.                 *)
(***************************************************************************)
EXTENDS QuestionContent

CONSTANTS t1, t2, t3

MCTexts       == {t1, t2, t3}
MCChoiceLists == {<<>>, <<t1, t1>>, <<t1, t2>>, <<t2, t1, t3>>}
MCAnswerLists == {<<t1>>, <<t3, t1>>, <<t2, t1>>}

\* One second is 10^9 nanoseconds.
Second == {9, 11, 14, 15, 17, 19, 20, 23, 24, 25, 27, 28, 29}
=============================================================================
