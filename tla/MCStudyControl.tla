--------------------------- MODULE MCStudyControl ---------------------------
(* Two trials with two scores, two controllers, one restart and one drift. *)
EXTENDS StudyControl

MCScores == {1, 2}
=============================================================================
