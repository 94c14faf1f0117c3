------------------------ MODULE MC_MatrixUserSearch ------------------------
(* Two queries, enough keystrokes to type one, the other, and back.        *)
EXTENDS MatrixUserSearch

CONSTANTS q1, q2

MCQueries == {q1, q2}

(* q2 is typed as a matrix user id.                                        *)
MCIdQueries == {q2}

=============================================================================
