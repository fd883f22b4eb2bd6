---------------------------- MODULE MCReputation ----------------------------
(* Instance of Reputation for TLC: scores 1..4, of which 3 and 4 are active. *)
EXTENDS Reputation

\* A failure that takes two points, and a success so large that it wraps when
\* the score is above 1.
MCDelta == {-2, 6}

\* A small penalty, and one above the largest int64: it rewards.
MCPoints == {2, 10}

=============================================================================
