-------------------------- MODULE MCTerminalWindow --------------------------
(***************************************************************************)
(* One terminal with two generations of its shell and of its socket, so    *)
(* that the old ones are still about when the new ones come.               *)
(***************************************************************************)
EXTENDS TerminalWindow

CONSTANT Short    \* chunks that a shell writes where something has gone wrong or ended

\* A shell that writes more meets no trouble, no teardown and no close of its
\* panel, and none writes more after one.
ShortStreams == \A m \in Managers : manager[m].reader = "reading" =>
                  Len(output[m]) <= Short \/ (troubles = 0 /\ ~torn /\ panel # "closed")

\* Two of the three may come in one behaviour.
TwoOfThree == ~(troubles = MaxTroubles /\ torn /\ panel = "closed")

\* Nothing that this cuts has to happen.
Bounded == ShortStreams /\ TwoOfThree

MCFairSpec == Init /\ [][Next /\ Bounded']_vars /\ Fairness
=============================================================================
