------------------------------ MODULE MCPlayback ------------------------------
EXTENDS Playback, TLC
MCHome == [c \in ClipIds |-> "a"]
MCOrder == <<2, 1>>
MCOffers == {<<>>, <<1>>, <<2>>, <<1, 2>>, <<2, 1>>}
Symmetry == Permutations(Calls)
=============================================================================
