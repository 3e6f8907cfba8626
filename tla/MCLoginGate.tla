---------------------------- MODULE MCLoginGate ----------------------------
EXTENDS LoginGate, TLC

Symmetry == Permutations(Threads) \cup Permutations(Keys)

\* Two states that differ only in windows nothing refers to are the same state.
LiveView ==
    <<now, order, win, [c \in Live |-> <<started[c], failures[c]>>], gate, pc, locals>>
=============================================================================
