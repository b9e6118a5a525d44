------------------------- MODULE MCSwapConfirmation -------------------------
\* Small values for the constants of SwapConfirmation.
EXTENDS SwapConfirmation

CONSTANT c1
OneCall == {c1}
=============================================================================
