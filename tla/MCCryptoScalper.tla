-------------------------- MODULE MCCryptoScalper --------------------------
EXTENDS CryptoScalper, TLC
\* One timeframe of two minutes: successive triggers of a lane are outside
\* each other's window, so a lane can hold two rows.
TwoMinutes == <<2>>
Symmetry == Permutations(Rows) \cup Permutations(Strategies)
=============================================================================
