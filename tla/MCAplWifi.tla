------------------------------- MODULE MCAplWifi -------------------------------
EXTENDS AplWifi, TLC

\* Helpers are interchangeable, and so are networks whose slug is ordinary.
HelperSymmetry == Permutations(Helpers) \cup Permutations(Networks)
================================================================================
