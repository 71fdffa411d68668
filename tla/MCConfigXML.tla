----------------------------- MODULE MCConfigXML -----------------------------
EXTENDS ConfigXML, TLC

\* The requests are interchangeable.
Symmetry == Permutations(Requests)
=============================================================================
