-------------------------- MODULE MCDocumentService --------------------------
(* What TLC needs to check DocumentService on small instances.             *)
EXTENDS DocumentService, TLC

\* Handlers, workers and files are interchangeable: every action chooses them with
\* an existential and no property names one.  Only safety runs use it.
Symmetry ==
    Permutations(Handlers) \cup Permutations(Workers) \cup Permutations(Files)

=============================================================================
