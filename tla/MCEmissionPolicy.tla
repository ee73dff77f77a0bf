-------------------------- MODULE MCEmissionPolicy --------------------------
(* EmissionPolicy with small constants for TLC. *)
EXTENDS EmissionPolicy

\* A type and one below it: three keys on the longer path.
MCTypes == {<<1>>, <<1, 2>>}
\* A single one-segment type.
MCOneType == {<<1>>}
=============================================================================
