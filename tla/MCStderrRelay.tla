---------------------------- MODULE MCStderrRelay ---------------------------
(* A small instance of StderrRelay.                                        *)
EXTENDS StderrRelay

\* Secrets that overlap themselves and one another, one a prefix of the other.
MCSecrets == {<<"a", "b">>, <<"a", "b", "a">>, <<"b", "b", "#">>}
MCMarker  == <<"[", "R", "]">>
=============================================================================
