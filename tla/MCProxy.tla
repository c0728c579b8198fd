------------------------------ MODULE MCProxy ------------------------------
(* Model-checking instances of the proxy.                                  *)
EXTENDS Proxy, TLC

CONSTANTS s1, s2

OneSession == {s1}
TwoSessions == {s1, s2}
Interchangeable == Permutations(Sessions)

\* One list with a single address, one whose first address is of a family the
\* proxy skips, and one that needs a fallback.
Lists == {<<"inet">>, <<"other", "inet">>, <<"inet", "inet">>}
FallbackList == {<<"inet", "inet">>}
=============================================================================
