------------------------------- MODULE MCAlias ------------------------------
(* Alias for TLC: what clients write to each alias and ask for.            *)
EXTENDS Alias

CONSTANTS a, b, c, t1, t2

NoPrefix == {}
AIsPrefixOfC == {<<a, c>>}

\* Nested and repeated aliases; an alias never names an earlier one, so that
\* only rename() can close a circle.
NestedValues == [n \in Names |-> IF n = a THEN {<<b, t1>>, <<b, b>>} ELSE {<<t2>>}]
NestedPaths == {<<a>>, <<t1, b, a>>}

\* One token each, so that a circle does not grow.
CircleValues == [n \in Names |-> {<<m>> : m \in Names}]
OneAlias == {<<a>>}

PrefixValues == [n \in Names |-> IF n = a THEN {<<t1>>} ELSE {<<t2>>}]
PrefixPaths == {<<a, c>>, <<c, a>>}
=============================================================================
