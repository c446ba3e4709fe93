----------------------------- MODULE MCTypedQuery -----------------------------
(* A small instance of TypedQuery: five records in pages of two, with values *)
(* and neighbours that tell the clauses and their wrong combinations apart.  *)
EXTENDS TypedQuery

MCInOrder(rows) == SetToSortSeq(rows, <)

MCValuesOf == <<{"u"}, {"v"}, {"u", "v"}, {}, {"u"}>>

MCNeighboursOf == <<{{"u"}, {"v"}}, {{"u"}}, {}, {{"v"}}, {{"u", "v"}}>>

Is(v) == [value |-> v, negated |-> FALSE]
IsNot(v) == [value |-> v, negated |-> TRUE]

UorV == <<<<Is("u"), Is("v")>>>>

MCClauses == {<<>>, UorV, <<<<IsNot("v")>>>>, <<<<Is("v")>>, <<IsNot("u"), Is("v")>>>>}

MCAlternatives == {<<<<>>, <<>>>>, <<UorV, <<<<Is("v")>>>>>>, <<<<>>, <<<<Is("u")>>>>>>}

MCRoots == {Row, {1, 2, 3}}
=============================================================================
