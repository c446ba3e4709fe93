------------------------------- MODULE Filters -------------------------------
(* How filter.go and query.go compose the text of a @filter: groups of terms, *)
(* the fragments of one query, OR groups and edge constraints, each numbered *)
(* from $1 and renumbered when it joins others.  An expression is a sequence *)
(* of tokens, read as dgraph (external) reads it: AND binds before OR.       *)
EXTENDS Integers, Sequences, SequencesExt

And == [is |-> "AND"]
Or == [is |-> "OR"]
Eq(n, negated) == [is |-> "eq", n |-> n, negated |-> negated]     \* eq(p, $n) or NOT eq(p, $n)
Group(expr) == [is |-> "group", of |-> expr]                      \* ( ... )
Matched == [is |-> "uid"]                                         \* uid(mgMatched)

(* A fragment: an expression with the values its placeholders stand for.     *)
Nothing == [expr |-> <<>>, params |-> <<>>]

RECURSIVE Holds(_, _, _, _)
(* What dgraph makes of an expression for a node with these values, matched  *)
(* by the var block or not: some run of operands between ORs is all true.    *)
Holds(expr, params, values, matched) ==
    LET true(t) ==
            CASE t.is = "eq" -> t.n \in DOMAIN params /\ (params[t.n] \in values) # t.negated
              [] t.is = "group" -> Holds(t.of, params, values, matched)
              [] t.is = "uid" -> matched
              [] OTHER -> t.is = "AND"
        ends(i) == i \notin DOMAIN expr \/ expr[i].is = "OR"
    IN  \/ expr = <<>>
        \/ \E i, j \in DOMAIN expr :
              /\ i <= j /\ ends(i - 1) /\ ends(j + 1)
              /\ \A k \in i .. j : true(expr[k])

-----------------------------------------------------------------------------
(* strings.Join *)
Join(connective, exprs) ==
    FoldLeft(LAMBDA sofar, e : IF sofar = <<>> THEN e ELSE sofar \o <<connective>> \o e,
             <<>>, exprs)

RECURSIVE shiftPlaceholders(_, _)
shiftPlaceholders(expr, delta) ==
    [i \in DOMAIN expr |->
        CASE expr[i].is = "eq" -> [expr[i] EXCEPT !.n = @ + delta]
          [] expr[i].is = "group" -> Group(shiftPlaceholders(expr[i].of, delta))
          [] OTHER -> expr[i]]

(* The parts with a connective between them, each in parentheses and         *)
(* renumbered past the values of those before it; empty ones are skipped.    *)
JoinedUnshifted(connective, frags) ==                     \* mutant of Joined
    FoldLeft(LAMBDA c, f :
                IF f.expr = <<>> THEN c
                ELSE [expr |-> Join(connective, <<c.expr, <<Group(f.expr)>>>>),
                      params |-> c.params \o f.params],
             Nothing, frags)

Joined(connective, frags) ==
    FoldLeft(LAMBDA c, f :
                IF f.expr = <<>> THEN c
                ELSE LET part == <<Group(shiftPlaceholders(f.expr, Len(c.params)))>>
                     IN  [expr |-> Join(connective, <<c.expr, part>>), params |-> c.params \o f.params],
             Nothing, frags)

combineAnd(frags) == Joined(And, frags)

(* CombinedFilter of each detached query, OR-ed into one fragment. *)
OrFragment(subs) ==
    LET c == Joined(Or, [i \in DOMAIN subs |-> combineAnd(subs[i])])
    IN  IF c.expr = <<>> THEN Nothing ELSE [c EXCEPT !.expr = <<Group(c.expr)>>]

(* edgeMatchBody: a block for each constraint and the values of all.         *)
edgeMatchBody(constraints) ==
    FoldLeft(LAMBDA b, f : [blocks |-> Append(b.blocks, shiftPlaceholders(f.expr, Len(b.params))),
                            params |-> b.params \o f.params],
             [blocks |-> <<>>, params |-> <<>>], constraints)

-----------------------------------------------------------------------------
(* filter.Builder: OR groups of terms, a term being a value, negated or not, *)
(* and the groups joined by AND.  RequiredEq is a group of one.              *)
addEqGroup(b, terms) ==
    IF terms = <<>> THEN b
    ELSE LET numbered == [i \in DOMAIN terms |-> <<Eq(Len(b.params) + i, terms[i].negated)>>]
         IN  [groups |-> Append(b.groups, <<Group(Join(Or, numbered))>>),
              params |-> b.params \o [i \in DOMAIN terms |-> terms[i].value]]

Build(groups) ==
    LET b == FoldLeft(addEqGroup, [groups |-> <<>>, params |-> <<>>], groups)
    IN  [expr |-> Join(And, b.groups), params |-> b.params]

(* A caller's own text: the terms of a group without parentheses.            *)
Bare(terms) ==
    LET built == Build(<<terms>>)
    IN  IF terms = <<>> THEN Nothing ELSE [built EXCEPT !.expr = built.expr[1].of]

(* What the caller of Builder means: some term of every group.               *)
Means(groups, values) ==
    \A g \in ToSet(groups) :
        g # <<>> => \E t \in ToSet(g) : (t.value \in values) # t.negated
=============================================================================
