------------------------------- MODULE Filter -------------------------------
(***************************************************************************)
(* The ?filter of the Consul reads (internal/consul/filter.go): a          *)
(* recursive-descent parser over tokens, and the predicate it returns.     *)
(*                                                                         *)
(* A token is a word or a quoted word; tokenizeFilter, which cuts the      *)
(* query string into them, is left out.  A parser method is an operator    *)
(* from the position p of the next token to the outcome: whether it        *)
(* succeeded, the position after what it consumed, and the expression,     *)
(* kept as a tree that holds evaluates (the closures of the code).         *)
(***************************************************************************)
EXTENDS Sequences, Integers

Word(t) == [text |-> t, quoted |-> FALSE]
Quoted(t) == [text |-> t, quoted |-> TRUE]

(* peek past the end is the empty string.                                  *)
peek(toks, p) == IF p <= Len(toks) THEN toks[p] ELSE Word("")
isWord(toks, p, w) == peek(toks, p) = Word(w)

Failed == [ok |-> FALSE, p |-> 0, e |-> <<>>]
Parsed(p, e) == [ok |-> TRUE, p |-> p, e |-> e]

(* selector op value, and value in selector: three tokens, of which the    *)
(* last may be missing here (the trailing-token test then refuses).        *)
parsePredicate(toks, p) ==
    LET left == peek(toks, p)
        op == peek(toks, p + 1)
        right == peek(toks, p + 2)
        made(kind, sel, val) ==
            Parsed(p + 3, [op |-> kind, sel |-> sel, val |-> val.text])
    IN  CASE left = Word("") \/ op = Word("") -> Failed
          [] op = Word("==") -> made("eq", left, right)
          [] op = Word("!=") -> made("ne", left, right)
          [] op = Word("contains") -> made("has", left, right)
          [] op = Word("in") -> made("has", right, left)
          [] OTHER -> Failed

RECURSIVE parseOr(_, _), parseOrRest(_, _), parseAnd(_, _),
          parseAndRest(_, _), parseNot(_, _)

parsePrimary(toks, p) ==
    IF ~isWord(toks, p, "(") THEN parsePredicate(toks, p)
    ELSE LET inner == parseOr(toks, p + 1)
         IN  IF inner.ok /\ isWord(toks, inner.p, ")")
             THEN Parsed(inner.p + 1, inner.e) ELSE Failed

(* Mutant of parseNot: the negation takes in what `and' adds after it.     *)
parseNotLoose(toks, p) ==
    IF ~isWord(toks, p, "not") THEN parsePrimary(toks, p)
    ELSE LET inner == parseAnd(toks, p + 1)
         IN  IF inner.ok THEN Parsed(inner.p, [op |-> "not", l |-> inner.e])
             ELSE Failed

parseNot(toks, p) ==
    IF ~isWord(toks, p, "not") THEN parsePrimary(toks, p)
    ELSE LET inner == parseNot(toks, p + 1)
         IN  IF inner.ok THEN Parsed(inner.p, [op |-> "not", l |-> inner.e])
             ELSE Failed

(* The loops of parseAnd and parseOr, from what they have so far.          *)
parseAndRest(toks, left) ==
    IF ~left.ok \/ ~isWord(toks, left.p, "and") THEN left
    ELSE LET right == parseNot(toks, left.p + 1)
         IN  IF right.ok
             THEN parseAndRest(toks, Parsed(right.p,
                    [op |-> "and", l |-> left.e, r |-> right.e]))
             ELSE Failed

parseAnd(toks, p) == parseAndRest(toks, parseNot(toks, p))

parseOrRest(toks, left) ==
    IF ~left.ok \/ ~isWord(toks, left.p, "or") THEN left
    ELSE LET right == parseAnd(toks, left.p + 1)
         IN  IF right.ok
             THEN parseOrRest(toks, Parsed(right.p,
                    [op |-> "or", l |-> left.e, r |-> right.e]))
             ELSE Failed

parseOr(toks, p) == parseOrRest(toks, parseAnd(toks, p))

parseFilter(toks) ==
    LET expr == parseOr(toks, 1)
    IN  IF expr.ok /\ expr.p = Len(toks) + 1 THEN expr ELSE Failed
-----------------------------------------------------------------------------
(* What an entry shows to a filter: its tags, one meta value ("" when      *)
(* unset), and the statuses of its synthetic checks.                       *)
scalarEq(v, sel, val) ==
    CASE sel = Word("Checks.Status") -> val \in v.statuses
      [] sel = Word("ServiceMeta.k") -> v.meta = val
      [] OTHER -> FALSE

listHas(v, sel, val) ==
    CASE sel = Word("ServiceTags") -> val \in v.tags
      [] sel = Word("Checks.Status") -> val \in v.statuses
      [] OTHER -> FALSE

RECURSIVE holds(_, _)
holds(e, v) ==
    CASE e.op = "or" -> holds(e.l, v) \/ holds(e.r, v)
      [] e.op = "and" -> holds(e.l, v) /\ holds(e.r, v)
      [] e.op = "not" -> ~holds(e.l, v)
      [] e.op = "eq" -> scalarEq(v, e.sel, e.val)
      [] e.op = "ne" -> ~scalarEq(v, e.sel, e.val)
      [] e.op = "has" -> listHas(v, e.sel, e.val)
=============================================================================
