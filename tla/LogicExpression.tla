-------------------------- MODULE LogicExpression --------------------------
(***************************************************************************)
(* evaluate_logic_expression() of evaluate/expression_logic_evaluate.cpp.  *)
(* It works on the text itself: it strips blanks and outer brackets, cuts  *)
(* at the first || and then the first && outside brackets, and compares    *)
(* what is left.  A text is a sequence of tokens here; an operator, which  *)
(* is two characters in the code, is one token, "_" a blank, "'" a quote.  *)
(***************************************************************************)
EXTENDS Integers, SequencesExt

Blank == "_"
Quote == "'"
Comparisons == <<"==", "!=", "=~", "!~">>       \* in the order they are tried
NotFound == 0                                   \* std::string::npos

\* trim_string_view()
Trim(text) ==
    LET solid == {i \in DOMAIN text : text[i] # Blank} IN
    IF solid = {} THEN <<>> ELSE SubSeq(text, Min(solid), Max(solid))

\* trim_outer_quotes(): one pair, and what it encloses is left alone.
TrimQuotes(text) ==
    IF Len(text) >= 2 /\ text[1] = Quote /\ text[Len(text)] = Quote
    THEN SubSeq(text, 2, Len(text) - 1)
    ELSE text

\* Brackets open before position i.
Depth(text, i) ==
    LET Count(token) == Cardinality({j \in 1 .. i - 1 : text[j] = token}) IN
    Count("(") - Count(")")

\* find_operator(): the first occurrence outside brackets.
FindOperator(text, opt) ==
    LET found == {i \in DOMAIN text : text[i] = opt /\ Depth(text, i) = 0} IN
    IF found = {} THEN NotFound ELSE Min(found)

\* Defect: only the two ends are looked at.
IsBracketedAtEnds(text) == Len(text) >= 2 /\ text[1] = "(" /\ text[Len(text)] = ")"

\* is_bracketed(): the first bracket is closed by the last token.
IsBracketed(text) ==
    /\ Len(text) >= 2 /\ text[1] = "(" /\ text[Len(text)] = ")"
    /\ \A i \in 2 .. Len(text) - 1 : text[i] = ")" => Depth(text, i) # 1

Before(text, pos) == SubSeq(text, 1, pos - 1)
After(text, pos) == SubSeq(text, pos + 1, Len(text))

\* regex_match_cached(), for the patterns used here: "*" matches anything,
\* any other one itself (RegexCache models the cache).
Matches(lhs, rhs) == rhs = <<"*">> \/ lhs = rhs

\* compare_strings()
Compare(lhs, rhs, cmp) ==
    CASE cmp = "==" -> lhs = rhs
      [] cmp = "!=" -> lhs # rhs
      [] cmp = "=~" -> Matches(lhs, rhs)
      [] cmp = "!~" -> ~ Matches(lhs, rhs)

\* split_expression() and the comparison; a text without one is false.
Atom(text) ==
    LET found == {k \in DOMAIN Comparisons : FindOperator(text, Comparisons[k]) # NotFound} IN
    /\ found # {}
    /\ LET cmp == Comparisons[Min(found)]
           pos == FindOperator(text, cmp)
           Side(part) == TrimQuotes(Trim(part))
       IN Compare(Side(Before(text, pos)), Side(After(text, pos)), cmp)

RECURSIVE Unwrap(_)
Unwrap(text) ==
    IF IsBracketed(text) THEN Unwrap(Trim(SubSeq(text, 2, Len(text) - 1))) ELSE text

RECURSIVE Evaluate(_)
Evaluate(input) ==
    LET expr == Unwrap(Trim(input))
        or == FindOperator(expr, "||")
        and == FindOperator(expr, "&&")
    IN IF expr = <<>> THEN TRUE
       ELSE IF or # NotFound THEN Evaluate(Before(expr, or)) \/ Evaluate(After(expr, or))
       ELSE IF and # NotFound THEN Evaluate(Before(expr, and)) /\ Evaluate(After(expr, and))
       ELSE Atom(expr)

-----------------------------------------------------------------------------
(* The language: trees, their meaning, and how they are written.           *)

\* Families of expressions: comparisons of literals, each with a value and a
\* spelling, by certain operators, and bounds on their size.
CONSTANT Families

ASSUME LanguageAssumption ==
    \A family \in Families :
        /\ \A l \in family.literals : l.text \in {l.value, <<Quote>> \o l.value \o <<Quote>>}
        /\ family.operators \subseteq ToSet(Comparisons)
        /\ family.leaves \in Nat /\ family.brackets \in Nat

Leaves(family) ==
    {<<"cmp", l, o, r>> : l \in family.literals, o \in family.operators, r \in family.literals}

RECURSIVE Meaning(_)
Meaning(tree) ==
    CASE tree[1] = "cmp" -> Compare(tree[2].value, tree[4].value, tree[3])
      [] tree[1] = "or" -> Meaning(tree[2]) \/ Meaning(tree[3])
      [] tree[1] = "and" -> Meaning(tree[2]) /\ Meaning(tree[3])
      [] tree[1] = "bracket" -> Meaning(tree[2])

InBrackets(text, gap) == <<"(">> \o gap \o text \o gap \o <<")">>

\* && binds tighter than ||: an "or" below an "and" needs brackets.
RECURSIVE Written(_, _)
Written(tree, gap) ==
    LET Operand(t) == IF tree[1] = "and" /\ t[1] = "or"
                      THEN InBrackets(Written(t, gap), gap) ELSE Written(t, gap)
        Infix(l, o, r) == l \o gap \o <<o>> \o gap \o r
    IN CASE tree[1] = "cmp" -> Infix(tree[2].text, tree[3], tree[4].text)
         [] tree[1] = "or" -> Infix(Operand(tree[2]), "||", Operand(tree[3]))
         [] tree[1] = "and" -> Infix(Operand(tree[2]), "&&", Operand(tree[3]))
         [] tree[1] = "bracket" -> InBrackets(Written(tree[2], gap), gap)

VARIABLES
    family,             \* the family the trees are of
    trees,              \* the trees being built, as a stack
    leaves, brackets,   \* how many there are in them
    spacing             \* what is written between tokens

exprVars == <<family, trees, leaves, brackets, spacing>>

ExprInit ==
    /\ family \in Families
    /\ trees = <<>> /\ leaves = 0 /\ brackets = 0
    /\ spacing \in {<<>>, <<Blank>>}

PutLeaf ==
    /\ leaves < family.leaves
    /\ \E leaf \in Leaves(family) : trees' = Append(trees, leaf)
    /\ leaves' = leaves + 1
    /\ UNCHANGED <<family, brackets, spacing>>

Join ==
    /\ Len(trees) >= 2
    /\ \E kind \in {"or", "and"} :
          trees' = Append(Front(Front(trees)), <<kind, Last(Front(trees)), Last(trees)>>)
    /\ UNCHANGED <<family, leaves, brackets, spacing>>

Bracket ==
    /\ trees # <<>> /\ brackets < family.brackets
    /\ trees' = Append(Front(trees), <<"bracket", Last(trees)>>)
    /\ brackets' = brackets + 1
    /\ UNCHANGED <<family, leaves, spacing>>

ExprNext == PutLeaf \/ Join \/ Bracket

ExprSpec == ExprInit /\ [][ExprNext]_exprVars
-----------------------------------------------------------------------------
\* Cutting the text at operators gives every expression of the language its
\* meaning: || and && bind as usual, brackets group, redundant ones and
\* blanks change nothing, and outer quotes are not part of a value.
EvaluatesMeaning == trees # <<>> => Evaluate(Written(Last(trees), spacing)) = Meaning(Last(trees))
=============================================================================
