----------------------------- MODULE MCUtilities -----------------------------
(* Instances for TLC of the small utilities, one at a time: what makes up  *)
(* the evaluator (the LRUCache by itself, the cache of patterns over it,   *)
(* and expressions), the allocator of ids, combinations, the client of an  *)
(* object store, and the handles of child processes.                       *)
EXTENDS RegexCache, LogicExpression, UidAllocator, Combination, OssClient,
        ProcessHandle

\* Two well-formed patterns that match one input, one of which throws on the
\* other, one that matches the other input, and a malformed one.
MCInputs == {"i1", "i2"}
MCPatterns == {"good", "slow", "other", "bad"}
MCMalformed == {"bad"}
MCMatching == {<<"i1", "good">>, <<"i1", "slow">>, <<"i2", "other">>}
MCExploding == {<<"i2", "slow">>}
MCValues == {"valid", "invalid"}

\* a bare and in quotes, a pattern, and a value with a blank of its own.
MCLiterals == {[value |-> <<"a">>, text |-> <<"a">>],
               [value |-> <<"*">>, text |-> <<"*">>],
               [value |-> <<"a">>, text |-> <<"'", "a", "'">>],
               [value |-> <<"_", "a">>, text |-> <<"'", "_", "a", "'">>]}
MCFewLiterals == {[value |-> <<"a">>, text |-> <<"a">>],
                  [value |-> <<"b">>, text |-> <<"'", "b", "'">>]}

\* Large expressions of one operator, small ones of all.
MCFamilies ==
    {[literals |-> MCFewLiterals, operators |-> {"=="}, leaves |-> 4, brackets |-> 1],
     [literals |-> MCLiterals, operators |-> {"==", "!=", "=~", "!~"}, leaves |-> 2, brackets |-> 1]}

\* Two kinds of separator, and what is none.
MCPaths == UNION {[1 .. n -> {"/", "\\", "w"}] : n \in 0 .. 6}

\* Which of them takes the steps.  The others stay in an initial state, where
\* fairness asks for nothing.
VARIABLE part

Parts == {"lru", "regex", "expression", "uid", "combination", "oss", "handle"}

MCInit ==
    /\ part \in Parts
    /\ RegexInit /\ ExprInit /\ UidInit /\ CombInit /\ OssInit /\ HandleInit
    /\ part \notin {"lru", "regex"} => capacity_ = 3
    /\ part # "expression" => spacing = <<>> /\ family.leaves = 4
    /\ part # "uid" => CYCLIC
    /\ part # "handle" => system = "posix"

\* Calls of goofer_popen() are alike: the first is the one that is made first.
InTurn == \A c, d \in Calls : c < d /\ process[c] = "none" => process[d] = "none"

Only(this, Step, others) == part = this /\ Step /\ UNCHANGED <<part, others>>

evalVars == <<regexVars, exprVars>>

MCNext ==
    \/ Only("lru", Next, <<query, answer, exprVars, uidVars, combVars, ossVars, handleVars>>)
    \/ Only("regex", RegexNext, <<exprVars, uidVars, combVars, ossVars, handleVars>>)
    \/ Only("expression", ExprNext, <<regexVars, uidVars, combVars, ossVars, handleVars>>)
    \/ Only("uid", UidNext, <<evalVars, combVars, ossVars, handleVars>>)
    \/ Only("combination", CombNext, <<evalVars, uidVars, ossVars, handleVars>>)
    \/ Only("oss", OssNext, <<evalVars, uidVars, combVars, handleVars>>)
    \/ Only("handle", HandleNext /\ InTurn', <<evalVars, uidVars, combVars, ossVars>>)

MCSpec ==
    /\ MCInit
    /\ [][MCNext]_<<part, evalVars, uidVars, combVars, ossVars, handleVars>>
    /\ CombFairness /\ HandleFairness
=============================================================================
