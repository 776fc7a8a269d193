----------------------------- MODULE RegexCache -----------------------------
(***************************************************************************)
(* regex_match_cached() of evaluate/expression_logic_evaluate.cpp, which   *)
(* remembers compiled patterns in an LRUCache.  A pattern that does not    *)
(* compile is remembered as invalid, and so is one whose first match threw *)
(* an exception after its compiled form was already in the cache.  The     *)
(* cache is one object of the function, shared by all threads without a    *)
(* lock; the module models the calls of one thread, as any two at once     *)
(* race in the list and the map.                                           *)
(***************************************************************************)
EXTENDS LruCache

CONSTANTS
    Inputs,
    Malformed,   \* patterns that std::regex refuses
    Matching,    \* pairs of an input and a pattern that match
    Exploding    \* pairs on which std::regex_match throws (complexity, stack)

ASSUME PatternsAssumption ==
    /\ Values = {"valid", "invalid"}
    /\ Malformed \subseteq Keys
    /\ Matching \subseteq Inputs \X Keys /\ Exploding \subseteq Inputs \X Keys
    /\ Matching \cap Exploding = {}

VARIABLES
    query,     \* the arguments of the last call
    answer     \* what it returned, or "exception"

regexVars == <<vars, query, answer>>

RegexInit ==
    /\ Init
    /\ query = <<>>
    /\ answer = "false"

RegexMatch(pair) ==
    IF pair \in Exploding THEN "exception"
    ELSE IF pair \in Matching THEN "true" ELSE "false"

Called(i, p) == query' = <<i, p>>

\* Defect: every pattern found in the cache is taken for invalid.
FoundInvalidAlways(i, p) ==
    /\ p \in Cached
    /\ Find(p)
    /\ Called(i, p) /\ answer' = "false"

FoundInvalid(i, p) ==
    /\ p \in Cached /\ cell[map_[p]].value = "invalid"
    /\ Find(p)
    /\ Called(i, p) /\ answer' = "false"

\* The match is outside the try block: an exception leaves the function.
FoundValid(i, p) ==
    /\ p \in Cached /\ cell[map_[p]].value = "valid"
    /\ Find(p)
    /\ Called(i, p) /\ answer' = RegexMatch(<<i, p>>)

\* The handler stores over the entry the try block has just stored; the
\* second emplace() finds the key at the front and replaces its value.
CompileAndMatch(i, p) ==
    /\ p \notin Cached
    /\ LET good == p \notin Malformed /\ <<i, p>> \notin Exploding IN
        /\ EmplaceMiss(p, IF good THEN "valid" ELSE "invalid")
        /\ answer' = IF good THEN RegexMatch(<<i, p>>) ELSE "false"
    /\ Called(i, p)

RegexNext ==
    \E i \in Inputs, p \in Keys :
        FoundInvalid(i, p) \/ FoundValid(i, p) \/ CompileAndMatch(i, p)

RegexSpec == RegexInit /\ [][RegexNext]_regexVars

-----------------------------------------------------------------------------
(* The answer is that of the regular expression whatever was asked before, *)
(* with one exception: once a match of a well-formed pattern has thrown on *)
(* the call that compiled it, every input is answered "false" for as long  *)
(* as the pattern stays in the cache.                                      *)
AnswersAreMatches ==
    LET Poisoned == {p \in Cached \ Malformed :
                        /\ cell[map_[p]].value = "invalid"
                        /\ \E i \in Inputs : <<i, p>> \in Exploding}
    IN query # <<>> /\ query[2] \notin Malformed \cup Poisoned
          => answer = RegexMatch(query)
=============================================================================
