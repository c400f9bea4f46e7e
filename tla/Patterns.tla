------------------------------ MODULE Patterns ------------------------------
(***************************************************************************)
(* The pattern language of match.inl (URI handlers, CGI and SSI patterns,  *)
(* throttle, hide_files...), the shell sort of sort.inl, and the comma     *)
(* separated lists that next_option traverses.  The machine types every    *)
(* pattern and text over small alphabets; the properties compare what the  *)
(* functions return with reference definitions.                            *)
(***************************************************************************)
EXTENDS Integers, Sequences, FiniteSets

CONSTANTS PatternChars,   \* characters of the patterns: "*" "?" "$" "|" and letters
          TextChars,      \* characters of the strings they are matched with
          ListChars,      \* characters of the lists
          MaxPattern, MaxString, MaxList, MaxSorted,   \* bounds: lengths
          MaxMatches      \* MG_MATCH_CONTEXT_MAX_MATCHES

ASSUME PatternsAssumption == {MaxPattern, MaxString, MaxList, MaxSorted, MaxMatches} \subseteq Nat

VARIABLES pkind, pat, str
patternVars == <<pkind, pat, str>>

PatternsInit == pkind = "match" /\ pat = <<>> /\ str = <<>>

\* The caller gives another pattern, string, list or array.
PatternChar(c) ==
    pkind = "match" /\ str = <<>> /\ Len(pat) < MaxPattern /\ pat' = Append(pat, c) /\ UNCHANGED <<pkind, str>>
StringChar(c) ==
    pkind = "match" /\ Len(str) < MaxString /\ str' = Append(str, c) /\ UNCHANGED <<pkind, pat>>
ListChar(c) ==
    pkind = "list" /\ Len(str) < MaxList /\ str' = Append(str, c) /\ UNCHANGED <<pkind, pat>>
Element(n) ==
    pkind = "sort" /\ Len(str) < MaxSorted /\ str' = Append(str, n) /\ UNCHANGED <<pkind, pat>>
Again(k) == pkind' = k /\ pat' = <<>> /\ str' = <<>>

PatternsNext ==
    \/ \E c \in PatternChars : PatternChar(c)
    \/ \E c \in TextChars : StringChar(c)
    \/ \E c \in ListChars : ListChar(c)
    \/ \E n \in 1..3 : Element(n)
    \/ \E k \in {"match", "list", "sort"} : Again(k)

-----------------------------------------------------------------------------
(* match.inl.  A result is [ret, found]: the length matched or -1, and the *)
(* substrings in the match context as [at, len].                           *)

\* The character at an index that counts from 0, "" at the end of the string.
At(s, i) == IF i < Len(s) THEN s[i + 1] ELSE ""
From(s, n) == SubSeq(s, n + 1, Len(s))

\* match_context_push
Push(found, at, len) ==
    IF Len(found) < MaxMatches THEN Append(found, [at |-> at, len |-> len]) ELSE found

\* How far "?" advances in pattern and string together.
Questions(p, s) ==
    LET n == {k \in 0..Len(p) : \A i \in 0..(k - 1) : At(p, i) = "?" /\ At(s, i) \notin {"", "/"}}
    IN  CHOOSE k \in n : \A m \in n : m <= k

\* strcspn(s, "/")
UpToSlash(s) ==
    LET n == {k \in 0..Len(s) : \A i \in 0..(k - 1) : At(s, i) # "/"}
    IN  CHOOSE k \in n : \A m \in n : m <= k

\* Mutant: "*" gives up when the longest part that it can take does not fit.
RECURSIVE MatchImplGreedy(_, _, _, _)
MatchImplGreedy(p, s, at, found) ==
    IF p = <<>> THEN [ret |-> 0, found |-> found]
    ELSE LET q == Questions(p, s)
             p1 == From(p, q)
             s1 == From(s, q)
             f1 == IF q > 0 THEN Push(found, at, q) ELSE found
             double == At(p1, 1) = "*"
             rest == From(p1, IF double THEN 2 ELSE 1)
             span == IF double THEN Len(s1) ELSE UpToSlash(s1)
             sub == MatchImplGreedy(rest, From(s1, span), at + q + span, f1)
             one == MatchImplGreedy(From(p1, 1), From(s1, 1), at + q + 1, f1)
         IN  IF p1 = <<>> THEN [ret |-> q, found |-> f1]
             ELSE IF p1[1] = "$" THEN [ret |-> IF s1 = <<>> THEN q ELSE -1, found |-> f1]
             ELSE IF p1[1] = "*" THEN [sub EXCEPT !.ret = IF @ = -1 THEN @ ELSE q + span + @]
             ELSE IF p1[1] # At(s1, 0) THEN [ret |-> -1, found |-> f1]
             ELSE [one EXCEPT !.ret = IF @ = -1 THEN @ ELSE q + 1 + @]

\* mg_match_impl, and its loop that tries shorter and shorter parts for a "*"; what the
\* tries that fail have pushed stays in the context.
RECURSIVE MatchImpl(_, _, _, _), StarLoop(_, _, _, _, _)
MatchImpl(p, s, at, found) ==
    IF p = <<>> THEN [ret |-> 0, found |-> found]
    ELSE LET q == Questions(p, s)
             p1 == From(p, q)
             s1 == From(s, q)
             f1 == IF q > 0 THEN Push(found, at, q) ELSE found
             double == At(p1, 1) = "*"
             rest == From(p1, IF double THEN 2 ELSE 1)
             span == IF double THEN Len(s1) ELSE UpToSlash(s1)
             sub == IF rest = <<>> THEN [ret |-> span, found |-> Push(f1, at + q, span)]
                    ELSE StarLoop(rest, s1, at + q, span, f1)
             one == MatchImpl(From(p1, 1), From(s1, 1), at + q + 1, f1)
         IN  IF p1 = <<>> THEN [ret |-> q, found |-> f1]
             ELSE IF p1[1] = "$" THEN [ret |-> IF s1 = <<>> THEN q ELSE -1, found |-> f1]
             ELSE IF p1[1] = "*" THEN [sub EXCEPT !.ret = IF @ = -1 THEN @ ELSE q + @]
             ELSE IF p1[1] # At(s1, 0) THEN [ret |-> -1, found |-> f1]
             ELSE [one EXCEPT !.ret = IF @ = -1 THEN @ ELSE q + 1 + @]
StarLoop(rest, s, at, len, found) ==
    LET r == MatchImpl(rest, From(s, len), at + len, found)
    IN  IF r.ret # -1 THEN [ret |-> len + r.ret, found |-> Push(r.found, at, len)]
        ELSE IF len = 0 THEN r
        ELSE StarLoop(rest, s, at, len - 1, r.found)

Bar(p) == {i \in DOMAIN p : p[i] = "|"}

\* mg_match_alternatives: the parts between "|" from the left, the context reset for each.
RECURSIVE MatchAlternatives(_, _)
MatchAlternatives(p, s) ==
    IF Bar(p) = {} THEN MatchImpl(p, s, 0, <<>>)
    ELSE LET bar == CHOOSE i \in Bar(p) : \A j \in Bar(p) : i <= j
             left == MatchImpl(SubSeq(p, 1, bar - 1), s, 0, <<>>)
         IN  IF left.ret >= 0 THEN left ELSE MatchAlternatives(From(p, bar), s)

-----------------------------------------------------------------------------
(* sort.inl *)

\* The gaps, from the largest one down.
Gaps == <<1750, 701, 301, 132, 57, 23, 10, 4, 1>>

\* Mutant: the last element of each chain is left where it is.
InsertShort(data, j, gap) ==
    IF j + gap > Len(data) /\ gap = 1 THEN data
    ELSE IF j > gap /\ data[j - gap] > data[j]
    THEN [data EXCEPT ![j] = data[j - gap], ![j - gap] = data[j]] ELSE data

\* The inner loop: the element moves down by the gap past all that are larger.
Insert(data, j, gap) ==
    LET depth == {n \in 0..((j - 1) \div gap) : \A m \in 1..n : data[j - m * gap] > data[j]}
        n == CHOOSE k \in depth : \A m \in depth : m <= k
    IN  [i \in DOMAIN data |->
            IF i = j - n * gap THEN data[j]
            ELSE IF i > j - n * gap /\ i <= j /\ (j - i) % gap = 0 THEN data[i - gap]
            ELSE data[i]]

\* The elements i, i + gap, i + 2 * gap... for each i below the gap.
RECURSIVE InsertChain(_, _, _)
InsertChain(data, j, gap) ==
    IF j > Len(data) THEN data ELSE InsertChain(Insert(data, j, gap), j + gap, gap)
RECURSIVE InsertChains(_, _, _)
InsertChains(data, i, gap) ==
    IF i > gap THEN data ELSE InsertChains(InsertChain(data, i, gap), i + 1, gap)

\* mg_sort: a gap larger than half the array is skipped.
RECURSIVE SortFrom(_, _)
SortFrom(data, g) ==
    IF g > Len(Gaps) THEN data
    ELSE SortFrom(IF Gaps[g] > Len(data) \div 2 THEN data ELSE InsertChains(data, 1, Gaps[g]), g + 1)
Sort(data) == SortFrom(data, 1)

-----------------------------------------------------------------------------
(* Lists *)

RECURSIVE TrimLeft(_)
TrimLeft(s) == IF s # <<>> /\ s[1] = " " THEN TrimLeft(Tail(s)) ELSE s

\* Mutant: blanks behind a value belong to it.
TrimNothing(s) == s

RECURSIVE TrimRight(_)
TrimRight(s) == IF s # <<>> /\ s[Len(s)] = " " THEN TrimRight(SubSeq(s, 1, Len(s) - 1)) ELSE s

FirstOf(s, c) ==
    LET at == {i \in DOMAIN s : s[i] = c}
    IN  IF at = {} THEN 0 ELSE CHOOSE i \in at : \A j \in at : i <= j

\* Calls of next_option up to the end of the list: empty values are skipped, and a value
\* "x=y" is taken apart.
RECURSIVE Options(_)
Options(list) ==
    LET l == TrimLeft(list)
        comma == FirstOf(l, ",")
        val == TrimRight(IF comma = 0 THEN l ELSE SubSeq(l, 1, comma - 1))
        eq == FirstOf(val, "=")
        option == [val |-> IF eq = 0 THEN val ELSE SubSeq(val, 1, eq - 1),
                   eq_val |-> IF eq = 0 THEN <<>> ELSE From(val, eq)]
        rest == IF comma = 0 THEN <<>> ELSE Options(From(l, comma))
    IN  IF list = <<>> THEN <<>> ELSE IF val = <<>> THEN rest ELSE <<option>> \o rest

\* header_has_option: mg_strncasecmp compares as many characters as the header has.
HasOption(header, option) ==
    \E i \in DOMAIN Options(header) :
        LET v == Options(header)[i].val
        IN  Len(v) <= Len(option) /\ SubSeq(option, 1, Len(v)) = v

\* should_keep_alive: the server's wishes first, then the client's header, then the version.
KeepAlive(mustClose, enabled, header, version) ==
    /\ ~mustClose /\ enabled
    /\ IF header # <<>> THEN HasOption(header, <<"x", "y">>) ELSE version = "1.1"

-----------------------------------------------------------------------------
(* Reference definitions *)

\* The lengths that a pattern without "|" can match at the start of a string.
RECURSIVE Lengths(_, _)
Lengths(p, s) ==
    IF p = <<>> THEN {0}
    ELSE IF p[1] = "$" THEN IF s = <<>> THEN {0} ELSE {}
    ELSE IF p[1] = "*"
    THEN LET double == At(p, 1) = "*"
             most == IF double THEN Len(s) ELSE UpToSlash(s)
         IN  UNION {{n + k : k \in Lengths(From(p, IF double THEN 2 ELSE 1), From(s, n))} : n \in 0..most}
    ELSE IF s # <<>> /\ (p[1] = s[1] \/ (p[1] = "?" /\ s[1] # "/"))
    THEN {1 + k : k \in Lengths(Tail(p), Tail(s))} ELSE {}

\* A pattern matches when one of its alternatives does, and then the length returned is one
\* that the leftmost of them can match (mg_match_impl, with its backtracking for "*" and
\* its runs of "?").
MatchExact ==
    pkind = "match" =>
        LET r == MatchAlternatives(pat, str).ret
            ends == Bar(pat) \cup {0, Len(pat) + 1}
            parts == {<<i, j>> \in ends \X ends : i < j /\ ~\E k \in ends : i < k /\ k < j}
            matching == {p \in parts : Lengths(SubSeq(pat, p[1] + 1, p[2] - 1), str) # {}}
        IN  IF matching = {} THEN r = -1
            ELSE LET first == CHOOSE p \in matching : \A q \in matching : p[1] <= q[1]
                 IN  r \in Lengths(SubSeq(pat, first[1] + 1, first[2] - 1), str)

Count(s, x) == Cardinality({i \in DOMAIN s : s[i] = x})

\* mg_sort returns the elements of the array in order, also where it starts with a gap of 4.
SortExact ==
    pkind = "sort" =>
        LET out == Sort(str)
        IN  /\ \A i \in 2..Len(out) : out[i - 1] <= out[i]
            /\ Len(out) = Len(str) /\ \A x \in 1..3 : Count(out, x) = Count(str, x)

\* next_option gives the parts between the commas in order, without the blanks around them
\* and without the empty ones, and no "=" is left in a name; so a Connection header that
\* lists the option keeps the connection alive, unless the server has to close it.
ListExact ==
    pkind = "list" =>
        LET ends == {i \in DOMAIN str : str[i] = ","} \cup {0, Len(str) + 1}
            Part(i) == LET j == CHOOSE k \in ends : k > i /\ \A m \in ends : m > i => k <= m
                       IN  SubSeq(str, i + 1, j - 1)
            words == {i \in ends \ {Len(str) + 1} : \E k \in DOMAIN Part(i) : Part(i)[k] # " "}
            Solid(s) == SelectSeq(s, LAMBDA c : c # " ")
        IN  /\ Len(Options(str)) = Cardinality(words)
            /\ \A i \in words :
                  LET o == Options(str)[Cardinality({k \in words : k <= i})]
                      whole == IF FirstOf(Part(i), "=") = 0 THEN o.val ELSE o.val \o <<"=">> \o o.eq_val
                  IN  /\ FirstOf(o.val, "=") = 0
                      /\ whole[1] # " " /\ whole[Len(whole)] # " "
                      /\ \E a, b \in 0..Len(Part(i)) : whole = SubSeq(Part(i), a + 1, b)
                      /\ Solid(whole) = Solid(Part(i))
            /\ (\E i \in DOMAIN Options(str) : Options(str)[i].val = <<"x", "y">>) =>
                    KeepAlive(FALSE, TRUE, str, "1.0") /\ ~KeepAlive(TRUE, TRUE, str, "1.0")

\* "add the substring we just found" (the comments of mg_match_impl): the substrings of a
\* match lie within it.  They do not always: what an unsuccessful try of a "*" found stays.
SubstringsMatched ==
    pkind = "match" =>
        LET m == MatchAlternatives(pat, str)
            covered == UNION {m.found[i].at..(m.found[i].at + m.found[i].len - 1) : i \in DOMAIN m.found}
        IN  m.ret >= 0 => covered \subseteq 0..(m.ret - 1)
=============================================================================
