------------------------------- MODULE Permissions -----------------------------
(***************************************************************************)
(* The permission engine: which entry of a policy decides a call, and what *)
(* a glob over an argument matches.                                        *)
(*                                                                         *)
(* A pattern and a value are sequences of characters.  A tool name pattern *)
(* is the set of tools fnmatch takes it for, and a regex the set of values *)
(* re.match takes it for.  Left out of the glob: ranges in a class, and    *)
(* that case does not count on Windows.                                    *)
(***************************************************************************)
EXTENDS Integers, FiniteSets, Sequences

CONSTANT Alphabet   \* the characters of values

Separators(windows) == IF windows THEN {"/", "\\"} ELSE {"/"}
At(s, i) == IF i \in 1 .. Len(s) THEN s[i] ELSE "end"

\* _class_end: where the class opened at i closes; 0 for a [ that is a character.
ClassEnd(pattern, i) ==
    LET first == IF At(pattern, i + 1) = "!" THEN i + 2 ELSE i + 1
        rest == IF At(pattern, first) = "]" THEN first + 1 ELSE first
        ends == {j \in rest .. Len(pattern) : pattern[j] = "]"}
    IN  IF ends = {} THEN 0 ELSE CHOOSE j \in ends : \A k \in ends : j <= k

\* (mutant) A negated class is what it says.
ClassChars_Across(pattern, i, windows) ==
    LET negate == pattern[i + 1] = "!"
        chars == {pattern[j] : j \in (IF negate THEN i + 2 ELSE i + 1) .. ClassEnd(pattern, i) - 1}
    IN  IF negate THEN Alphabet \ chars ELSE chars

\* What a class matches; one that is negated, no separator.
ClassChars(pattern, i, windows) ==
    LET negate == pattern[i + 1] = "!"
        chars == {pattern[j] : j \in (IF negate THEN i + 2 ELSE i + 1) .. ClassEnd(pattern, i) - 1}
    IN  IF negate THEN Alphabet \ (chars \cup Separators(windows)) ELSE chars

One(chars) == [chars |-> chars, many |-> FALSE]
Many(chars) == [chars |-> chars, many |-> TRUE]

\* _glob_regex: a sequence of what each piece of the pattern may match.
Glob(pattern, windows) ==
    LET level == Alphabet \ Separators(windows)
        from[i \in 1 .. Len(pattern) + 1] ==
            IF i > Len(pattern) THEN <<>>
            ELSE IF pattern[i] = "*" /\ At(pattern, i + 1) = "*" THEN <<Many(Alphabet)>> \o from[i + 2]
            ELSE IF pattern[i] = "*" THEN <<Many(level)>> \o from[i + 1]
            ELSE IF pattern[i] = "?" THEN <<One(level)>> \o from[i + 1]
            ELSE IF pattern[i] = "[" /\ ClassEnd(pattern, i) # 0
                 THEN <<One(ClassChars(pattern, i, windows))>> \o from[ClassEnd(pattern, i) + 1]
            ELSE IF pattern[i] \in Separators(windows)
                 THEN <<One(Separators(windows))>> \o from[i + 1]
            ELSE <<One({pattern[i]})>> \o from[i + 1]
    IN  from[1]

\* How far a piece that starts behind the characters up to start can reach.
Reach(piece, value, start) ==
    {end \in start .. Len(value) :
        /\ \A k \in start + 1 .. end : value[k] \in piece.chars
        /\ piece.many \/ end = start + 1}

\* The regular expression's match, from the first character to the last: where the
\* first i pieces can end.
Matches(glob, value) ==
    LET ends[i \in 0 .. Len(glob)] ==
            IF i = 0 THEN {0} ELSE UNION {Reach(glob[i], value, j) : j \in ends[i - 1]}
    IN  Len(value) \in ends[Len(glob)]

\* `..` as a segment; either slash separates, on every platform.
HasDotDot(s) ==
    \E i \in 1 .. Len(s) - 1 :
       /\ s[i] = "." /\ s[i + 1] = "."
       /\ At(s, i - 1) \in {"/", "\\", "end"} /\ At(s, i + 2) \in {"/", "\\", "end"}

\* (mutant) fnmatch's reading of a path.
GlobMatches_DotDot(pattern, value, windows) == Matches(Glob(pattern, windows), value)

GlobMatches(pattern, value, windows) ==
    /\ HasDotDot(value) => HasDotDot(pattern)
    /\ Matches(Glob(pattern, windows), value)

\* _match_policy, for an argument policy [arg, regex, pattern].
MatchPolicy(policy, value, windows) ==
    IF policy.regex THEN value \in policy.pattern ELSE GlobMatches(policy.pattern, value, windows)

\* _enforce_policies: a policy constrains its argument where the call gives it.
EnforcePolicies(policies, arguments, windows) ==
    \A p \in policies : p.arg \in DOMAIN arguments => MatchPolicy(p, arguments[p.arg], windows)

\* check_permission: the first entry that names the tool decides.
CheckPermission(permissions, server, tool, arguments, windows) ==
    /\ server \in DOMAIN permissions
    /\ \E i \in DOMAIN permissions[server] :
          /\ tool \in permissions[server][i].tools
          /\ \A j \in 1 .. i - 1 : tool \notin permissions[server][j].tools
          /\ EnforcePolicies(permissions[server][i].policies, arguments, windows)
================================================================================
