----------------------------- MODULE MCGrantMigration --------------------------
(* Instances of GrantMigration for TLC: what a file system can make of the *)
(* files of 0.1.x, with one policy; and every short glob, on one file.     *)
EXTENDS GrantMigration

\* Two names that differ in case, and one in its canonical forms and in neither.
Forms == {"composed", "decomposed", "mixed"}
MCNfc == [n \in {"bob", "eve", "gone", "CI", "ci"} \cup Forms |->
             IF n \in Forms THEN "composed" ELSE n]
MCNfd == [n \in DOMAIN MCNfc |-> IF n \in Forms THEN "decomposed" ELSE n]

Characters == {"a", "/", ".", "\\", "]", "["}

Entities(kind, names, minted) ==
    [n \in names |-> [id |-> IF n \in minted THEN <<kind, n>> ELSE None]]
Keyless(names, minted) ==
    [n \in names |-> [id |-> IF n \in minted THEN <<"minted", n>> ELSE None, hash |-> None]]
World(agents, minted, files, windows) ==
    [agents |-> Keyless(agents, minted), windows |-> windows, policies |-> files,
     keyrings |-> IF "eve" \in agents THEN {"open"} ELSE {"open", "locked"},
     servers |-> Entities("minted", {"git", "fs"}, IF minted = {} THEN {} ELSE {"git"})]

\* Who has access to what: all tools of a server or two.
Everything == <<[tools |-> {"read", "write"}, policies |-> {}]>>
Access(n) == [s \in {Name(t) : t \in IF n \in {"CI", "composed"} THEN {"git", "removed"} ELSE {"fs"}} |->
                 Everything]
Doc(n) == [owner |-> IF n = "gone" THEN None ELSE Name(n), permissions |-> Access(n)]

\* A file for each writer, under the stem the directory lists.
Files(stem) == [f \in {Name(stem[n]) : n \in DOMAIN stem} |->
                   Doc(CHOOSE n \in DOMAIN stem : Name(stem[n]) = f)]

\* Names as they are; one file for two names that differ in case, of agents there are or
\* that were removed; and decomposed.
Plain == {World(names, minted, Files([n \in with |-> n]), FALSE) :
             names \in SUBSET {"bob", "CI", "ci"}, minted \in {{}, {"bob"}},
             with \in SUBSET {"bob", "CI", "gone"}}
CaseBlind == {World(names, {}, [f \in {Name(listed)} |-> Doc(last)], FALSE) :
                 names \in SUBSET {"CI", "ci"}, listed \in {"CI", "ci"}, last \in {"CI", "ci"}}
Decomposing == {World(names, {}, [f \in {Name("decomposed")} |-> Doc(last)], FALSE) :
                   names \in {{"composed"}, {"composed", "decomposed"}},
                   last \in {"composed", "decomposed"}}
\* A file system that keeps the forms of a name apart, with what removed agents left.
Leftover == {World(names, {}, Files([n \in with |-> n]), FALSE) :
                names \in SUBSET Forms, with \in SUBSET Forms}
TornFile == {World({"bob", "CI"}, {}, [f \in {Name("bob"), Name("CI")} |->
                                         IF f = Name("bob") THEN Torn ELSE Doc("CI")], FALSE)}

\* One agent whose writes are held to a glob, its reads to a regex.
Pieces == {<<"a">>, <<"/">>, <<".">>, <<"*">>, <<"*", "*">>, <<"?">>, <<"[", "!", "a", "]">>,
           <<"[", "]", "a", "]">>, <<"[", "a">>, <<"\\">>}
Patterns == Pieces \cup {p \o q : p, q \in Pieces} \cup
            {p \o q \o r : p, q, r \in Pieces \ {<<".">>, <<"[", "a">>, <<"[", "]", "a", "]">>, <<"\\">>}} \cup
            {<<"/", "a", "/", "*", "*">>, <<"a", "/", "*", "/", "a">>, <<"a", "/", ".", ".", "/", "*">>}
Held(p) == [s \in {Name("git")} |->
               <<[tools |-> {"write"}, policies |-> {[arg |-> "path", regex |-> FALSE, pattern |-> p]}],
                 [tools |-> {"read", "write"},
                  policies |-> {[arg |-> "path", regex |-> TRUE, pattern |-> {<<"a">>}]}]>>]
Globs == {World({"eve"}, {}, [f \in {Name("eve")} |-> [owner |-> Name("eve"), permissions |-> Held(p)]], w) :
             p \in Patterns, w \in BOOLEAN}

StateWorlds == Plain \cup CaseBlind \cup Decomposing \cup Leftover \cup TornFile
MCWorlds == StateWorlds \cup Globs

Paths == UNION {[1 .. k -> {"a", "/", "."}] : k \in 0 .. 4} \cup
         {<<"a", "\\", "a">>, <<"a", "\\", ".", ".">>, <<"/", "a", "/", ".", ".">>,
          <<"/", "a", "/", "a", "/", "a">>, <<"a", "/", "a", "/", "a">>, <<"\\">>, <<"[", "a">>, <<"]">>}
NoArguments == [a \in {} |-> <<>>]
MCCalls(w) ==
    {[server |-> s, tool |-> "write", arguments |-> NoArguments] : s \in {"git", "fs", "removed"}} \cup
    IF "eve" \notin DOMAIN w.agents THEN {}
    ELSE {[server |-> "git", tool |-> t, arguments |-> [a \in {"path"} |-> v]] :
             t \in {"write"}, v \in Paths} \cup
         {[server |-> "git", tool |-> "read", arguments |-> [a \in {"path"} |-> v]] :
             v \in {<<"a">>, <<"/">>}}
================================================================================
