------------------------------ MODULE GrantMigration ---------------------------
(***************************************************************************)
(* What the two migration steps make of a 0.1.x state, and how the gateway *)
(* then decides: m0001 moves grants from names to ids, m0002 takes the key *)
(* hashes out of the keyring.                                              *)
(*                                                                         *)
(* A stem is the name of a policy file without .json: <<"name", n>> in     *)
(* schema 0, an id after it.  A policy document is its owner (agent_name,  *)
(* or agent_id) and the permissions, keyed by server names or ids.  The    *)
(* engine (Migration) is reduced to what it can do to a step: drop it,     *)
(* swap it in, or, after two faults, swap in a part and run it again.      *)
(***************************************************************************)
EXTENDS Permissions

CONSTANTS
    Worlds,     \* 0.1.x states: [agents, servers, policies, windows, keyrings]
    Nfc, Nfd,   \* the two canonical forms of a name
    Torn,       \* a document that is not JSON
    Calls(_),   \* what is asked for in a world: [server, tool, arguments]
    None,
    MaxParts    \* bound: swaps that stop half-way and are redone

ASSUME PartsAreNatural == MaxParts \in Nat

Name(n) == <<"name", n>>
IsId(stem) == stem[1] # "name"

\* What a canonical form is: a form of the same text, and the same for all its forms.
ASSUME FormsAreForms ==
    /\ DOMAIN Nfd = DOMAIN Nfc /\ None \notin DOMAIN Nfc
    /\ \A n \in DOMAIN Nfc :
          /\ {Nfc[n], Nfd[n]} \subseteq DOMAIN Nfc
          /\ Nfc[Nfc[n]] = Nfc[n] /\ Nfc[Nfd[n]] = Nfc[n]
          /\ Nfd[Nfc[n]] = Nfd[n] /\ Nfd[Nfd[n]] = Nfd[n]

\* An id that is there was minted for its owner alone; 0.1.x kept the hashes in the
\* keyring and named the policy files by agents.
ASSUME WorldsAreStates ==
    \A w \in Worlds :
        /\ DOMAIN w.agents \subseteq DOMAIN Nfc
        /\ \A n \in DOMAIN w.agents : w.agents[n] \in [id : {None, <<"minted", n>>}, hash : {None}]
        /\ \A s \in DOMAIN w.servers : w.servers[s] \in [id : {None, <<"minted", s>>}]
        /\ DOMAIN w.policies \subseteq {Name(n) : n \in DOMAIN Nfc}
        /\ \A f \in DOMAIN w.policies : w.policies[f] # Torn =>
              w.policies[f].owner \in {None} \cup {Name(n) : n \in DOMAIN Nfc}
        /\ w.keyrings \subseteq {"open", "locked"} /\ w.windows \in BOOLEAN

\* The mark of what is not there is no id.
ASSUME NoneIsNoId ==
    \A w \in Worlds : None \notin UNION {{<<"minted", n>>, <<"agt", n>>} : n \in DOMAIN w.agents}

\* A server's permissions are a list, a glob and a value are sequences of characters.
ASSUME RulesAreRules ==
    \A w \in Worlds : \A f \in DOMAIN w.policies : w.policies[f] # Torn =>
        \A s \in DOMAIN w.policies[f].permissions :
            LET entries == w.policies[f].permissions[s]
            IN  /\ Len(entries) \in Nat /\ DOMAIN entries = 1 .. Len(entries)
                /\ \A i \in DOMAIN entries : \A p \in entries[i].policies :
                      ~ p.regex => p.pattern \in Seq(STRING)
ASSUME ValuesAreValues ==
    \A w \in Worlds : \A call \in Calls(w) : \A a \in DOMAIN call.arguments :
        call.arguments[a] \in Seq(Alphabet)

VARIABLES
    world,      \* the 0.1.x state this one comes from
    live,       \* config.json and policies/: [agents, servers, policies, aside]
    marker,     \* migrations/version
    staged,     \* the copy a step works on, or NoCopy
    todo,       \* the policy files it has still to look at
    keyring,    \* "open" or "locked"; it has an entry for every agent
    readable,   \* whether it was open when the second step last ran
    said,       \* what `holm migrate` said
    asked,      \* the call that was decided
    parts

vars == <<world, live, marker, staged, todo, keyring, readable, said, asked, parts>>

\* No copy is being worked on.
NoCopy == <<>>

Init ==
    /\ world \in Worlds
    /\ live = [agents |-> world.agents, servers |-> world.servers,
               policies |-> world.policies, aside |-> {}]
    /\ marker = 0
    /\ staged = NoCopy /\ todo = {}
    /\ keyring \in world.keyrings
    /\ readable = FALSE
    /\ said = "none" /\ asked = None
    /\ parts = 0

(***************************************************************************)
(* m0001_id_keyed_grants.                                                  *)
(***************************************************************************)

\* (mutant) Only what is in the file counts.
Backfill_None(entities, prefix) == entities

\* _backfill: an id derived from the name for whoever has none.
Backfill(entities, prefix) ==
    [n \in DOMAIN entities |->
        [entities[n] EXCEPT !.id = IF @ = None THEN <<prefix, n>> ELSE @]]

\* (mutant) The forms of a name are compared as bytes.
ResolveAgent_Bytes(agents, n) == IF n \in DOMAIN agents THEN n ELSE None

\* _resolve_agent.
ResolveAgent(agents, n) ==
    LET forms == {Nfc[n], Nfd[n]} \cap DOMAIN agents
    IN  IF n \in DOMAIN agents THEN n
        ELSE IF Cardinality(forms) = 1 THEN CHOOSE f \in forms : TRUE ELSE None

\* (mutant) The file name is taken at its word.
Claims_FileName(agents, doc, agent) == FALSE

\* Whether the document names another agent than its file does, both of them real.
Claims(agents, doc, agent) ==
    doc.owner # None /\ ResolveAgent(agents, doc.owner[2]) \notin {None, agent}

\* The grants for servers there are, by id.
ById(servers, permissions) ==
    [id \in {servers[s].id : s \in {s \in DOMAIN servers : Name(s) \in DOMAIN permissions}} |->
        permissions[Name(CHOOSE s \in DOMAIN servers : servers[s].id = id)]]

Without(policies, stem) == [f \in DOMAIN policies \ {stem} |-> policies[f]]

\* (mutant) What cannot be converted stays where it is.
SetAside_Left(state, stem) == state

SetAside(state, stem) ==
    [state EXCEPT !.policies = Without(@, stem), !.aside = @ \cup {stem}]

\* (mutant) The step is taken to run once.
Rekeyed_Once(state, stem) ==
    LET agent == ResolveAgent(state.agents, stem[2])
        doc == state.policies[stem]
    IN  IF IsId(stem) \/ agent = None THEN SetAside(state, stem)
        ELSE IF Claims(state.agents, doc, agent) THEN SetAside(state, stem)
        ELSE LET id == state.agents[agent].id
             IN  [state EXCEPT !.policies =
                     [f \in {id} \cup (DOMAIN @ \ {stem}) |->
                         IF f = id THEN [owner |-> id,
                                         permissions |-> ById(state.servers, doc.permissions)]
                         ELSE @[f]]]

\* _rekey_policy, of a document that can be read.
Rekeyed(state, stem) ==
    LET agent == ResolveAgent(state.agents, stem[2])
        doc == state.policies[stem]
    IN  IF IsId(stem) THEN state
        ELSE IF agent = None THEN SetAside(state, stem)
        ELSE IF Claims(state.agents, doc, agent) THEN SetAside(state, stem)
        ELSE LET id == state.agents[agent].id
             IN  [state EXCEPT !.policies =
                     [f \in {id} \cup (DOMAIN @ \ {stem}) |->
                         IF f = id THEN [owner |-> id,
                                         permissions |-> ById(state.servers, doc.permissions)]
                         ELSE @[f]]]

StartRekey ==
    /\ marker = 0 /\ staged = NoCopy
    /\ staged' = [live EXCEPT !.agents = Backfill(@, "agt"), !.servers = Backfill(@, "srv")]
    /\ todo' = DOMAIN live.policies
    /\ said' = "none"
    /\ UNCHANGED <<world, live, marker, keyring, readable, asked, parts>>

\* read_policy raises for a torn document; the engine drops the copy.
RekeyPolicy(stem) ==
    /\ stem \in todo
    /\ IF ~ IsId(stem) /\ staged.policies[stem] = Torn /\ ResolveAgent(staged.agents, stem[2]) # None
         THEN staged' = NoCopy /\ todo' = {} /\ said' = "failed"
         ELSE staged' = Rekeyed(staged, stem) /\ todo' = todo \ {stem} /\ UNCHANGED said
    /\ UNCHANGED <<world, live, marker, keyring, readable, asked, parts>>

(***************************************************************************)
(* m0002_key_hash_in_config.                                               *)
(***************************************************************************)

\* The entry under an agent's name is its hash; a keyring that is locked raises,
\* and the agent is skipped.
CarriedHashes(agents) ==
    [n \in DOMAIN agents |->
        [agents[n] EXCEPT !.hash = IF @ = None /\ keyring = "open" THEN n ELSE @]]

CarryHashes ==
    /\ marker = 1 /\ staged = NoCopy
    /\ staged' = [live EXCEPT !.agents = CarriedHashes(@)]
    /\ readable' = (keyring = "open")
    /\ said' = IF \E n \in DOMAIN live.agents : staged'.agents[n].hash = None
               THEN "unlock it and run again" ELSE said
    /\ UNCHANGED <<world, live, marker, todo, keyring, asked, parts>>

(***************************************************************************)
(* The engine and the user.                                                *)
(***************************************************************************)

\* The swap and its marker.
SwapIn ==
    /\ staged # NoCopy /\ todo = {}
    /\ live' = staged /\ marker' = marker + 1
    /\ staged' = NoCopy
    /\ UNCHANGED <<world, todo, keyring, readable, said, asked, parts>>

\* The swap ends after config.json, or after policies/ too, and its staging copy
\* with it: the step will be handed what it made.
SwapInPart ==
    /\ staged # NoCopy /\ todo = {}
    /\ parts < MaxParts /\ parts' = parts + 1
    /\ \/ live' = [staged EXCEPT !.policies = live.policies, !.aside = live.aside]
       \/ live' = staged
    /\ staged' = NoCopy
    /\ UNCHANGED <<world, marker, todo, keyring, readable, said, asked>>

\* The process dies; the next run starts from the live state.
Crash ==
    /\ staged # NoCopy
    /\ staged' = NoCopy /\ todo' = {}
    /\ UNCHANGED <<world, live, marker, keyring, readable, said, asked, parts>>

\* `holm migrate` of a state that is at the current schema.
AlreadyCurrent ==
    /\ marker = 2 /\ asked = None
    /\ said' = "already"
    /\ UNCHANGED <<world, live, marker, staged, todo, keyring, readable, asked, parts>>

Unlock ==
    /\ keyring = "locked" /\ asked = None
    /\ keyring' = "open"
    /\ UNCHANGED <<world, live, marker, staged, todo, readable, said, asked, parts>>

\* A call with agent n's key: the hash in the config, the policy under the agent's
\* id, the server's id.
Decides(n, call) ==
    LET agent == live.agents[n]
    IN  /\ agent.hash = n
        /\ agent.id \in DOMAIN live.policies
        /\ call.server \in DOMAIN live.servers
        /\ CheckPermission(live.policies[agent.id].permissions, live.servers[call.server].id,
                           call.tool, call.arguments, world.windows)

\* One call is asked for: deciding it changes nothing.
Ask(n, call) ==
    /\ marker = 2 /\ asked = None
    /\ n \in DOMAIN live.agents
    /\ asked' = [agent |-> n, call |-> call, allowed |-> Decides(n, call)]
    /\ UNCHANGED <<world, live, marker, staged, todo, keyring, readable, said, parts>>

Next ==
    \/ StartRekey \/ CarryHashes \/ SwapIn \/ SwapInPart \/ Crash \/ AlreadyCurrent \/ Unlock
    \/ \E stem \in todo : RekeyPolicy(stem)
    \/ \E n \in DOMAIN live.agents, call \in Calls(world) : Ask(n, call)

Spec == Init /\ [][Next]_vars
--------------------------------------------------------------------------------
(* Correctness.                                                            *)

\* Type correctness; from schema 1 on, everybody has an id of their own.
TypeOK ==
    /\ marker \in 0 .. 2
    /\ marker >= 1 => \A n \in DOMAIN live.agents :
          live.agents[n].id # None /\ \A m \in DOMAIN live.agents \ {n} :
                                        live.agents[m].id # live.agents[n].id
    /\ staged = NoCopy => todo = {}
    /\ todo \subseteq DOMAIN world.policies \cup {live.agents[n].id : n \in DOMAIN live.agents}
    /\ DOMAIN live.agents = DOMAIN world.agents /\ DOMAIN live.servers = DOMAIN world.servers
    /\ \A n \in DOMAIN live.agents : live.agents[n].hash \in {n, None}
    /\ keyring \in {"open", "locked"} /\ readable \in BOOLEAN
    /\ parts \in 0 .. MaxParts

\* What 0.1.x's file f grants, decided on names.
GrantedBy(f, call) ==
    /\ world.policies[f] # Torn
    /\ CheckPermission(world.policies[f].permissions, Name(call.server), call.tool,
                       call.arguments, world.windows)

SameText(m, n) == Nfc[m] = Nfc[n]

\* The agents a name may be meant for: the one that has it, or else those that have a
\* canonical form of it.
MeantBy(n) ==
    IF n \in DOMAIN world.agents THEN {n} ELSE {Nfc[n], Nfd[n]} \cap DOMAIN world.agents

\* "The filename says one agent, the document says another, and both are real ...
\* Guessing here would hand one agent's grants to a different principal"
\* (m0001_id_keyed_grants.py:148-154): what an agent may do, a file under its name
\* granted that was not written for another agent there is. What an agent that is gone
\* had written there, or one whose name is two agents', is taken for the file's agent's.
NoTransferAmongAgents ==
    asked # None /\ asked.allowed =>
        \E f \in DOMAIN world.policies :
           /\ SameText(f[2], asked.agent)
           /\ GrantedBy(f, asked.call)
           /\ LET owner == world.policies[f].owner
              IN  owner # None =>
                     \/ MeantBy(owner[2]) = {asked.agent}
                     \/ Cardinality(MeantBy(owner[2])) # 1

\* The file has the agent's very name, or another form of it, the agent's own being the
\* only canonical form of it an agent has; and no second file is taken for the agent's.
OnlyFileOf(n, f) ==
    /\ SameText(f[2], n)
    /\ \/ f[2] = n
       \/ f[2] \notin DOMAIN world.agents /\ {Nfc[n], Nfd[n]} \cap DOMAIN world.agents = {n}
    /\ \A g \in DOMAIN world.policies \ {f} :
          SameText(g[2], n) => g[2] \in DOMAIN world.agents \ {n}

\* "every live grant goes to `unmigrated/`" (m0001_id_keyed_grants.py:129-134): what
\* an agent's own file granted on a server that is still there, it may do after the
\* steps, however often they were redone, if the keyring could be read.
StillGranted ==
    asked # None /\ readable /\ asked.call.server \in DOMAIN world.servers
    /\ (\E f \in DOMAIN world.policies :
          /\ OnlyFileOf(asked.agent, f)
          /\ GrantedBy(f, asked.call)
          /\ world.policies[f].owner = Name(asked.agent))
    => asked.allowed

\* "The step must not finish with name-keyed documents still in `policies/`"
\* (m0001_id_keyed_grants.py:69-72): each of them is an agent's now, or set aside.
NoneLooksCurrent ==
    marker >= 1 =>
        /\ \A f \in DOMAIN live.policies :
              /\ IsId(f) /\ live.policies[f].owner = f
              /\ \E n \in DOMAIN live.agents : live.agents[n].id = f
              /\ DOMAIN live.policies[f].permissions \subseteq
                    {live.servers[s].id : s \in DOMAIN live.servers}
        /\ \A f \in DOMAIN world.policies \ live.aside :
              \E n \in DOMAIN live.agents :
                 SameText(f[2], n) /\ live.agents[n].id \in DOMAIN live.policies

\* The globs that let the call through, with the values they matched.
Matched ==
    IF asked = None \/ ~ asked.allowed THEN {}
    ELSE LET entries == live.policies[live.agents[asked.agent].id]
                            .permissions[live.servers[asked.call.server].id]
             first == CHOOSE i \in DOMAIN entries :
                          /\ asked.call.tool \in entries[i].tools
                          /\ \A j \in 1 .. i - 1 : asked.call.tool \notin entries[j].tools
         IN  {<<p.pattern, asked.call.arguments[p.arg]>> : p \in
                 {p \in entries[first].policies : ~ p.regex /\ p.arg \in DOMAIN asked.call.arguments}}

Levels(s) == Cardinality({i \in DOMAIN s : s[i] \in Separators(world.windows)})

\* "`*` and `?` match within one path level and `**` matches across levels"
\* (docs/concepts/permissions.mdx:44): without `**` and a class that lists a
\* separator, a pattern matches values of its own depth only.
KeepsToItsLevel ==
    \A m \in Matched : LET p == m[1] IN
        /\ \A i \in 1 .. Len(p) - 1 : ~ (p[i] = "*" /\ p[i + 1] = "*")
        /\ \A i \in DOMAIN p : p[i] = "[" =>
              \A j \in i + 1 .. ClassEnd(p, i) : p[j] \notin Separators(world.windows)
        => Levels(m[2]) = Levels(p)

\* The directory a path leads to: a stack of segments, `..` taking one off.
Enter(path, segment) ==
    IF segment \in {<<>>, <<".">>} THEN path
    ELSE IF segment = <<".", ".">> /\ path # <<>> /\ path[Len(path)] # segment
         THEN SubSeq(path, 1, Len(path) - 1)
    ELSE Append(path, segment)
Resolved(s) ==
    LET walk[i \in 0 .. Len(s)] ==
            IF i = 0 THEN [path |-> <<>>, segment |-> <<>>]
            ELSE IF s[i] \in Separators(world.windows)
                 THEN [path |-> Enter(walk[i - 1].path, walk[i - 1].segment), segment |-> <<>>]
            ELSE [walk[i - 1] EXCEPT !.segment = Append(@, s[i])]
    IN  Enter(walk[Len(s)].path, walk[Len(s)].segment)

\* The folder a pattern names before its first wildcard.
Folder(p) ==
    LET ends == {i \in DOMAIN p : /\ p[i] \in Separators(world.windows)
                                  /\ \A j \in 1 .. i : p[j] \notin {"*", "?", "["}}
    IN  SubSeq(p, 1, IF ends = {} THEN 0 ELSE CHOOSE i \in ends : \A j \in ends : j <= i)

\* "so a path pattern cannot be walked out of" (docs/concepts/permissions.mdx:44):
\* what a pattern without a `..` segment matches leads to a place under its folder.
StaysUnder ==
    \A m \in Matched : ~ HasDotDot(m[1]) =>
        LET folder == Resolved(Folder(m[1]))
            place == Resolved(m[2])
        IN  /\ Len(folder) <= Len(place)
            /\ SubSeq(place, 1, Len(folder)) = folder

\* "a user who migrates while the keyring is locked can unlock it and run again,
\* and the skipped agents will be picked up then"
\* (m0002_key_hash_in_config.py:20-23): they are, when the run says it is done.
PickedUpLater ==
    said = "already" /\ keyring = "open" => \A n \in DOMAIN live.agents : live.agents[n].hash = n
================================================================================
