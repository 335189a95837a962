--------------------------------- MODULE Gateway --------------------------------
(***************************************************************************)
(* A tool call through the gateway: authentication against config.json,    *)
(* the agent's policy, the search for the server that has the tool, the    *)
(* permission check, the call and its audit record - while `holm` commands *)
(* rewrite config.json and the policies, other requests reload them, and   *)
(* servers come and go.                                                    *)
(*                                                                         *)
(* Names are reused, ids and keys are not: a bcrypt hash is represented by *)
(* its key, and an id or a key is minted once.  A grant is what the policy *)
(* says to the one tool call of the model: "match" allows it, with "other" *)
(* the server is listed and the call is still refused.                     *)
(***************************************************************************)
EXTENDS Naturals, FiniteSets

CONSTANTS
    Agents, Servers,    \* names
    AgentIds, ServerIds, Keys,
    Calls,      \* tool calls in flight at one time
    None,
    CacheMax,   \* _auth_cache_max
    MaxEdits    \* bound: holm commands and hand edits

ASSUME NoneIsNothing ==
    None \notin Agents \cup Servers \cup AgentIds \cup ServerIds \cup Keys
                \cup [id : AgentIds, key : Keys]
ASSUME BoundsAreNaturals == CacheMax \in Nat \ {0} /\ MaxEdits \in Nat

VARIABLES
    config,     \* config.json
    policies,   \* policies/<agent id>.json
    given,      \* (ghost) what was granted, and neither revoked nor removed since
    holm,       \* what the running holm command still has to write
    used,       \* ids and keys minted so far
    mem,        \* the daemon's config
    cache,      \* _auth_cache: key -> agent name
    table,      \* server name -> the id its running process was started with
    call,       \* the tool calls
    edits

diskVars == <<config, policies, given, holm, used, edits>>
vars == <<diskVars, mem, cache, table, call>>

\* ok is FALSE while the file cannot be loaded.
Agent == [id : AgentIds, key : Keys]
Config == [agents : [Agents -> Agent \cup {None}],
           servers : [Servers -> ServerIds \cup {None}], ok : BOOLEAN]
Grants == {"none", "other", "match"}

Rest == [agents |-> {}, servers |-> {}]
Removal(agents, servers) ==
    IF agents = {} THEN Rest ELSE [agents |-> agents, servers |-> servers]

AgentIdsOf(c) == {c.agents[n].id : n \in {m \in Agents : c.agents[m] # None}}
KeysOf(c) == {c.agents[n].key : n \in {m \in Agents : c.agents[m] # None}}
ServerIdsOf(c) == {c.servers[s] : s \in Servers} \ {None}

\* id is the agent that authenticated.  engine and listed are the two readings of
\* its policy: the grants the check will go by, and the servers the search goes
\* through; names, todo, down and cur are the search's other variables.  lost: the
\* process awaited has gone.  granted, answered, silent, sid and ran are remembered
\* for the properties: the servers that agent was granted at some time since, those
\* that answered and, in the end, did not, the id the check was for and the id of
\* the process that ran the call.
NoRecord == [agent |-> None, server |-> None, decision |-> "none"]
NoCall == [pc |-> "idle", name |-> None, id |-> None, engine |-> {}, listed |-> {},
           names |-> [s \in Servers |-> None], todo |-> {}, down |-> {}, cur |-> None,
           lost |-> FALSE, record |-> NoRecord,
           granted |-> {}, answered |-> {}, silent |-> {}, sid |-> None,
           ran |-> None]
Pcs == {"idle", "dispatch", "loaded", "listing", "waiting", "calling", "done"}
Record == [agent : AgentIds \cup {None}, server : ServerIds \cup {None},
           decision : {"none", "allowed", "denied", "error"}]
Call == [pc : Pcs, name : Agents \cup {None}, id : AgentIds \cup {None},
         engine : SUBSET ServerIds, listed : SUBSET ServerIds,
         names : [Servers -> ServerIds \cup {None}], todo : SUBSET ServerIds,
         down : SUBSET Servers, cur : Servers \cup {None}, lost : BOOLEAN,
         record : Record, granted : SUBSET ServerIds,
         answered : SUBSET Servers, silent : SUBSET Servers,
         sid : ServerIds \cup {None}, ran : ServerIds \cup {None}]
Active(r) == call[r].pc \notin {"idle", "done"}

\* What the files grant now to the agent with that id, as long as it is one.
GrantedNow(c, p, a) == {i \in ServerIds : a \in AgentIdsOf(c) /\ p[a][i] = "match"}

Init ==
    /\ config \in {c \in Config :
          /\ c.ok
          /\ \A m, n \in Agents : m # n /\ c.agents[m] # None /\ c.agents[n] # None =>
                c.agents[m].id # c.agents[n].id /\ c.agents[m].key # c.agents[n].key
          /\ \A s, t \in Servers : s # t /\ c.servers[s] # None => c.servers[s] # c.servers[t]}
    /\ policies \in {p \in [AgentIds -> [ServerIds -> Grants]] :
          \A a \in AgentIds, i \in ServerIds :
             p[a][i] # "none" => a \in AgentIdsOf(config) /\ i \in ServerIdsOf(config)}
    /\ given = {g \in AgentIds \X ServerIds : policies[g[1]][g[2]] # "none"}
    /\ holm = Rest
    /\ used = AgentIdsOf(config) \cup KeysOf(config) \cup ServerIdsOf(config)
    /\ mem = config
    /\ cache = [k \in Keys |-> None]
    /\ table = [s \in Servers |-> None]
    /\ call = [r \in Calls |-> NoCall]
    /\ edits = 0

--------------------------------------------------------------------------------
(* holm commands, one at a time.  Each write is one atomic replacement.    *)

\* The calls in flight see what the files grant now.
Watch ==
    call' = [r \in Calls |->
        IF Active(r)
          THEN [call[r] EXCEPT !.granted = @ \cup GrantedNow(config', policies', call[r].id)]
          ELSE call[r]]

Command ==
    /\ config.ok
    /\ holm = Rest
    /\ edits < MaxEdits
    /\ edits' = edits + 1
    /\ Watch
    /\ UNCHANGED <<mem, cache, table>>

\* (mutant) An id is new when no agent has it.
AddAgent_FreeId(n, a, k) ==
    /\ config.agents[n] = None
    /\ a \notin AgentIdsOf(config) /\ k \notin used
    /\ config' = [config EXCEPT !.agents[n] = [id |-> a, key |-> k]]
    /\ used' = used \cup {a, k}
    /\ UNCHANGED <<policies, given, holm>>
    /\ Command

AddAgent(n, a, k) ==
    /\ config.agents[n] = None
    /\ {a, k} \cap used = {}
    /\ config' = [config EXCEPT !.agents[n] = [id |-> a, key |-> k]]
    /\ used' = used \cup {a, k}
    /\ UNCHANGED <<policies, given, holm>>
    /\ Command

\* The id stays, and the policy with it.
RotateKey(n, k) ==
    /\ config.agents[n] # None
    /\ k \notin used
    /\ config' = [config EXCEPT !.agents[n].key = k]
    /\ used' = used \cup {k}
    /\ UNCHANGED <<policies, given, holm>>
    /\ Command

\* config.json first, then the agent's policy file is unlinked.
RemoveAgent(n) ==
    /\ config.agents[n] # None
    /\ config' = [config EXCEPT !.agents[n] = None]
    /\ holm' = Removal({config.agents[n].id}, ServerIds)
    /\ given' = {g \in given : g[1] # config.agents[n].id}
    /\ UNCHANGED <<policies, used>>
    /\ Command

AddServer(s, i) ==
    /\ config.servers[s] = None
    /\ i \notin used
    /\ config' = [config EXCEPT !.servers[s] = i]
    /\ used' = used \cup {i}
    /\ UNCHANGED <<policies, given, holm>>
    /\ Command

\* The agents remove_server takes a grant from.
Holders(i) == {a \in AgentIdsOf(config) : policies[a][i] # "none"}

\* config.json first, then every policy with a grant on the server.
RemoveServer(s) ==
    /\ config.servers[s] # None
    /\ config' = [config EXCEPT !.servers[s] = None]
    /\ holm' = Removal(Holders(config.servers[s]), {config.servers[s]})
    /\ given' = {g \in given : g[2] # config.servers[s]}
    /\ UNCHANGED <<policies, used>>
    /\ Command

\* `holm grant` and `holm revoke`.
SetGrant(n, s, g) ==
    /\ config.agents[n] # None
    /\ config.servers[s] # None
    /\ policies[config.agents[n].id][config.servers[s]] # g
    /\ policies' = [policies EXCEPT ![config.agents[n].id][config.servers[s]] = g]
    /\ LET pair == <<config.agents[n].id, config.servers[s]>>
       IN  given' = IF g = "none" THEN given \ {pair} ELSE given \cup {pair}
    /\ UNCHANGED <<config, used, holm>>
    /\ Command

\* `holm revoke` with the id of a server that is gone.
RevokeOrphan(n, i) ==
    /\ config.agents[n] # None
    /\ i \notin ServerIdsOf(config)
    /\ policies[config.agents[n].id][i] # "none"
    /\ policies' = [policies EXCEPT ![config.agents[n].id][i] = "none"]
    /\ UNCHANGED <<config, given, used, holm>>
    /\ Command

Cut(a, servers) ==
    policies' = [policies EXCEPT ![a] = [i \in ServerIds |-> IF i \in servers THEN "none" ELSE @[i]]]

\* (mutant) The policies of a server's holders are rewritten empty.
CutPolicy_Whole(a) ==
    /\ a \in holm.agents
    /\ Cut(a, ServerIds)
    /\ holm' = Removal(holm.agents \ {a}, holm.servers)
    /\ UNCHANGED <<config, given, used, edits, mem, cache, table>>
    /\ Watch

\* The next policy of a removal.  An unlink that fails is passed over.
CutPolicy(a) ==
    /\ a \in holm.agents
    /\ \/ Cut(a, holm.servers)
       \/ a \notin AgentIdsOf(config) /\ UNCHANGED policies
    /\ holm' = Removal(holm.agents \ {a}, holm.servers)
    /\ UNCHANGED <<config, given, used, edits, mem, cache, table>>
    /\ Watch

\* The command is killed between two writes, or a policy cannot be rewritten.
HolmDies ==
    /\ holm # Rest
    /\ holm' = Rest
    /\ UNCHANGED <<config, policies, given, used, edits, mem, cache, table, call>>

\* A hand edit that does not load, and its repair.
HandEdit ==
    /\ config.ok => edits < MaxEdits
    /\ edits' = IF config.ok THEN edits + 1 ELSE edits
    /\ config' = [config EXCEPT !.ok = ~ @]
    /\ UNCHANGED <<policies, given, holm, used, mem, cache, table, call>>

--------------------------------------------------------------------------------
(* The daemon, apart from the calls.                                       *)

\* The supervisor or the control plane reloads.
Reload ==
    /\ mem # config
    /\ mem' = config
    /\ UNCHANGED <<diskVars, cache, table, call>>

\* A reconcile starts a server, or its process goes away: stopped, or lost.
ServerUp(s) ==
    /\ mem.ok
    /\ mem.servers[s] # None
    /\ table[s] = None
    /\ table' = [table EXCEPT ![s] = mem.servers[s]]
    /\ UNCHANGED <<diskVars, mem, cache, call>>

ServerDown(s) ==
    /\ table[s] # None
    /\ table' = [table EXCEPT ![s] = None]
    /\ call' = [r \in Calls |->
          IF Active(r) /\ call[r].cur = s THEN [call[r] EXCEPT !.lost = TRUE] ELSE call[r]]
    /\ UNCHANGED <<diskVars, mem, cache>>

--------------------------------------------------------------------------------
(* A call.                                                                 *)

\* (mutant) A cached key is good for as long as its agent exists.
CacheHit_AnyKey(k) == cache[k] # None /\ config.agents[cache[k]] # None

\* The cache is trusted only while the agent has the same stored hash.
CacheHit(k) ==
    /\ cache[k] # None
    /\ config.agents[cache[k]] # None
    /\ config.agents[cache[k]].key = k

Holder(k) == {n \in Agents : config.agents[n] # None /\ config.agents[n].key = k}

\* The agent of a token, with the configuration just reloaded.
Resolved(k) ==
    IF ~ config.ok THEN {}
    ELSE IF CacheHit(k) THEN {cache[k]} ELSE Holder(k)

Cached == {k \in Keys : cache[k] # None}

\* (mutant) The cache grows with every key.
Remember_Unbounded(k, n) == cache' = [cache EXCEPT ![k] = n]

\* The name is cached, in place of the entry used longest ago.
Remember(k, n) ==
    IF CacheHit(k) \/ Cardinality(Cached \ {k}) < CacheMax
      THEN cache' = [cache EXCEPT ![k] = n]
      ELSE \E old \in Cached \ {k} : cache' = [cache EXCEPT ![k] = n, ![old] = None]

\* 401: the key is nobody's, or the configuration does not load.
Unauthorized(r, k) ==
    /\ ~ Active(r)
    /\ mem' = config
    /\ Resolved(k) = {}
    /\ cache' = IF config.ok THEN [cache EXCEPT ![k] = None] ELSE cache
    /\ call' = [call EXCEPT ![r] = NoCall]
    /\ UNCHANGED <<diskVars, table>>

\* The request goes on under the name of its agent.
Authenticate(r, k) ==
    /\ ~ Active(r)
    /\ mem' = config
    /\ \E n \in Resolved(k) :
          /\ Remember(k, n)
          /\ call' = [call EXCEPT ![r] =
                [NoCall EXCEPT !.pc = "dispatch", !.name = n, !.id = config.agents[n].id,
                    !.granted = GrantedNow(config, policies, config.agents[n].id)]]
    /\ UNCHANGED <<diskVars, table>>

IdOf(s) == IF s = None THEN None ELSE mem.servers[s]

\* The servers the policy lists, by the names they had when it was read.
Granted(q) == {s \in Servers : q.names[s] \in q.listed}

\* The audit record of a call that ends with this verdict on this server.  It
\* looks the names up again; a configuration that does not load raises there.
Recorded(q, server, decision) ==
    IF ~ mem.ok THEN NoRecord
    ELSE [agent |-> IF mem.agents[q.name] = None THEN None ELSE mem.agents[q.name].id,
          server |-> IdOf(server), decision |-> decision]

End(r, q, server, decision) ==
    call' = [call EXCEPT ![r] =
        [NoCall EXCEPT !.pc = "done", !.record = Recorded(q, server, decision),
                       !.ran = q.ran, !.cur = server,
                       !.silent = Granted(q) \ q.answered]]

\* (mutant) A server that is not running is passed over.
Unreachable_Ignored(q, ids) == {}

\* The names of those ids, for ids the configuration still has.
Unreachable(q, ids) == {s \in Servers : q.names[s] \in ids}

\* _resolve_tool_server up to its next await: on to a granted server that runs,
\* in whatever order the policy has them, or the end of the list.
Search(r, q) ==
    LET silent == {i \in q.todo : \A s \in Servers : q.names[s] = i => table[s] = None}
        down == q.down \cup Unreachable(q, silent)
    IN  \/ \E s \in Servers, skip \in SUBSET silent :
              /\ q.names[s] \in q.todo \ silent
              /\ call' = [call EXCEPT ![r] =
                    [q EXCEPT !.pc = "listing", !.cur = s, !.lost = FALSE,
                              !.todo = @ \ (skip \cup {q.names[s]}),
                              !.down = @ \cup Unreachable(q, skip)]]
        \/ /\ q.todo = silent
           /\ IF down = {} THEN End(r, q, None, "denied")
              ELSE End(r, q, IF Cardinality(down) = 1 THEN CHOOSE s \in down : TRUE ELSE None,
                       "error")

\* load_policy reads the agent's file.  Without one there is nothing granted.
PolicyOf(n) == policies[mem.agents[n].id]

\* _call_tool_for_agent loads the policy it will check with ...
Load(r) ==
    /\ call[r].pc = "dispatch"
    /\ LET q == call[r] IN
       IF ~ mem.ok THEN End(r, q, None, "error")
       ELSE IF mem.agents[q.name] = None THEN End(r, q, None, "denied")
       ELSE call' = [call EXCEPT ![r] =
               [q EXCEPT !.pc = "loaded",
                         !.engine = {i \in ServerIds : PolicyOf(q.name)[i] = "match"}]]
    /\ UNCHANGED <<diskVars, mem, cache, table>>

\* ... and _resolve_tool_server loads it again, up to its first await.
Resolve(r) ==
    /\ call[r].pc = "loaded"
    /\ LET q == call[r]
           listed == {i \in ServerIds : PolicyOf(q.name)[i] # "none"}
       IN  Search(r, [q EXCEPT !.listed = listed, !.todo = listed, !.names = mem.servers])
    /\ UNCHANGED <<diskVars, mem, cache, table>>

\* The server answers, without the tool.
ListAnswers(r) ==
    /\ call[r].pc = "listing"
    /\ Search(r, [call[r] EXCEPT !.cur = None, !.answered = @ \cup {call[r].cur}])
    /\ UNCHANGED <<diskVars, mem, cache, table>>

ListFails(r) ==
    /\ call[r].pc = "listing"
    /\ Search(r, [call[r] EXCEPT !.cur = None, !.down = @ \cup {call[r].cur}])
    /\ UNCHANGED <<diskVars, mem, cache, table>>

\* (mutant) Being listed in the policy is enough.
Permitted_Listed(q, i) == i \in q.listed

\* check_permission, on the id the configuration has for the name now.
Permitted(q, i) == i \in q.engine

\* The server has the tool.  It may have gone since it answered.
Found(r) ==
    /\ call[r].pc = "listing"
    /\ LET q == [call[r] EXCEPT !.answered = @ \cup {call[r].cur}]
       IN  IF table[q.cur] = None THEN End(r, q, q.cur, "error")
           ELSE IF ~ mem.ok THEN End(r, q, q.cur, "error")
           ELSE IF ~ Permitted(q, IdOf(q.cur)) THEN End(r, q, q.cur, "denied")
           ELSE call' = [call EXCEPT ![r] =
                    [q EXCEPT !.pc = "waiting", !.sid = IdOf(q.cur), !.lost = FALSE]]
    /\ UNCHANGED <<diskVars, mem, cache, table>>

\* (mutant) The call goes to whatever process has the name by then.
Send_ByName(r) ==
    /\ call[r].pc = "waiting"
    /\ table[call[r].cur] # None
    /\ call' = [call EXCEPT ![r].pc = "calling", ![r].ran = table[call[r].cur]]
    /\ UNCHANGED <<diskVars, mem, cache, table>>

\* The session lock is the call's, and the process still has its session.
Send(r) ==
    /\ call[r].pc = "waiting"
    /\ ~ call[r].lost
    /\ call' = [call EXCEPT ![r].pc = "calling", ![r].ran = table[call[r].cur]]
    /\ UNCHANGED <<diskVars, mem, cache, table>>

\* The result, the server's error, or "not reachable".
CallOver(r) ==
    /\ \/ call[r].pc = "calling"
       \/ call[r].pc = "waiting" /\ call[r].lost
    /\ End(r, call[r], call[r].cur, "allowed")
    /\ UNCHANGED <<diskVars, mem, cache, table>>

\* The client has gone: no decision is recorded.
Disconnect(r) ==
    /\ Active(r)
    /\ call' = [call EXCEPT ![r] = NoCall]
    /\ UNCHANGED <<diskVars, mem, cache, table>>
--------------------------------------------------------------------------------
HolmNext ==
    \/ \E n \in Agents :
          \/ RemoveAgent(n)
          \/ \E k \in Keys : RotateKey(n, k) \/ \E a \in AgentIds : AddAgent(n, a, k)
          \/ \E i \in ServerIds : RevokeOrphan(n, i)
          \/ \E s \in Servers, g \in Grants : SetGrant(n, s, g)
    \/ \E s \in Servers : RemoveServer(s) \/ \E i \in ServerIds : AddServer(s, i)
    \/ \E a \in AgentIds : CutPolicy(a)
    \/ HolmDies
    \/ HandEdit

CallNext(r) ==
    \/ \E k \in Keys : Unauthorized(r, k) \/ Authenticate(r, k)
    \/ Load(r) \/ ListAnswers(r) \/ ListFails(r) \/ Found(r)
    \/ Send(r) \/ CallOver(r) \/ Disconnect(r)

\* There is no await between the two readings: no other step of the daemon comes in
\* between, but a command's may.
AtAwait == \A r \in Calls : call[r].pc # "loaded"
DaemonNext ==
    \/ Reload
    \/ \E s \in Servers : ServerUp(s) \/ ServerDown(s)
    \/ \E r \in Calls : CallNext(r)

Next ==
    \/ HolmNext
    \/ AtAwait /\ DaemonNext
    \/ \E r \in Calls : Resolve(r)

Spec == Init /\ [][Next]_vars
--------------------------------------------------------------------------------
(* Correctness.                                                            *)

\* Type correctness of the files, the daemon's copies and the calls.
TypeOK ==
    /\ config \in Config /\ mem \in Config
    /\ policies \in [AgentIds -> [ServerIds -> Grants]]
    /\ holm \in [agents : SUBSET AgentIds, servers : SUBSET ServerIds]
    /\ used \subseteq AgentIds \cup Keys \cup ServerIds
    /\ cache \in [Keys -> Agents \cup {None}]
    /\ table \in [Servers -> ServerIds \cup {None}]
    /\ Cardinality(Cached) <= CacheMax
    /\ call \in [Calls -> Call]
    /\ given \subseteq AgentIds \X ServerIds
    /\ edits \in 0 .. MaxEdits

\* "The old one stops working immediately" (config.py:515), and a removed agent's
\* does: a key authenticates exactly as the agent config.json gives it to at that
\* moment, whatever the cache remembers of agents rotated, removed and added again
\* under their names.
AuthenticatesTheHolder ==
    [][\A r \in Calls, k \in Keys :
          Authenticate(r, k) => config.agents[call'[r].name] # None
                                /\ config.agents[call'[r].name].key = k]_vars

\* A call runs on a server that was granted, itself, to the very agent that
\* authenticated, at some time since: whatever was revoked, and whoever has taken
\* the name of either, before it or while it was under way.  It is the check that
\* does this (gateway.py:314-316), although agent, policy, process and id are looked
\* up by name at different awaits.  Only once the agent or the server has been
\* removed may a call still under way be checked for its namesake.
OnlyWhatIsGranted ==
    \A r \in Calls :
        LET q == call[r] IN
        q.id \in AgentIdsOf(config) /\ q.ran \in ServerIdsOf(config) => q.ran \in q.granted

\* "not found" would report an outage as a policy denial (gateway.py:260-262): a
\* call denied before any check was made, of an agent that has grants, has asked
\* every granted server the configuration names, and each has answered.
OutageIsNotDenial ==
    \A r \in Calls :
        /\ call[r].pc = "done"
        /\ call[r].record.decision = "denied"
        /\ call[r].cur = None
        => call[r].silent = {}

\* "a grant that outlived either side would silently attach to whatever took the
\* name next" (docs/concepts/permissions.mdx:66-67): what the policies say to the
\* agents and servers of config.json is what was granted to them and on them, no
\* more, though a removal was killed half-way or could not unlink a policy and
\* the grants it left are still on the disk, and no less, whatever else was removed.
GrantsAsGiven ==
    \A a \in AgentIdsOf(config), i \in ServerIdsOf(config) :
        policies[a][i] # "none" <=> <<a, i>> \in given

\* "Every tool call the gateway evaluates produces one DecisionEvent"
\* (events.py:3): a call that a server ran, and was not abandoned, has its record.
EveryCallRecorded ==
    \A r \in Calls : call[r].pc = "done" /\ call[r].ran # None =>
        call[r].record.decision = "allowed"
================================================================================
