------------------------------ MODULE Gateway_proofs ---------------------------
(***************************************************************************)
(* What a tool call may do, for any number of agents, servers, keys and    *)
(* calls, any size of the authentication cache and any number of edits.    *)
(***************************************************************************)
EXTENDS Gateway, FiniteSetTheorems, TLAPS

\* A call under way has its agent's name, and from its first await on a server.
Named ==
    \A r \in Calls : Active(r) =>
        /\ call[r].name \in Agents
        /\ call[r].pc \notin {"dispatch", "loaded"} => call[r].cur \in Servers

TypeInv == TypeOK /\ IsFiniteSet(Cached) /\ Named

\* A step with which a call under way stays one, of the same agent.
GoesOn(r) == Active(r) /\ call'[r].name = call[r].name /\ call'[r].id = call[r].id

\* The policy that a call is about to read again is that of an agent of the daemon's
\* copy, which no other step of the daemon has replaced since the first reading.
Loaded == \A r \in Calls : call[r].pc = "loaded" => mem.agents[call[r].name] # None

\* Ids and keys in use have been minted, and an id of config.json is of one name.
HasId(c, n, a) == c.agents[n] # None /\ c.agents[n].id = a
Distinct(names) == \A s, t \in Servers : names[s] # None /\ names[s] = names[t] => s = t
Minted ==
    /\ AgentIdsOf(config) \subseteq used
    /\ ServerIdsOf(config) \cup ServerIdsOf(mem) \subseteq used
    /\ \A s \in Servers : table[s] # None => table[s] \in used
OneName ==
    /\ \A m, n \in Agents, a \in AgentIds : HasId(config, m, a) /\ HasId(config, n, a) => m = n
    /\ Distinct(config.servers) /\ Distinct(mem.servers)

\* While a server is in config.json it has its name also in the daemon's copy and
\* among the processes, as an agent has that authenticated a call.
Stay ==
    \A s \in Servers, i \in ServerIdsOf(config) :
        /\ mem.servers[s] = i => config.servers[s] = i
        /\ table[s] = i => config.servers[s] = i /\ mem.servers[s] = i
Own(q) ==
    /\ q.id \in used
    /\ q.id \in AgentIdsOf(config) => HasId(config, q.name, q.id) /\ HasId(mem, q.name, q.id)

IdInv == Minted /\ OneName /\ Stay /\ \A r \in Calls : Active(r) => Own(call[r])

\* A call remembers all that could have been granted to its agent since it began, is
\* checked by that, and from the check on its process is the one it was checked for.
Remembered(q) ==
    /\ GrantedNow(config, policies, q.id) \subseteq q.granted
    /\ q.pc # "dispatch" /\ q.id \in AgentIdsOf(config) => q.engine \subseteq q.granted
    /\ q.pc \in {"waiting", "calling"} => q.sid \in q.engine
    /\ q.pc = "waiting" /\ ~ q.lost =>
          table[q.cur] # None /\ (table[q.cur] \in ServerIdsOf(config) => table[q.cur] = q.sid)
    /\ q.pc # "calling" => q.ran = None
    /\ q.ran # None => q.ran \in used /\ (q.ran \in ServerIdsOf(config) => q.ran = q.sid)
Watched == \A r \in Calls : IF Active(r) THEN Remembered(call[r]) ELSE call[r].id = None

\* What was ever granted is on ids that were minted, and what a removal has still to
\* cut is not between two sides that config.json has.
GivenInv ==
    /\ GrantsAsGiven
    /\ \A a \in AgentIds, i \in ServerIds :
          policies[a][i] # "none" \/ <<a, i>> \in given => a \in used /\ i \in used
    /\ \A a \in holm.agents, i \in holm.servers :
          ~ (a \in AgentIdsOf(config) /\ i \in ServerIdsOf(config))
--------------------------------------------------------------------------------
(* Types.                                                                  *)

\* The ids and the grants of a well-typed configuration are well-typed.
LEMMA IdTypes ==
    ASSUME NEW c \in Config
    PROVE  /\ AgentIdsOf(c) \subseteq AgentIds
           /\ KeysOf(c) \subseteq Keys
           /\ ServerIdsOf(c) \subseteq ServerIds
           /\ \A p, n : GrantedNow(c, p, n) \subseteq ServerIds
<1>1. \A n \in Agents : c.agents[n] # None =>
            c.agents[n].id \in AgentIds /\ c.agents[n].key \in Keys
  BY DEF Config, Agent
<1>2. \A s \in Servers : c.servers[s] \in ServerIds \cup {None}
  BY DEF Config
<1>3. AgentIdsOf(c) \subseteq AgentIds /\ KeysOf(c) \subseteq Keys
  BY <1>1 DEF AgentIdsOf, KeysOf
<1>4. ServerIdsOf(c) \subseteq ServerIds
  BY <1>2 DEF ServerIdsOf
<1>5. \A p, n : GrantedNow(c, p, n) \subseteq ServerIds
  BY DEF GrantedNow
<1> QED
  BY <1>3, <1>4, <1>5

\* A call that is not under way.
LEMMA NoCallTypes == NoCall \in Call
BY DEF NoCall, NoRecord, Grants, Call, Record, Pcs

\* Before any edit everything is typed, and the cache is empty.
LEMMA InitTypes == Init => TypeInv
<1> SUFFICES ASSUME Init PROVE TypeInv
  OBVIOUS
<1>1. config \in Config /\ mem \in Config
  BY DEF Init
<1>2. policies \in [AgentIds -> [ServerIds -> Grants]] /\ holm = Rest
  BY DEF Init
<1>3. used \subseteq AgentIds \cup Keys \cup ServerIds
  BY <1>1, IdTypes DEF Init
<1>4. Cached = {}
  BY DEF Init, Cached
<1>5. IsFiniteSet(Cached) /\ Cardinality(Cached) <= CacheMax
  BY <1>4, FS_EmptySet, BoundsAreNaturals
<1>6. call \in [Calls -> Call] /\ Named
  BY NoCallTypes DEF Init, Named, Active, NoCall
<1>7. cache \in [Keys -> Agents \cup {None}] /\ table \in [Servers -> ServerIds \cup {None}]
  BY DEF Init
<1>8. edits = 0 /\ given \subseteq AgentIds \X ServerIds
  BY DEF Init
<1>9. edits \in 0 .. MaxEdits
  BY <1>8, BoundsAreNaturals
<1> QED
  BY <1>1, <1>2, <1>3, <1>5, <1>6, <1>7, <1>8, <1>9 DEF TypeInv, TypeOK, Rest

\* What the files grant is added to a call, and nothing else of it changes.
LEMMA WatchTypes ==
    ASSUME TypeInv, config' \in Config, Watch
    PROVE  call' \in [Calls -> Call] /\ Named'
<1>1. \A r \in Calls : GrantedNow(config', policies', call[r].id) \subseteq ServerIds
  BY IdTypes
<1>2. \A r \in Calls : call[r] \in Call
  BY DEF TypeInv, TypeOK
<1>3. ASSUME NEW r \in Calls, Active(r)
      PROVE  /\ call'[r] = [call[r] EXCEPT !.granted =
                     @ \cup GrantedNow(config', policies', call[r].id)]
             /\ call'[r] \in Call
             /\ call'[r].pc = call[r].pc /\ call'[r].name = call[r].name
             /\ call'[r].cur = call[r].cur
  BY <1>1, <1>2, <1>3 DEF Watch, Call
<1>4. ASSUME NEW r \in Calls, ~ Active(r) PROVE call'[r] = call[r]
  BY <1>4 DEF Watch
<1>5. call' \in [Calls -> Call]
  BY <1>2, <1>3, <1>4 DEF Watch
<1>6. Named'
  BY <1>3, <1>4 DEF TypeInv, Named, Active
<1> QED
  BY <1>5, <1>6

\* What a holm command may write.
DiskTypes ==
    /\ config \in Config
    /\ policies \in [AgentIds -> [ServerIds -> Grants]]
    /\ holm \in [agents : SUBSET AgentIds, servers : SUBSET ServerIds]
    /\ used \subseteq AgentIds \cup Keys \cup ServerIds
    /\ given \subseteq AgentIds \X ServerIds

\* Of what is typed and watched, a command leaves the rest as it is.
LEMMA WriteTypes ==
    ASSUME TypeInv, DiskTypes', Watch, UNCHANGED <<mem, cache, table>>,
           edits' \in 0 .. MaxEdits
    PROVE  TypeInv'
<1>1. call' \in [Calls -> Call] /\ Named'
  BY WatchTypes DEF DiskTypes
<1>2. Cached' = Cached
  BY DEF Cached
<1> QED
  BY <1>1, <1>2 DEF TypeInv, TypeOK, DiskTypes

LEMMA CommandTypes == ASSUME TypeInv, DiskTypes', Command PROVE TypeInv'
<1>1. edits' \in 0 .. MaxEdits
  BY BoundsAreNaturals DEF Command, TypeInv, TypeOK
<1> QED
  BY <1>1, WriteTypes DEF Command

\* A removal takes what there is to take.
LEMMA RemovalTypes ==
    ASSUME NEW as \in SUBSET AgentIds, NEW is \in SUBSET ServerIds
    PROVE  Removal(as, is) \in [agents : SUBSET AgentIds, servers : SUBSET ServerIds]
BY DEF Removal, Rest

\* Every write of a command is of the right type.
LEMMA HolmTypes == ASSUME TypeInv, HolmNext PROVE TypeInv'
<1> USE DEF TypeInv, TypeOK
<1>1. ASSUME NEW n \in Agents, RemoveAgent(n) PROVE TypeInv'
  <2>1. config.agents[n].id \in AgentIds
    BY <1>1 DEF RemoveAgent, Config, Agent
  <2>2. config' \in Config
    BY <1>1 DEF RemoveAgent, Config
  <2>3. holm' \in [agents : SUBSET AgentIds, servers : SUBSET ServerIds]
    <3>1. {config.agents[n].id} \in SUBSET AgentIds /\ ServerIds \in SUBSET ServerIds
      BY <2>1
    <3>2. Removal({config.agents[n].id}, ServerIds)
            \in [agents : SUBSET AgentIds, servers : SUBSET ServerIds]
      BY <3>1, RemovalTypes
    <3> QED
      BY <1>1, <3>2 DEF RemoveAgent
  <2>4. DiskTypes'
    BY <1>1, <2>2, <2>3 DEF RemoveAgent, DiskTypes
  <2> QED
    BY <1>1, <2>4, CommandTypes DEF RemoveAgent
<1>2. ASSUME NEW n \in Agents, NEW k \in Keys, RotateKey(n, k) PROVE TypeInv'
  <2>1. config.agents[n] \in Agent
    BY <1>2 DEF RotateKey, Config
  <2>2. config' \in Config
    BY <1>2, <2>1 DEF RotateKey, Config, Agent
  <2>3. DiskTypes'
    BY <1>2, <2>2 DEF RotateKey, DiskTypes
  <2> QED
    BY <1>2, <2>3, CommandTypes DEF RotateKey
<1>3. ASSUME NEW n \in Agents, NEW a \in AgentIds, NEW k \in Keys, AddAgent(n, a, k)
      PROVE  TypeInv'
  <2>1. config' \in Config
    BY <1>3 DEF AddAgent, Config, Agent
  <2>2. DiskTypes'
    BY <1>3, <2>1 DEF AddAgent, DiskTypes
  <2> QED
    BY <1>3, <2>2, CommandTypes DEF AddAgent
<1>4. ASSUME NEW n \in Agents, NEW i \in ServerIds, RevokeOrphan(n, i) PROVE TypeInv'
  <2>1. policies' \in [AgentIds -> [ServerIds -> Grants]]
    BY <1>4 DEF RevokeOrphan, Grants
  <2>2. DiskTypes'
    BY <1>4, <2>1 DEF RevokeOrphan, DiskTypes
  <2> QED
    BY <1>4, <2>2, CommandTypes DEF RevokeOrphan
<1>5. ASSUME NEW n \in Agents, NEW s \in Servers, NEW g \in Grants, SetGrant(n, s, g)
      PROVE  TypeInv'
  <2>1. policies' \in [AgentIds -> [ServerIds -> Grants]]
    BY <1>5 DEF SetGrant
  <2>2. config.agents[n].id \in AgentIds /\ config.servers[s] \in ServerIds
    BY <1>5 DEF SetGrant, Config, Agent
  <2>3. given' \subseteq AgentIds \X ServerIds
    BY <1>5, <2>2 DEF SetGrant
  <2>4. DiskTypes'
    BY <1>5, <2>1, <2>3 DEF SetGrant, DiskTypes
  <2> QED
    BY <1>5, <2>4, CommandTypes DEF SetGrant
<1>6. ASSUME NEW s \in Servers, RemoveServer(s) PROVE TypeInv'
  <2>1. config.servers[s] \in ServerIds
    BY <1>6 DEF RemoveServer, Config
  <2>2. config' \in Config
    BY <1>6 DEF RemoveServer, Config
  <2>3. Holders(config.servers[s]) \subseteq AgentIds
    BY IdTypes DEF Holders
  <2>4. holm' \in [agents : SUBSET AgentIds, servers : SUBSET ServerIds]
    BY <1>6, <2>1, <2>3, RemovalTypes DEF RemoveServer
  <2>5. DiskTypes'
    BY <1>6, <2>2, <2>4 DEF RemoveServer, DiskTypes
  <2> QED
    BY <1>6, <2>5, CommandTypes DEF RemoveServer
<1>7. ASSUME NEW s \in Servers, NEW i \in ServerIds, AddServer(s, i) PROVE TypeInv'
  <2>1. config' \in Config
    BY <1>7 DEF AddServer, Config
  <2>2. DiskTypes'
    BY <1>7, <2>1 DEF AddServer, DiskTypes
  <2> QED
    BY <1>7, <2>2, CommandTypes DEF AddServer
<1>8. ASSUME NEW a \in AgentIds, CutPolicy(a) PROVE TypeInv'
  <2>1. policies' \in [AgentIds -> [ServerIds -> Grants]]
    BY <1>8 DEF CutPolicy, Cut, Grants
  <2>2. holm' \in [agents : SUBSET AgentIds, servers : SUBSET ServerIds]
    BY <1>8, RemovalTypes DEF CutPolicy
  <2>3. DiskTypes'
    BY <1>8, <2>1, <2>2 DEF CutPolicy, DiskTypes
  <2> QED
    BY <1>8, <2>3, WriteTypes DEF CutPolicy
<1>9. CASE HolmDies
  BY <1>9 DEF HolmDies, Rest, Cached, Named, Active
<1>10. CASE HandEdit
  <2>1. config' \in Config
    BY <1>10 DEF HandEdit, Config
  <2>2. edits' \in 0 .. MaxEdits
    BY <1>10, BoundsAreNaturals DEF HandEdit
  <2> QED
    BY <1>10, <2>1, <2>2 DEF HandEdit, Cached, Named, Active
<1> QED
  BY <1>1, <1>2, <1>3, <1>4, <1>5, <1>6, <1>7, <1>8, <1>9, <1>10 DEF HolmNext

\* The audit record is of an agent and a server, or has none.
LEMMA RecordTypes ==
    ASSUME TypeInv, NEW q \in Call, q.name \in Agents, NEW server \in Servers \cup {None},
           NEW decision \in {"allowed", "denied", "error"}
    PROVE  Recorded(q, server, decision) \in Record
<1>1. mem \in Config
  BY DEF TypeInv, TypeOK
<1>2. IdOf(server) \in ServerIds \cup {None}
  BY <1>1, NoneIsNothing DEF IdOf, Config
<1>3. mem.agents[q.name] # None => mem.agents[q.name].id \in AgentIds
  BY <1>1 DEF Config, Agent
<1> QED
  BY <1>2, <1>3 DEF Recorded, Record, NoRecord

\* A call that ends keeps its record and its run.
LEMMA EndTypes ==
    ASSUME TypeInv, NEW r \in Calls, NEW q \in Call, q.name \in Agents,
           NEW server \in Servers \cup {None},
           NEW decision \in {"allowed", "denied", "error"}, End(r, q, server, decision)
    PROVE  /\ call' \in [Calls -> Call] /\ Named'
           /\ call'[r].pc = "done" /\ call'[r].id = None
           /\ \A o \in Calls \ {r} : call'[o] = call[o]
<1> DEFINE over == [NoCall EXCEPT !.pc = "done", !.record = Recorded(q, server, decision),
                                  !.ran = q.ran, !.cur = server,
                                  !.silent = Granted(q) \ q.answered]
<1>1. call \in [Calls -> Call]
  BY DEF TypeInv, TypeOK
<1>2. /\ Recorded(q, server, decision) \in Record
      /\ q.ran \in ServerIds \cup {None}
      /\ Granted(q) \ q.answered \subseteq Servers
  BY RecordTypes DEF Call, Granted
<1>3. over \in Call /\ over.pc = "done" /\ over.id = None
  <2>1. "done" \in Pcs /\ server \in Servers \cup {None}
    BY DEF Pcs
  <2>2. over \in Call
    BY <1>2, <2>1, NoCallTypes DEF Call
  <2> QED
    BY <2>2, NoCallTypes DEF NoCall
<1>4. call' = [call EXCEPT ![r] = over]
  BY DEF End
<1> HIDE DEF over
<1>5. call' \in [Calls -> Call] /\ call'[r] = over /\ \A o \in Calls \ {r} : call'[o] = call[o]
  BY <1>1, <1>3, <1>4
<1>6. Named'
  BY <1>3, <1>5 DEF TypeInv, Named, Active
<1> QED
  BY <1>3, <1>5, <1>6

\* Of another step of a call: it goes on, as one that is typed and named.
LEMMA StepTypes ==
    ASSUME TypeInv, NEW r \in Calls, NEW q \in Call, q.name \in Agents,
           q.pc \notin {"dispatch", "loaded"} => q.cur \in Servers, call' = [call EXCEPT ![r] = q]
    PROVE  call' \in [Calls -> Call] /\ Named' /\ call'[r] = q
           /\ \A o \in Calls \ {r} : call'[o] = call[o]
<1>1. call \in [Calls -> Call]
  BY DEF TypeInv, TypeOK
<1>2. call' \in [Calls -> Call] /\ call'[r] = q /\ \A o \in Calls \ {r} : call'[o] = call[o]
  BY <1>1
<1> QED
  BY <1>2 DEF TypeInv, Named, Active

\* The search ends the call, or is on at a server, with the policy it has read.
LEMMA SearchTypes ==
    ASSUME TypeInv, NEW r \in Calls, NEW q \in Call, q.name \in Agents, Search(r, q)
    PROVE  /\ call' \in [Calls -> Call] /\ Named'
           /\ \A o \in Calls \ {r} : call'[o] = call[o]
           /\ \/ call'[r].pc = "done" /\ call'[r].id = None
              \/ /\ call'[r].pc = "listing"
                 /\ call'[r].name = q.name /\ call'[r].id = q.id
                 /\ call'[r].engine = q.engine /\ call'[r].granted = q.granted
                 /\ call'[r].ran = q.ran
<1> DEFINE silent == {i \in q.todo : \A s \in Servers : q.names[s] = i => table[s] = None}
           down == q.down \cup Unreachable(q, silent)
<1>1. ASSUME NEW s \in Servers, NEW skip \in SUBSET silent,
             call' = [call EXCEPT ![r] =
                 [q EXCEPT !.pc = "listing", !.cur = s, !.lost = FALSE,
                           !.todo = @ \ (skip \cup {q.names[s]}),
                           !.down = @ \cup Unreachable(q, skip)]]
      PROVE  /\ call' \in [Calls -> Call] /\ Named'
             /\ \A o \in Calls \ {r} : call'[o] = call[o]
             /\ call'[r].pc = "listing"
             /\ call'[r].name = q.name /\ call'[r].id = q.id
             /\ call'[r].engine = q.engine /\ call'[r].granted = q.granted
             /\ call'[r].ran = q.ran
  <2> DEFINE on == [q EXCEPT !.pc = "listing", !.cur = s, !.lost = FALSE,
                             !.todo = @ \ (skip \cup {q.names[s]}),
                             !.down = @ \cup Unreachable(q, skip)]
  <2>1. Unreachable(q, skip) \subseteq Servers
    BY DEF Unreachable
  <2>2. /\ on \in Call /\ on.pc = "listing" /\ on.cur = s /\ on.name = q.name
        /\ on.id = q.id /\ on.engine = q.engine /\ on.granted = q.granted
        /\ on.ran = q.ran
    BY <2>1 DEF Call, Pcs
  <2>3. call' = [call EXCEPT ![r] = on]
    BY <1>1
  <2> HIDE DEF on
  <2> QED
    BY <2>2, <2>3, StepTypes
<1>2. ASSUME down = {}, End(r, q, None, "denied")
      PROVE  /\ call' \in [Calls -> Call] /\ Named'
             /\ \A o \in Calls \ {r} : call'[o] = call[o]
             /\ call'[r].pc = "done" /\ call'[r].id = None
  BY <1>2, EndTypes
<1>3. ASSUME down # {},
             End(r, q, IF Cardinality(down) = 1 THEN CHOOSE s \in down : TRUE ELSE None,
                 "error")
      PROVE  /\ call' \in [Calls -> Call] /\ Named'
             /\ \A o \in Calls \ {r} : call'[o] = call[o]
             /\ call'[r].pc = "done" /\ call'[r].id = None
  <2>1. down \subseteq Servers
    BY DEF Unreachable, Call
  <2>2. (CHOOSE s \in down : TRUE) \in down
    BY <1>3
  <2>3. (IF Cardinality(down) = 1 THEN CHOOSE s \in down : TRUE ELSE None)
            \in Servers \cup {None}
    BY <2>1, <2>2
  <2> QED
    BY <1>3, <2>3, EndTypes
<1> HIDE DEF down
<1>4. \/ \E s \in Servers, skip \in SUBSET silent :
            call' = [call EXCEPT ![r] =
                 [q EXCEPT !.pc = "listing", !.cur = s, !.lost = FALSE,
                           !.todo = @ \ (skip \cup {q.names[s]}),
                           !.down = @ \cup Unreachable(q, skip)]]
      \/ down = {} /\ End(r, q, None, "denied")
      \/ down # {} /\ End(r, q, IF Cardinality(down) = 1 THEN CHOOSE s \in down : TRUE
                                ELSE None, "error")
  BY DEF Search, down
<1> QED
  BY <1>1, <1>2, <1>3, <1>4

\* The cache never holds more than it may: a new name takes the place of an old one.
LEMMA RememberTypes ==
    ASSUME TypeInv, NEW k \in Keys, NEW n \in Agents, Remember(k, n)
    PROVE  /\ cache' \in [Keys -> Agents \cup {None}]
           /\ IsFiniteSet(Cached') /\ Cardinality(Cached') <= CacheMax
<1> DEFINE rest == Cached \ {k}
<1>1. /\ cache \in [Keys -> Agents \cup {None}]
      /\ IsFiniteSet(Cached) /\ Cardinality(Cached) <= CacheMax
  BY DEF TypeInv, TypeOK
<1>2. /\ IsFiniteSet(rest) /\ Cardinality(rest) <= Cardinality(Cached)
      /\ Cardinality(rest) \in Nat /\ Cardinality(Cached) \in Nat /\ CacheMax \in Nat
  <2>1. rest \in SUBSET Cached
    OBVIOUS
  <2> QED
    BY <1>1, <2>1, FS_Subset, FS_CardinalityType, BoundsAreNaturals
<1>3. n # None /\ k \notin rest
  BY NoneIsNothing
<1>4. CASE CacheHit(k)
  <2>1. cache' = [cache EXCEPT ![k] = n] /\ k \in Cached
    BY <1>4 DEF Remember, CacheHit, Cached
  <2>2. Cached' = Cached
    BY <1>1, <1>3, <2>1 DEF Cached
  <2> QED
    BY <1>1, <2>1, <2>2
<1>5. CASE ~ CacheHit(k) /\ Cardinality(rest) < CacheMax
  <2>1. cache' = [cache EXCEPT ![k] = n]
    BY <1>5 DEF Remember
  <2>2. Cached' = rest \cup {k}
    BY <1>1, <1>3, <2>1 DEF Cached
  <2>3. IsFiniteSet(rest \cup {k}) /\ Cardinality(rest \cup {k}) = Cardinality(rest) + 1
    BY <1>2, <1>3, FS_AddElement
  <2>4. Cardinality(Cached') <= CacheMax
    BY <1>2, <1>5, <2>2, <2>3
  <2> QED
    BY <1>1, <2>1, <2>2, <2>3, <2>4
<1>6. CASE ~ CacheHit(k) /\ ~ (Cardinality(rest) < CacheMax)
  <2>1. PICK old \in rest : cache' = [cache EXCEPT ![k] = n, ![old] = None]
    BY <1>6 DEF Remember
  <2> DEFINE kept == rest \ {old}
  <2>2. Cached' = kept \cup {k}
    BY <1>1, <1>3, <2>1 DEF Cached
  <2>3. IsFiniteSet(kept) /\ Cardinality(kept) = Cardinality(rest) - 1
    BY <1>2, <2>1, FS_RemoveElement
  <2>4. IsFiniteSet(kept \cup {k}) /\ Cardinality(kept \cup {k}) = Cardinality(kept) + 1
    BY <1>3, <2>3, FS_AddElement
  <2>5. Cardinality(Cached') <= CacheMax
    BY <1>1, <1>2, <2>2, <2>3, <2>4
  <2>6. old \in Keys
    BY <2>1 DEF Cached
  <2> QED
    BY <1>1, <2>1, <2>2, <2>4, <2>5, <2>6
<1> QED
  BY <1>4, <1>5, <1>6

\* A key is of an agent of config.json, which has that key there.
LEMMA ResolvedHolds ==
    ASSUME TypeInv, NEW k \in Keys, NEW n \in Resolved(k)
    PROVE  n \in Agents /\ config.ok /\ config.agents[n] # None /\ config.agents[n].key = k
BY NoneIsNothing DEF TypeInv, TypeOK, Resolved, CacheHit, Holder

\* What is left as it is by the steps of a call.
LEMMA QuietTypes ==
    ASSUME TypeInv, UNCHANGED <<diskVars, mem, cache, table>>,
           call' \in [Calls -> Call], Named'
    PROVE  TypeInv'
BY DEF TypeInv, TypeOK, diskVars, Cached

\* Every step of a call is of the right type.
LEMMA CallTypes ==
    ASSUME TypeInv, NEW r \in Calls, CallNext(r)
    PROVE  /\ TypeInv' /\ (call'[r].pc = "loaded" => Load(r))
           /\ \A o \in Calls \ {r} : call'[o] = call[o]
           /\ Active(r)' => GoesOn(r) \/ \E k \in Keys : Authenticate(r, k)
<1> DEFINE Keeps == /\ call' \in [Calls -> Call] /\ Named'
                    /\ call'[r].pc = "loaded" => Load(r)
                    /\ \A o \in Calls \ {r} : call'[o] = call[o]
                    /\ Active(r)' => GoesOn(r) \/ \E k \in Keys : Authenticate(r, k)
           q == call[r]
<1>0. q \in Call /\ mem \in Config
  BY DEF TypeInv, TypeOK
<1>1. ASSUME NEW k \in Keys, Unauthorized(r, k) PROVE Keeps /\ TypeInv'
  <2>1. cache' \in [Keys -> Agents \cup {None}] /\ Cached' \in SUBSET Cached
    BY <1>1 DEF Unauthorized, TypeInv, TypeOK, Cached
  <2>2. IsFiniteSet(Cached') /\ Cardinality(Cached') <= CacheMax
    <3>1. IsFiniteSet(Cached') /\ Cardinality(Cached') <= Cardinality(Cached)
      BY <2>1, FS_Subset DEF TypeInv
    <3>2. Cardinality(Cached') \in Nat /\ Cardinality(Cached) \in Nat /\ CacheMax \in Nat
      BY <3>1, FS_CardinalityType, BoundsAreNaturals DEF TypeInv
    <3> QED
      BY <3>1, <3>2 DEF TypeInv, TypeOK
  <2>3. Keeps
    <3>1. call' = [call EXCEPT ![r] = NoCall]
      BY <1>1 DEF Unauthorized
    <3> QED
      BY <3>1, NoCallTypes DEF TypeInv, TypeOK, Named, Active, NoCall
  <2> QED
    BY <1>1, <2>1, <2>2, <2>3 DEF Unauthorized, TypeInv, TypeOK, diskVars
<1>2. ASSUME NEW k \in Keys, Authenticate(r, k) PROVE Keeps /\ TypeInv'
  <2>1. PICK n \in Resolved(k) :
          /\ Remember(k, n)
          /\ call' = [call EXCEPT ![r] =
                [NoCall EXCEPT !.pc = "dispatch", !.name = n, !.id = config.agents[n].id,
                    !.granted = GrantedNow(config, policies, config.agents[n].id)]]
    BY <1>2 DEF Authenticate
  <2> DEFINE first == [NoCall EXCEPT !.pc = "dispatch", !.name = n, !.id = config.agents[n].id,
                           !.granted = GrantedNow(config, policies, config.agents[n].id)]
  <2>2. n \in Agents /\ config.agents[n].id \in AgentIds
    BY ResolvedHolds DEF TypeInv, TypeOK, Config, Agent
  <2>3. GrantedNow(config, policies, config.agents[n].id) \subseteq ServerIds
    BY IdTypes DEF TypeInv, TypeOK
  <2>4. first \in Call /\ first.pc = "dispatch" /\ first.name = n
    BY <2>2, <2>3, NoCallTypes DEF NoCall, Call, Pcs
  <2>5. call' = [call EXCEPT ![r] = first]
    BY <2>1
  <2> HIDE DEF first
  <2>6. Keeps
    BY <1>2, <2>2, <2>4, <2>5, StepTypes
  <2>7. /\ cache' \in [Keys -> Agents \cup {None}]
        /\ IsFiniteSet(Cached') /\ Cardinality(Cached') <= CacheMax
    BY <2>1, <2>2, RememberTypes
  <2> QED
    BY <1>2, <2>6, <2>7 DEF Authenticate, TypeInv, TypeOK, diskVars
<1>3. CASE Load(r)
  <2>1. q.name \in Agents
    BY <1>3 DEF Load, TypeInv, Named, Active
  <2>2. CASE ~ mem.ok \/ mem.agents[q.name] = None
    <3>1. \E d \in {"error", "denied"} : End(r, q, None, d)
      BY <1>3, <2>2 DEF Load
    <3>2. Keeps
      BY <1>0, <2>1, <3>1, EndTypes DEF Active
    <3> QED
      BY <1>3, <3>2, QuietTypes DEF Load
  <2>3. CASE mem.ok /\ mem.agents[q.name] # None
    <3> DEFINE read == [q EXCEPT !.pc = "loaded",
                           !.engine = {i \in ServerIds : PolicyOf(q.name)[i] = "match"}]
    <3>1. read \in Call /\ read.name = q.name /\ read.id = q.id /\ read.pc = "loaded"
      BY <1>0 DEF Call, Pcs
    <3>2. call' = [call EXCEPT ![r] = read]
      BY <1>3, <2>3 DEF Load
    <3> HIDE DEF read
    <3>3. Keeps
      <4>1. Active(r)
        BY <1>3 DEF Load, Active
      <4> QED
        BY <1>3, <2>1, <3>1, <3>2, <4>1, StepTypes DEF GoesOn
    <3> QED
      BY <1>3, <3>3, QuietTypes DEF Load
  <2> QED
    BY <2>2, <2>3
<1>4. CASE ListAnswers(r)
  <2> DEFINE on == [q EXCEPT !.cur = None, !.answered = @ \cup {q.cur}]
  <2>1. q.name \in Agents /\ q.cur \in Servers
    BY <1>4 DEF ListAnswers, TypeInv, Named, Active
  <2>2. on \in Call /\ on.name = q.name /\ on.id = q.id
    BY <1>0, <2>1 DEF Call
  <2>3. Search(r, on)
    BY <1>4 DEF ListAnswers
  <2>5. Active(r)
    BY <1>4 DEF ListAnswers, Active
  <2> HIDE DEF on
  <2>4. Keeps
    BY <2>1, <2>2, <2>3, <2>5, SearchTypes DEF Active, GoesOn
  <2> QED
    BY <1>4, <2>4, QuietTypes DEF ListAnswers
<1>5. CASE ListFails(r)
  <2> DEFINE on == [q EXCEPT !.cur = None, !.down = @ \cup {q.cur}]
  <2>1. q.name \in Agents /\ q.cur \in Servers
    BY <1>5 DEF ListFails, TypeInv, Named, Active
  <2>2. on \in Call /\ on.name = q.name /\ on.id = q.id
    BY <1>0, <2>1 DEF Call
  <2>3. Search(r, on)
    BY <1>5 DEF ListFails
  <2>5. Active(r)
    BY <1>5 DEF ListFails, Active
  <2> HIDE DEF on
  <2>4. Keeps
    BY <2>1, <2>2, <2>3, <2>5, SearchTypes DEF Active, GoesOn
  <2> QED
    BY <1>5, <2>4, QuietTypes DEF ListFails
<1>6. CASE Found(r)
  <2> DEFINE on == [q EXCEPT !.answered = @ \cup {q.cur}]
             sent == [on EXCEPT !.pc = "waiting", !.sid = IdOf(on.cur), !.lost = FALSE]
  <2>1. q.name \in Agents /\ q.cur \in Servers
    BY <1>6 DEF Found, TypeInv, Named, Active
  <2>2. on \in Call /\ on.name = q.name /\ on.id = q.id /\ on.cur = q.cur
    BY <1>0, <2>1 DEF Call
  <2>3. IdOf(on.cur) \in ServerIds \cup {None}
    BY <1>0, <2>1, <2>2, NoneIsNothing DEF IdOf, Config
  <2>4. /\ sent \in Call /\ sent.pc = "waiting" /\ sent.cur = q.cur
        /\ sent.name = q.name /\ sent.id = q.id
    BY <2>2, <2>3 DEF Call, Pcs
  <2>5. \/ \E decision \in {"allowed", "denied", "error"} : End(r, on, on.cur, decision)
        \/ call' = [call EXCEPT ![r] = sent]
    BY <1>6 DEF Found
  <2> HIDE DEF on, sent
  <2>6. Keeps
    <3>1. Active(r)
      BY <1>6 DEF Found, Active
    <3> QED
      BY <2>1, <2>2, <2>4, <2>5, <3>1, EndTypes, StepTypes DEF Active, GoesOn
  <2> QED
    BY <1>6, <2>6, QuietTypes DEF Found
<1>7. CASE Send(r)
  <2> DEFINE sent == [q EXCEPT !.pc = "calling", !.ran = table[q.cur]]
  <2>1. q.name \in Agents /\ q.cur \in Servers
    BY <1>7 DEF Send, TypeInv, Named, Active
  <2>2. /\ sent \in Call /\ sent.pc = "calling" /\ sent.cur = q.cur
        /\ sent.name = q.name /\ sent.id = q.id
    BY <1>0, <2>1 DEF Call, Pcs, TypeInv, TypeOK
  <2>3. call' = [call EXCEPT ![r] = sent]
    BY <1>0, <1>7 DEF Send, Call, TypeInv, TypeOK
  <2> HIDE DEF sent
  <2>4. Keeps
    <3>1. Active(r)
      BY <1>7 DEF Send, Active
    <3> QED
      BY <2>1, <2>2, <2>3, <3>1, StepTypes DEF Active, GoesOn
  <2> QED
    BY <1>7, <2>4, QuietTypes DEF Send
<1>8. CASE CallOver(r)
  <2>1. q.name \in Agents /\ q.cur \in Servers
    BY <1>8 DEF CallOver, TypeInv, Named, Active
  <2>2. End(r, q, q.cur, "allowed")
    BY <1>8 DEF CallOver
  <2>3. Keeps
    BY <1>0, <2>1, <2>2, EndTypes DEF Active
  <2> QED
    BY <1>8, <2>3, QuietTypes DEF CallOver
<1>9. CASE Disconnect(r)
  <2>1. call' = [call EXCEPT ![r] = NoCall]
    BY <1>9 DEF Disconnect
  <2>2. Keeps
    BY <2>1, NoCallTypes DEF TypeInv, TypeOK, Named, Active, NoCall
  <2> QED
    BY <1>9, <2>2, QuietTypes DEF Disconnect
<1> QED
  BY <1>1, <1>2, <1>3, <1>4, <1>5, <1>6, <1>7, <1>8, <1>9 DEF CallNext

\* The second reading of the policy, which no other step of the daemon comes before.
LEMMA ResolveTypes ==
    ASSUME TypeInv, Loaded, NEW r \in Calls, Resolve(r)
    PROVE  /\ TypeInv' /\ Loaded' /\ \A o \in Calls \ {r} : call'[o] = call[o]
           /\ Active(r)' => GoesOn(r)
<1> DEFINE q == call[r]
           listed == {i \in ServerIds : PolicyOf(q.name)[i] # "none"}
           read == [q EXCEPT !.listed = listed, !.todo = listed, !.names = mem.servers]
<1>1. q \in Call /\ mem \in Config /\ q.name \in Agents
  BY DEF Resolve, TypeInv, TypeOK, Named, Active
<1>2. read \in Call /\ read.name = q.name /\ read.id = q.id
  BY <1>1 DEF Call, Config
<1>3. Search(r, read)
  BY DEF Resolve
<1> HIDE DEF read
<1>4. /\ call' \in [Calls -> Call] /\ Named' /\ call'[r].pc \in {"done", "listing"}
      /\ \A o \in Calls \ {r} : call'[o] = call[o]
      /\ call'[r].pc = "listing" => call'[r].name = q.name /\ call'[r].id = q.id
  BY <1>1, <1>2, <1>3, SearchTypes
<1>5. UNCHANGED <<diskVars, mem, cache, table>>
  BY DEF Resolve
<1>6. Loaded'
  BY <1>4, <1>5 DEF Loaded
<1>7. Active(r)' => GoesOn(r)
  BY <1>4 DEF Active, GoesOn, Resolve
<1> QED
  BY <1>4, <1>5, <1>6, <1>7, QuietTypes

\* The daemon's reloads and its servers' comings and goings.
LEMMA DaemonTypes ==
    ASSUME TypeInv, Reload \/ \E s \in Servers : ServerUp(s) \/ ServerDown(s)
    PROVE  TypeInv'
<1>1. CASE Reload
  BY <1>1 DEF Reload, TypeInv, TypeOK, diskVars, Cached, Named, Active
<1>2. ASSUME NEW s \in Servers, ServerUp(s) PROVE TypeInv'
  <2>1. table' \in [Servers -> ServerIds \cup {None}]
    BY <1>2 DEF ServerUp, TypeInv, TypeOK, Config
  <2> QED
    BY <1>2, <2>1 DEF ServerUp, TypeInv, TypeOK, diskVars, Cached, Named, Active
<1>3. ASSUME NEW s \in Servers, ServerDown(s) PROVE TypeInv'
  <2>1. table' \in [Servers -> ServerIds \cup {None}]
    BY <1>3 DEF ServerDown, TypeInv, TypeOK
  <2>2. \A r \in Calls : /\ call'[r] \in Call
                         /\ call'[r].pc = call[r].pc /\ call'[r].name = call[r].name
                         /\ call'[r].cur = call[r].cur
    <3> SUFFICES ASSUME NEW r \in Calls
                 PROVE  /\ call'[r] \in Call
                        /\ call'[r].pc = call[r].pc /\ call'[r].name = call[r].name
                        /\ call'[r].cur = call[r].cur
      OBVIOUS
    <3>1. call[r] \in Call
      BY DEF TypeInv, TypeOK
    <3>2. call'[r] = call[r] \/ call'[r] = [call[r] EXCEPT !.lost = TRUE]
      BY <1>3 DEF ServerDown
    <3> QED
      BY <3>1, <3>2 DEF Call
  <2>3. call' \in [Calls -> Call]
    BY <1>3, <2>2 DEF ServerDown
  <2>4. Named'
    BY <2>2 DEF TypeInv, Named, Active
  <2> QED
    BY <1>3, <2>1, <2>3, <2>4 DEF ServerDown, TypeInv, TypeOK, diskVars, Cached
<1> QED
  BY <1>1, <1>2, <1>3

\* Between the two readings of a policy there is no step of the daemon's.
LEMMA StepKeepsLoaded ==
    ASSUME TypeInv, Loaded, Next, \A r \in Calls : ~ Resolve(r)
    PROVE  Loaded'
<1>1. CASE HolmNext
  <2>1. mem' = mem
    BY <1>1 DEF HolmNext, RemoveAgent, RotateKey, AddAgent, RevokeOrphan, SetGrant,
                RemoveServer, AddServer, CutPolicy, HolmDies, HandEdit, Command
  <2>2. Watch \/ call' = call
    BY <1>1 DEF HolmNext, RemoveAgent, RotateKey, AddAgent, RevokeOrphan, SetGrant,
                RemoveServer, AddServer, CutPolicy, HolmDies, HandEdit, Command
  <2>3. ASSUME NEW r \in Calls
        PROVE  call'[r].pc = call[r].pc /\ call'[r].name = call[r].name
    <3>1. call[r] \in Call
      BY DEF TypeInv, TypeOK
    <3> QED
      BY <2>2, <3>1 DEF Watch, Call
  <2> QED
    BY <2>1, <2>3 DEF Loaded
<1>2. CASE AtAwait /\ (Reload \/ \E s \in Servers : ServerUp(s) \/ ServerDown(s))
  <2>1. ASSUME NEW r \in Calls PROVE call'[r].pc = call[r].pc
    <3>1. call[r] \in Call
      BY DEF TypeInv, TypeOK
    <3> QED
      BY <1>2, <3>1 DEF Reload, ServerUp, ServerDown, Call
  <2> QED
    BY <1>2, <2>1 DEF Loaded, AtAwait
<1>3. ASSUME AtAwait, NEW r \in Calls, CallNext(r) PROVE Loaded'
  <2>1. call \in [Calls -> Call]
    BY DEF TypeInv, TypeOK
  <2>2. \A o \in Calls \ {r} : call'[o].pc # "loaded"
    <3>1. \A o \in Calls \ {r} : call'[o] = call[o]
      BY <1>3, CallTypes
    <3> QED
      BY <1>3, <3>1 DEF AtAwait
  <2>3. CASE Load(r)
    <3>1. /\ call'[r].pc = "loaded" =>
               mem.agents[call[r].name] # None /\ call'[r].name = call[r].name
          /\ mem' = mem
      <4>1. call[r] \in Call
        BY <2>1
      <4>2. mem' = mem
        BY <2>3 DEF Load
      <4>3. \A d : End(r, call[r], None, d) => call'[r].pc = "done"
        BY <2>1 DEF End, NoCall
      <4>4. CASE ~ mem.ok \/ mem.agents[call[r].name] = None
        BY <2>3, <4>2, <4>3, <4>4 DEF Load
      <4>5. CASE mem.ok /\ mem.agents[call[r].name] # None
        <5>1. call'[r] = [call[r] EXCEPT !.pc = "loaded",
                   !.engine = {i \in ServerIds : PolicyOf(call[r].name)[i] = "match"}]
          BY <2>1, <2>3, <4>5 DEF Load
        <5> QED
          BY <4>1, <4>2, <4>5, <5>1 DEF Call
      <4> QED
        BY <4>4, <4>5
    <3> QED
      BY <2>2, <3>1 DEF Loaded
  <2>4. CASE ~ Load(r)
    <3>1. call'[r].pc # "loaded"
      BY <1>3, <2>4, CallTypes
    <3> QED
      BY <2>2, <3>1 DEF Loaded
  <2> QED
    BY <2>3, <2>4
<1> QED
  BY <1>1, <1>2, <1>3 DEF Next, DaemonNext

LEMMA StepKeepsTypes == TypeInv /\ Loaded /\ [Next]_vars => TypeInv' /\ Loaded'
<1> SUFFICES ASSUME TypeInv, Loaded, [Next]_vars PROVE TypeInv' /\ Loaded'
  OBVIOUS
<1>1. CASE UNCHANGED vars
  BY <1>1 DEF vars, diskVars, TypeInv, TypeOK, Cached, Named, Active, Loaded
<1>2. CASE \E r \in Calls : Resolve(r)
  BY <1>2, ResolveTypes
<1>3. CASE Next /\ \A r \in Calls : ~ Resolve(r)
  <2>1. Loaded'
    BY <1>3, StepKeepsLoaded
  <2>2. TypeInv'
    BY <1>3, HolmTypes, DaemonTypes, CallTypes DEF Next, DaemonNext
  <2> QED
    BY <2>1, <2>2
<1> QED
  BY <1>1, <1>2, <1>3

LEMMA TypesHold == Spec => [](TypeInv /\ Loaded)
<1>1. Init => Loaded
  BY DEF Init, Loaded, NoCall
<1> QED
  BY <1>1, InitTypes, StepKeepsTypes, PTL DEF Spec

\* The files, the daemon's copies and the calls stay typed, and the cache within its
\* size, whatever is edited, reloaded, called or lost.
THEOREM GatewayTypes == Spec => []TypeOK
<1>1. TypeInv => TypeOK
  BY DEF TypeInv
<1> QED
  BY <1>1, TypesHold, PTL

--------------------------------------------------------------------------------
(* Who is served, and what for.                                            *)

\* A key authenticates the agent that holds it at that moment, whatever is cached.
THEOREM OnlyTheHolder == Spec => AuthenticatesTheHolder
<1> DEFINE Holds == \A r \in Calls, k \in Keys :
              Authenticate(r, k) => config.agents[call'[r].name] # None
                                    /\ config.agents[call'[r].name].key = k
<1>1. TypeInv => Holds
  <2> SUFFICES ASSUME TypeInv, NEW r \in Calls, NEW k \in Keys, Authenticate(r, k)
               PROVE  /\ config.agents[call'[r].name] # None
                      /\ config.agents[call'[r].name].key = k
    OBVIOUS
  <2>1. PICK n \in Resolved(k) : call' = [call EXCEPT ![r] =
                [NoCall EXCEPT !.pc = "dispatch", !.name = n, !.id = config.agents[n].id,
                    !.granted = GrantedNow(config, policies, config.agents[n].id)]]
    BY DEF Authenticate
  <2>2. call'[r].name = n
    BY <2>1 DEF TypeInv, TypeOK, NoCall
  <2> QED
    BY <2>2, ResolvedHolds
<1>2. TypeInv => [Holds]_vars
  BY <1>1
<1> QED
  BY <1>2, TypesHold, PTL DEF AuthenticatesTheHolder

--------------------------------------------------------------------------------
(* Names and ids.                                                          *)

\* The ids of a configuration are those its agents have.
LEMMA IdsAreHad ==
    ASSUME NEW c \in Config, NEW a
    PROVE  a \in AgentIdsOf(c) <=> \E n \in Agents : HasId(c, n, a)
BY DEF AgentIdsOf, HasId

\* Before any edit an id is of one name, and everybody goes by config.json.
LEMMA InitIds == Init => IdInv
<1> SUFFICES ASSUME Init PROVE IdInv
  OBVIOUS
<1>1. Minted
  BY DEF Init, Minted
<1>2. OneName
  BY DEF Init, OneName, HasId, Distinct
<1>3. Stay
  BY DEF Init, Stay, ServerIdsOf
<1>4. \A r \in Calls : ~ Active(r)
  BY DEF Init, Active, NoCall
<1> QED
  BY <1>1, <1>2, <1>3, <1>4 DEF IdInv

\* A command gives an id to no name but one that has none, and mints it for that.
OnlyNewIds ==
    /\ mem' = mem /\ table' = table /\ used \subseteq used'
    /\ \A n \in Agents, a \in AgentIds : HasId(config', n, a) =>
          HasId(config, n, a) \/ (a \in used' \ used)
    /\ \A m, n \in Agents, a \in AgentIds \ used :
          HasId(config', m, a) /\ HasId(config', n, a) => m = n
    /\ \A s \in Servers, i \in ServerIds : config'.servers[s] = i =>
          config.servers[s] = i \/ (i \in used' \ used)
    /\ \A s, t \in Servers, i \in ServerIds \ used :
          config'.servers[s] = i /\ config'.servers[t] = i => s = t

LEMMA HolmMints == ASSUME TypeInv, IdInv, HolmNext PROVE OnlyNewIds
<1>0. config \in Config /\ AgentIdsOf(config) \subseteq used /\ ServerIdsOf(config) \subseteq used
  BY DEF TypeInv, TypeOK, IdInv, Minted
<1>a. \A n \in Agents, a \in AgentIds : HasId(config, n, a) => a \in used
  BY <1>0 DEF HasId, AgentIdsOf
<1>b. \A s \in Servers, i \in ServerIds : config.servers[s] = i => i \in used
  BY <1>0, NoneIsNothing DEF ServerIdsOf
<1>c. ASSUME mem' = mem, table' = table, used \subseteq used',
             \A n \in Agents, a \in AgentIds : HasId(config', n, a) => HasId(config, n, a),
             \A s \in Servers : config'.servers[s] \in {config.servers[s], None}
      PROVE  OnlyNewIds
  <2>1. \A s \in Servers, i \in ServerIds : config'.servers[s] = i => config.servers[s] = i
    BY <1>c, NoneIsNothing
  <2> QED
    BY <1>a, <1>b, <1>c, <2>1 DEF OnlyNewIds
<1>1. ASSUME NEW n \in Agents, RemoveAgent(n) PROVE OnlyNewIds
  BY <1>0, <1>1, <1>c DEF RemoveAgent, Command, Config, HasId
<1>2. ASSUME NEW n \in Agents, NEW k \in Keys, RotateKey(n, k) PROVE OnlyNewIds
  <2>1. config.agents[n] \in Agent /\ config.agents[n] # None
    BY <1>0, <1>2 DEF RotateKey, Config
  <2>2. /\ \A m \in Agents : m # n => config'.agents[m] = config.agents[m]
        /\ config'.agents[n] = [config.agents[n] EXCEPT !.key = k]
        /\ config'.servers = config.servers
    BY <1>0, <1>2 DEF RotateKey, Config
  <2>3. config'.agents[n].id = config.agents[n].id
    BY <2>1, <2>2 DEF Agent
  <2>4. \A m \in Agents, a \in AgentIds : HasId(config', m, a) => HasId(config, m, a)
    BY <2>1, <2>2, <2>3 DEF HasId
  <2> QED
    BY <1>2, <1>c, <2>2, <2>4 DEF RotateKey, Command
<1>3. ASSUME NEW n \in Agents, NEW a \in AgentIds, NEW k \in Keys, AddAgent(n, a, k)
      PROVE  OnlyNewIds
  <2>1. /\ \A m \in Agents : m # n => config'.agents[m] = config.agents[m]
        /\ config'.agents[n] = [id |-> a, key |-> k]
        /\ config'.servers = config.servers
    BY <1>0, <1>3 DEF AddAgent, Config
  <2>2. mem' = mem /\ table' = table /\ used' = used \cup {a, k} /\ a \notin used
    BY <1>3 DEF AddAgent, Command
  <2>3. \A m \in Agents, b \in AgentIds : HasId(config', m, b) =>
            HasId(config, m, b) \/ (m = n /\ b = a)
    BY <2>1 DEF HasId
  <2> QED
    BY <1>a, <1>b, <2>1, <2>2, <2>3 DEF OnlyNewIds
<1>4. ASSUME NEW s \in Servers, RemoveServer(s) PROVE OnlyNewIds
  BY <1>0, <1>4, <1>c DEF RemoveServer, Command, Config, HasId
<1>5. ASSUME NEW s \in Servers, NEW i \in ServerIds, AddServer(s, i) PROVE OnlyNewIds
  <2>1. /\ \A t \in Servers : t # s => config'.servers[t] = config.servers[t]
        /\ config'.servers[s] = i /\ config'.agents = config.agents
    BY <1>0, <1>5 DEF AddServer, Config
  <2>2. mem' = mem /\ table' = table /\ used' = used \cup {i} /\ i \notin used
    BY <1>5 DEF AddServer, Command
  <2>3. \A n \in Agents, a \in AgentIds : HasId(config', n, a) => HasId(config, n, a)
    BY <2>1 DEF HasId
  <2> QED
    BY <1>a, <1>b, <2>1, <2>2, <2>3 DEF OnlyNewIds
<1>6. CASE \/ \E n \in Agents : \/ \E i \in ServerIds : RevokeOrphan(n, i)
                                \/ \E s \in Servers, g \in Grants : SetGrant(n, s, g)
           \/ \E a \in AgentIds : CutPolicy(a)
           \/ HolmDies \/ HandEdit
  <2>1. /\ mem' = mem /\ table' = table /\ used' = used
        /\ config'.agents = config.agents /\ config'.servers = config.servers
    BY <1>0, <1>6 DEF RevokeOrphan, SetGrant, CutPolicy, HolmDies, HandEdit, Command, Config
  <2>2. \A n \in Agents, a \in AgentIds : HasId(config', n, a) => HasId(config, n, a)
    BY <2>1 DEF HasId
  <2> QED
    BY <1>c, <2>1, <2>2
<1> QED
  BY <1>1, <1>2, <1>3, <1>4, <1>5, <1>6 DEF HolmNext

\* Of a call, a command changes only what it has been granted, and adds to that what
\* the files grant now.
OnlyWatches(r) ==
    /\ call'[r] = [call[r] EXCEPT !.granted = call'[r].granted]
    /\ call[r].granted \subseteq call'[r].granted
    /\ Active(r) /\ GrantedNow(config, policies, call[r].id) \subseteq call[r].granted =>
          GrantedNow(config', policies', call[r].id) \subseteq call'[r].granted

LEMMA HolmWatches == ASSUME TypeInv, HolmNext, NEW r \in Calls PROVE OnlyWatches(r)
<1>1. call[r] \in Call /\ config \in Config
  BY DEF TypeInv, TypeOK
<1>2. CASE Watch
  <2> DEFINE more == GrantedNow(config', policies', call[r].id)
  <2>1. CASE Active(r)
    <3>1. call'[r] = [call[r] EXCEPT !.granted = @ \cup more]
      BY <1>2, <2>1 DEF Watch
    <3> HIDE DEF more
    <3>2. call'[r].granted = call[r].granted \cup more
      BY <1>1, <3>1 DEF Call
    <3> QED
      BY <3>1, <3>2 DEF OnlyWatches, more
  <2>2. CASE ~ Active(r)
    <3>1. call'[r] = call[r]
      BY <1>2, <2>2 DEF Watch
    <3> QED
      BY <1>1, <2>2, <3>1 DEF OnlyWatches, Call
  <2> QED
    BY <2>1, <2>2
<1>3. CASE HolmDies \/ HandEdit
  <2>1. call' = call /\ policies' = policies /\ config'.agents = config.agents
    BY <1>1, <1>3 DEF HolmDies, HandEdit, Config
  <2>2. GrantedNow(config', policies', call[r].id) = GrantedNow(config, policies, call[r].id)
    BY <2>1 DEF GrantedNow, AgentIdsOf
  <2> QED
    BY <1>1, <2>1, <2>2 DEF OnlyWatches, Call
<1> QED
  BY <1>2, <1>3 DEF HolmNext, RemoveAgent, RotateKey, AddAgent, RevokeOrphan, SetGrant,
                    RemoveServer, AddServer, CutPolicy, Command

\* What a call has besides, it keeps.
LEMMA WatchedCall ==
    ASSUME TypeInv, NEW r \in Calls, OnlyWatches(r)
    PROVE  /\ call'[r].pc = call[r].pc /\ call'[r].name = call[r].name
           /\ call'[r].id = call[r].id /\ call'[r].engine = call[r].engine
           /\ call'[r].listed = call[r].listed /\ call'[r].names = call[r].names
           /\ call'[r].todo = call[r].todo /\ call'[r].down = call[r].down
           /\ call'[r].cur = call[r].cur /\ call'[r].lost = call[r].lost
           /\ call'[r].record = call[r].record /\ call'[r].answered = call[r].answered
           /\ call'[r].silent = call[r].silent /\ call'[r].sid = call[r].sid
           /\ call'[r].ran = call[r].ran
BY DEF TypeInv, TypeOK, Call, OnlyWatches

\* What config.json has now of the ids minted before, it had before, by the same name.
LEMMA OldIds ==
    ASSUME TypeInv, IdInv, OnlyNewIds, TypeInv'
    PROVE  /\ \A a \in used : a \in AgentIdsOf(config') => a \in AgentIdsOf(config)
           /\ \A i \in used : i \in ServerIdsOf(config') => i \in ServerIdsOf(config)
<1>1. config \in Config /\ config' \in Config
  BY DEF TypeInv, TypeOK
<1>2. ASSUME NEW a \in used, a \in AgentIdsOf(config') PROVE a \in AgentIdsOf(config)
  <2>1. a \in AgentIds /\ \E n \in Agents : HasId(config', n, a)
    BY <1>1, <1>2, IdTypes, IdsAreHad
  <2> QED
    BY <1>1, <2>1, IdsAreHad DEF OnlyNewIds
<1>3. ASSUME NEW i \in used, i \in ServerIdsOf(config') PROVE i \in ServerIdsOf(config)
  <2>1. i \in ServerIds /\ i # None /\ \E s \in Servers : config'.servers[s] = i
    BY <1>1, <1>3, IdTypes DEF ServerIdsOf
  <2> QED
    BY <2>1 DEF OnlyNewIds, ServerIdsOf
<1> QED
  BY <1>2, <1>3

\* The commands keep ids apart, and every name with its id.
LEMMA HolmIds == ASSUME TypeInv, IdInv, HolmNext PROVE IdInv'
<1>1. TypeInv' /\ OnlyNewIds
  BY HolmTypes, HolmMints
<1>2. config \in Config /\ config' \in Config /\ mem' = mem /\ table' = table /\ mem \in Config
  BY <1>1 DEF TypeInv, TypeOK, OnlyNewIds
<1>3. Minted'
  <2>1. AgentIdsOf(config') \subseteq used'
    <3> SUFFICES ASSUME NEW a \in AgentIdsOf(config') PROVE a \in used'
      OBVIOUS
    <3>1. PICK n \in Agents : HasId(config', n, a)
      BY <1>2, IdsAreHad
    <3>2. a \in AgentIds
      BY <1>2, IdTypes
    <3>3. HasId(config, n, a) => a \in used
      BY <1>2, IdsAreHad DEF IdInv, Minted
    <3> QED
      BY <1>1, <3>1, <3>2, <3>3 DEF OnlyNewIds
  <2>2. ServerIdsOf(config') \subseteq used'
    <3> SUFFICES ASSUME NEW i \in ServerIdsOf(config') PROVE i \in used'
      OBVIOUS
    <3>1. i \in ServerIds /\ i # None /\ \E s \in Servers : config'.servers[s] = i
      BY <1>2, IdTypes DEF ServerIdsOf
    <3>2. \A s \in Servers : config.servers[s] = i => i \in used
      BY <3>1 DEF IdInv, Minted, ServerIdsOf
    <3> QED
      BY <1>1, <3>1, <3>2 DEF OnlyNewIds
  <2> QED
    BY <1>1, <1>2, <2>1, <2>2 DEF IdInv, Minted, OnlyNewIds
<1>4. OneName'
  <2>1. ASSUME NEW m \in Agents, NEW n \in Agents, NEW a \in AgentIds,
               HasId(config', m, a), HasId(config', n, a)
        PROVE  m = n
    BY <1>1, <2>1 DEF OnlyNewIds, IdInv, OneName
  <2>2. ASSUME NEW s \in Servers, NEW t \in Servers, config'.servers[s] # None,
               config'.servers[s] = config'.servers[t]
        PROVE  s = t
    <3>1. config'.servers[s] \in ServerIds
      BY <1>2, <2>2 DEF Config
    <3> QED
      BY <1>1, <2>2, <3>1, NoneIsNothing DEF OnlyNewIds, IdInv, OneName, Distinct
  <2> QED
    BY <1>2, <2>1, <2>2 DEF OneName, IdInv, Distinct
<1>5. Stay'
  <2> SUFFICES ASSUME NEW s \in Servers, NEW i \in ServerIdsOf(config')
               PROVE  /\ mem.servers[s] = i => config'.servers[s] = i
                      /\ table[s] = i => config'.servers[s] = i /\ mem.servers[s] = i
    BY <1>2 DEF Stay
  <2>1. i \in ServerIds /\ i # None
    BY <1>2, IdTypes DEF ServerIdsOf
  <2>2. mem.servers[s] = i \/ table[s] = i => i \in used
    BY <2>1 DEF IdInv, Minted, ServerIdsOf
  <2>3. i \in used => i \in ServerIdsOf(config)
    BY <1>1, OldIds
  <2>4. ASSUME i \in used, config.servers[s] = i PROVE config'.servers[s] = i
    <3>1. PICK t \in Servers : config'.servers[t] = i
      BY DEF ServerIdsOf
    <3>2. config.servers[t] = i
      BY <1>1, <2>1, <2>4, <3>1 DEF OnlyNewIds
    <3>3. s = t
      BY <2>1, <2>4, <3>2 DEF IdInv, OneName, Distinct
    <3> QED
      BY <3>1, <3>3
  <2> QED
    BY <2>2, <2>3, <2>4 DEF IdInv, Stay
<1>6. ASSUME NEW r \in Calls, Active(r)' PROVE Own(call[r])'
  <2>1. Active(r) /\ call'[r].name = call[r].name /\ call'[r].id = call[r].id
    BY <1>6, HolmWatches, WatchedCall DEF Active
  <2>2. Own(call[r]) /\ call[r].name \in Agents
    BY <2>1 DEF IdInv, TypeInv, Named
  <2>3. call[r].id \in used'
    BY <1>1, <2>2 DEF Own, OnlyNewIds
  <2>4. ASSUME call[r].id \in AgentIdsOf(config')
        PROVE  HasId(config', call[r].name, call[r].id) /\ HasId(mem, call[r].name, call[r].id)
    <3>1. call[r].id \in AgentIdsOf(config) /\ call[r].id \in used /\ call[r].id \in AgentIds
      BY <1>1, <1>2, <2>2, <2>4, OldIds, IdTypes DEF Own
    <3>2. PICK n \in Agents : HasId(config', n, call[r].id)
      BY <1>2, <2>4, IdsAreHad
    <3>3. HasId(config, n, call[r].id)
      BY <1>1, <3>1, <3>2 DEF OnlyNewIds
    <3>4. HasId(config, call[r].name, call[r].id) /\ HasId(mem, call[r].name, call[r].id)
      BY <2>2, <3>1 DEF Own
    <3>5. n = call[r].name
      BY <2>2, <3>1, <3>3, <3>4 DEF IdInv, OneName
    <3> QED
      BY <3>2, <3>4, <3>5
  <2> QED
    BY <1>2, <2>1, <2>3, <2>4 DEF Own
<1> QED
  BY <1>3, <1>4, <1>5, <1>6 DEF IdInv

\* A step of the daemon takes its configuration from config.json, and its processes
\* and the agents of its calls from there.
LEMMA DaemonIds ==
    ASSUME TypeInv, IdInv, UNCHANGED diskVars, mem' \in {mem, config},
           \A s \in Servers : table'[s] \in {table[s], None, mem.servers[s]},
           \A r \in Calls : Active(r)' =>
              \/ Active(r) /\ call'[r].name = call[r].name /\ call'[r].id = call[r].id
              \/ mem' = config /\ HasId(config, call'[r].name, call'[r].id)
                 /\ call'[r].name \in Agents
    PROVE  IdInv'
<1>1. config' = config /\ used' = used /\ config \in Config
  BY DEF diskVars, TypeInv, TypeOK
<1>2. Minted'
  <2>1. ServerIdsOf(mem') \subseteq used
    BY DEF IdInv, Minted
  <2>2. \A s \in Servers : table'[s] # None => table'[s] \in used
    BY DEF IdInv, Minted, ServerIdsOf
  <2> QED
    BY <1>1, <2>1, <2>2 DEF IdInv, Minted
<1>3. OneName'
  BY <1>1 DEF IdInv, OneName, HasId
<1>4. Stay'
  <2> SUFFICES ASSUME NEW s \in Servers, NEW i \in ServerIdsOf(config)
               PROVE  /\ mem'.servers[s] = i => config.servers[s] = i
                      /\ table'[s] = i => config.servers[s] = i /\ mem'.servers[s] = i
    BY <1>1 DEF Stay
  <2>1. i # None
    BY DEF ServerIdsOf
  <2> QED
    BY <2>1 DEF IdInv, Stay
<1>5. ASSUME NEW r \in Calls, Active(r)' PROVE Own(call[r])'
  <2>1. CASE Active(r) /\ call'[r].name = call[r].name /\ call'[r].id = call[r].id
    BY <1>1, <2>1 DEF IdInv, Own, HasId
  <2>2. CASE /\ mem' = config /\ HasId(config, call'[r].name, call'[r].id)
             /\ call'[r].name \in Agents
    <3>1. call'[r].id \in used
      BY <1>1, <2>2, IdsAreHad DEF IdInv, Minted
    <3> QED
      BY <1>1, <2>2, <3>1 DEF Own
  <2> QED
    BY <1>5, <2>1, <2>2
<1> QED
  BY <1>2, <1>3, <1>4, <1>5 DEF IdInv

\* What a step of a call leaves alone.
LEMMA CallFrame ==
    ASSUME NEW r \in Calls, CallNext(r) \/ Resolve(r)
    PROVE  UNCHANGED <<diskVars, table>> /\ mem' \in {mem, config}
BY DEF CallNext, Unauthorized, Authenticate, Load, Resolve, ListAnswers, ListFails, Found,
       Send, CallOver, Disconnect

\* Every step keeps ids apart.
LEMMA StepKeepsIds == TypeInv /\ Loaded /\ IdInv /\ [Next]_vars => IdInv'
<1> SUFFICES ASSUME TypeInv, Loaded, IdInv, [Next]_vars PROVE IdInv'
  OBVIOUS
<1>1. CASE HolmNext
  BY <1>1, HolmIds
<1>2. CASE Reload \/ UNCHANGED vars \/ \E s \in Servers : ServerUp(s) \/ ServerDown(s)
  <2>1. /\ UNCHANGED diskVars /\ mem' \in {mem, config}
        /\ \A s \in Servers : table'[s] \in {table[s], None, mem.servers[s]}
    BY <1>2 DEF Reload, vars, ServerUp, ServerDown, TypeInv, TypeOK
  <2>2. ASSUME NEW r \in Calls
        PROVE  /\ call'[r].pc = call[r].pc /\ call'[r].name = call[r].name
               /\ call'[r].id = call[r].id
    <3>1. call[r] \in Call /\ (call'[r] = call[r] \/ call'[r] = [call[r] EXCEPT !.lost = TRUE])
      BY <1>2 DEF Reload, vars, ServerUp, ServerDown, TypeInv, TypeOK
    <3> QED
      BY <3>1 DEF Call
  <2> QED
    BY <2>1, <2>2, DaemonIds DEF Active
<1>3. ASSUME NEW r \in Calls, CallNext(r) \/ Resolve(r) PROVE IdInv'
  <2>1. /\ \A o \in Calls \ {r} : call'[o] = call[o]
        /\ Active(r)' => GoesOn(r) \/ \E k \in Keys : Authenticate(r, k)
    BY <1>3, CallTypes, ResolveTypes
  <2>2. ASSUME NEW k \in Keys, Authenticate(r, k)
        PROVE  /\ mem' = config /\ HasId(config, call'[r].name, call'[r].id)
               /\ call'[r].name \in Agents
    <3>1. PICK n \in Resolved(k) : call' = [call EXCEPT ![r] =
                [NoCall EXCEPT !.pc = "dispatch", !.name = n, !.id = config.agents[n].id,
                    !.granted = GrantedNow(config, policies, config.agents[n].id)]]
      BY <2>2 DEF Authenticate
    <3>2. call'[r].name = n /\ call'[r].id = config.agents[n].id
      BY <3>1 DEF TypeInv, TypeOK, NoCall
    <3> QED
      BY <2>2, <3>2, ResolvedHolds DEF Authenticate, HasId
  <2>3. ASSUME NEW o \in Calls, Active(o)'
        PROVE  \/ Active(o) /\ call'[o].name = call[o].name /\ call'[o].id = call[o].id
               \/ mem' = config /\ HasId(config, call'[o].name, call'[o].id)
                  /\ call'[o].name \in Agents
    BY <2>1, <2>2, <2>3 DEF Active, GoesOn
  <2>4. UNCHANGED <<diskVars, table>> /\ mem' \in {mem, config}
    BY <1>3, CallFrame
  <2> QED
    BY <2>3, <2>4, DaemonIds
<1> QED
  BY <1>1, <1>2, <1>3 DEF Next, DaemonNext

LEMMA IdsHold == Spec => [](TypeInv /\ Loaded /\ IdInv)
BY InitIds, StepKeepsIds, TypesHold, PTL DEF Spec
--------------------------------------------------------------------------------
(* What a call runs on.                                                    *)

\* A command adds to what a call was granted all that the files now grant.
LEMMA HolmGrants == ASSUME TypeInv, IdInv, Watched, HolmNext PROVE Watched'
<1> SUFFICES ASSUME NEW r \in Calls
             PROVE  (IF Active(r) THEN Remembered(call[r]) ELSE call[r].id = None)'
  BY DEF Watched
<1>1. /\ TypeInv' /\ OnlyNewIds /\ OnlyWatches(r) /\ table' = table /\ used \subseteq used'
      /\ \A a \in used : a \in AgentIdsOf(config') => a \in AgentIdsOf(config)
      /\ \A i \in used : i \in ServerIdsOf(config') => i \in ServerIdsOf(config)
  BY HolmTypes, HolmMints, HolmWatches, OldIds DEF OnlyNewIds
<1>2. /\ call'[r].pc = call[r].pc /\ call'[r].id = call[r].id
      /\ call'[r].engine = call[r].engine /\ call'[r].cur = call[r].cur
      /\ call'[r].lost = call[r].lost /\ call'[r].sid = call[r].sid
      /\ call'[r].ran = call[r].ran
  BY <1>1, WatchedCall
<1>3. CASE Active(r)
  <2>1. Remembered(call[r]) /\ call[r].id \in used
    BY <1>3 DEF Watched, IdInv, Own
  <2>2. /\ GrantedNow(config', policies', call[r].id) \subseteq call'[r].granted
        /\ call[r].granted \subseteq call'[r].granted
    BY <1>1, <1>3, <2>1 DEF OnlyWatches, Remembered
  <2>3. call[r].pc # "dispatch" /\ call[r].id \in AgentIdsOf(config') =>
            call[r].engine \subseteq call'[r].granted
    BY <1>1, <2>1, <2>2 DEF Remembered
  <2>4. call[r].pc = "waiting" /\ ~ call[r].lost =>
            /\ table[call[r].cur] # None
            /\ table[call[r].cur] \in ServerIdsOf(config') => table[call[r].cur] = call[r].sid
    <3>1. call[r].pc = "waiting" => call[r].cur \in Servers
      BY <1>3 DEF TypeInv, Named
    <3> QED
      BY <1>1, <2>1, <3>1 DEF Remembered, IdInv, Minted
  <2>5. call[r].ran # None =>
            /\ call[r].ran \in used'
            /\ call[r].ran \in ServerIdsOf(config') => call[r].ran = call[r].sid
    BY <1>1, <2>1 DEF Remembered
  <2>6. Remembered(call[r])'
    BY <1>1, <1>2, <2>1, <2>2, <2>3, <2>4, <2>5 DEF Remembered
  <2> QED
    BY <1>2, <1>3, <2>6 DEF Active
<1>4. CASE ~ Active(r)
  BY <1>2, <1>4 DEF Watched, Active
<1> QED
  BY <1>3, <1>4

\* A step of one call leaves the others as they are.
LEMMA OneCallGrants ==
    ASSUME Watched, NEW r \in Calls, UNCHANGED <<diskVars, table>>,
           \A o \in Calls \ {r} : call'[o] = call[o],
           (IF Active(r) THEN Remembered(call[r]) ELSE call[r].id = None)'
    PROVE  Watched'
<1>1. config' = config /\ policies' = policies /\ used' = used /\ table' = table
  BY DEF diskVars
<1>2. ASSUME NEW o \in Calls, o # r
      PROVE  (IF Active(o) THEN Remembered(call[o]) ELSE call[o].id = None)'
  <2>1. call'[o] = call[o]
    BY <1>2
  <2> QED
    BY <1>1, <2>1 DEF Watched, Active, Remembered
<1> QED
  BY <1>2 DEF Watched

\* The search keeps the grants the check will go by.
LEMMA SearchGrants ==
    ASSUME TypeInv, Watched, UNCHANGED <<diskVars, table>>, NEW r \in Calls,
           NEW q \in Call, q.name \in Agents, Search(r, q),
           GrantedNow(config, policies, q.id) \subseteq q.granted,
           q.id \in AgentIdsOf(config) => q.engine \subseteq q.granted, q.ran = None
    PROVE  Watched'
<1>1. /\ \A o \in Calls \ {r} : call'[o] = call[o]
      /\ \/ call'[r].pc = "done" /\ call'[r].id = None
         \/ /\ call'[r].pc = "listing"
            /\ call'[r].name = q.name /\ call'[r].id = q.id
            /\ call'[r].engine = q.engine /\ call'[r].granted = q.granted
            /\ call'[r].ran = q.ran
  BY SearchTypes
<1>2. config' = config /\ policies' = policies
  BY DEF diskVars
<1>3. (IF Active(r) THEN Remembered(call[r]) ELSE call[r].id = None)'
  BY <1>1, <1>2 DEF Active, Remembered
<1> QED
  BY <1>1, <1>3, OneCallGrants

\* A call is checked by what its agent was granted, and runs on the server checked.
LEMMA CallGrants ==
    ASSUME TypeInv, IdInv, Watched, NEW r \in Calls, CallNext(r) \/ Resolve(r)
    PROVE  Watched'
<1> DEFINE q == call[r]
           Told == (IF Active(r) THEN Remembered(call[r]) ELSE call[r].id = None)'
<1>0. q \in Call /\ mem \in Config /\ config \in Config /\ call \in [Calls -> Call]
  BY DEF TypeInv, TypeOK
<1>a. /\ UNCHANGED <<diskVars, table>> /\ config' = config /\ policies' = policies
      /\ used' = used /\ table' = table
  BY CallFrame DEF diskVars
<1>b. ASSUME \A o \in Calls \ {r} : call'[o] = call[o], Told PROVE Watched'
  BY <1>a, <1>b, OneCallGrants
<1>c. Active(r) => /\ Remembered(q) /\ Own(q) /\ q.name \in Agents
                   /\ q.pc \notin {"dispatch", "loaded"} => q.cur \in Servers
  BY DEF Watched, IdInv, TypeInv, Named
<1>d. ASSUME NEW e \in Call, e.name \in Agents, NEW server \in Servers \cup {None},
             NEW decision \in {"allowed", "denied", "error"}, End(r, e, server, decision)
      PROVE  Watched'
  <2>1. (\A o \in Calls \ {r} : call'[o] = call[o]) /\ call'[r].pc = "done" /\ call'[r].id = None
    BY <1>d, EndTypes
  <2> QED
    BY <1>b, <2>1 DEF Active
<1>1. CASE Disconnect(r) \/ \E k \in Keys : Unauthorized(r, k)
  <2>1. call'[r] = NoCall /\ \A o \in Calls \ {r} : call'[o] = call[o]
    BY <1>0, <1>1 DEF Unauthorized, Disconnect
  <2> QED
    BY <1>b, <2>1 DEF NoCall, Active
<1>2. ASSUME NEW k \in Keys, Authenticate(r, k) PROVE Watched'
  <2>1. PICK n \in Resolved(k) : call' = [call EXCEPT ![r] =
                [NoCall EXCEPT !.pc = "dispatch", !.name = n, !.id = config.agents[n].id,
                    !.granted = GrantedNow(config, policies, config.agents[n].id)]]
    BY <1>2 DEF Authenticate
  <2>2. /\ call'[r].pc = "dispatch" /\ call'[r].id = config.agents[n].id
        /\ call'[r].ran = None
        /\ call'[r].granted = GrantedNow(config, policies, config.agents[n].id)
        /\ \A o \in Calls \ {r} : call'[o] = call[o]
    BY <1>0, <2>1 DEF NoCall
  <2>3. Told
    BY <1>a, <2>2 DEF Active, Remembered
  <2> QED
    BY <1>b, <2>2, <2>3
<1>3. CASE Load(r)
  <2>1. q.name \in Agents /\ Remembered(q) /\ Own(q) /\ q.pc = "dispatch"
    BY <1>3, <1>c DEF Load, Active
  <2>2. CASE ~ mem.ok \/ mem.agents[q.name] = None
    <3>1. \E decision \in {"allowed", "denied", "error"} : End(r, q, None, decision)
      BY <1>3, <2>2 DEF Load
    <3> QED
      BY <1>0, <1>d, <2>1, <3>1
  <2>3. CASE mem.ok /\ mem.agents[q.name] # None
    <3> DEFINE read == [q EXCEPT !.pc = "loaded",
                           !.engine = {i \in ServerIds : PolicyOf(q.name)[i] = "match"}]
    <3>1. /\ read.pc = "loaded" /\ read.id = q.id /\ read.granted = q.granted
          /\ read.ran = q.ran
          /\ read.engine = {i \in ServerIds : PolicyOf(q.name)[i] = "match"}
      BY <1>0 DEF Call
    <3>2. call' = [call EXCEPT ![r] = read]
      BY <1>3, <2>3 DEF Load
    <3> HIDE DEF read
    <3>3. call'[r] = read /\ \A o \in Calls \ {r} : call'[o] = call[o]
      BY <1>0, <3>2
    <3>4. q.id \in AgentIdsOf(config) => read.engine \subseteq q.granted
      BY <2>1, <3>1 DEF Own, HasId, PolicyOf, GrantedNow, Remembered
    <3>5. Told
      BY <1>a, <2>1, <3>1, <3>3, <3>4 DEF Active, Remembered
    <3> QED
      BY <1>b, <3>3, <3>5
  <2> QED
    BY <2>2, <2>3
<1>4. CASE Resolve(r)
  <2> DEFINE listed == {i \in ServerIds : PolicyOf(q.name)[i] # "none"}
             read == [q EXCEPT !.listed = listed, !.todo = listed, !.names = mem.servers]
  <2>1. q.name \in Agents /\ Remembered(q) /\ q.pc = "loaded"
    BY <1>4, <1>c DEF Resolve, Active
  <2>2. /\ read \in Call /\ read.name = q.name /\ read.id = q.id /\ read.ran = q.ran
        /\ read.engine = q.engine /\ read.granted = q.granted
    BY <1>0 DEF Call, Config
  <2>3. Search(r, read)
    BY <1>4 DEF Resolve
  <2> HIDE DEF read
  <2> QED
    BY <1>a, <2>1, <2>2, <2>3, SearchGrants DEF Remembered
<1>5. CASE ListAnswers(r) \/ ListFails(r)
  <2> DEFINE answered == [q EXCEPT !.cur = None, !.answered = @ \cup {q.cur}]
             failed == [q EXCEPT !.cur = None, !.down = @ \cup {q.cur}]
  <2>1. q.name \in Agents /\ q.cur \in Servers /\ Remembered(q) /\ q.pc = "listing"
    BY <1>5, <1>c DEF ListAnswers, ListFails, Active
  <2>2. /\ answered \in Call /\ answered.name = q.name /\ answered.id = q.id
        /\ answered.engine = q.engine /\ answered.granted = q.granted
        /\ answered.ran = q.ran
        /\ failed \in Call /\ failed.name = q.name /\ failed.id = q.id
        /\ failed.engine = q.engine /\ failed.granted = q.granted /\ failed.ran = q.ran
    BY <1>0, <2>1 DEF Call
  <2>3. Search(r, answered) \/ Search(r, failed)
    BY <1>5 DEF ListAnswers, ListFails
  <2> HIDE DEF answered, failed
  <2>4. /\ GrantedNow(config, policies, q.id) \subseteq q.granted
        /\ q.id \in AgentIdsOf(config) => q.engine \subseteq q.granted
        /\ q.ran = None
    BY <2>1 DEF Remembered
  <2> QED
    BY <1>a, <2>1, <2>2, <2>3, <2>4, SearchGrants
<1>6. CASE Found(r)
  <2> DEFINE on == [q EXCEPT !.answered = @ \cup {q.cur}]
             sent == [on EXCEPT !.pc = "waiting", !.sid = IdOf(on.cur), !.lost = FALSE]
  <2>1. q.name \in Agents /\ q.cur \in Servers /\ Remembered(q) /\ q.pc = "listing"
    BY <1>6, <1>c DEF Found, Active
  <2>2. on \in Call /\ on.name = q.name /\ on.cur = q.cur /\ on.engine = q.engine
    BY <1>0, <2>1 DEF Call
  <2>3. IdOf(on.cur) = mem.servers[q.cur]
    BY <2>1, <2>2, NoneIsNothing DEF IdOf
  <2>4. /\ sent.pc = "waiting" /\ sent.id = q.id /\ sent.engine = q.engine
        /\ sent.granted = q.granted /\ sent.sid = IdOf(on.cur) /\ sent.cur = q.cur
        /\ sent.ran = q.ran
    BY <1>0, <2>2 DEF Call
  <2>5. \/ \E decision \in {"allowed", "denied", "error"} : End(r, on, on.cur, decision)
        \/ /\ table[on.cur] # None /\ Permitted(on, IdOf(on.cur))
           /\ call' = [call EXCEPT ![r] = sent]
    BY <1>6 DEF Found
  <2> HIDE DEF on, sent
  <2>6. CASE \E decision \in {"allowed", "denied", "error"} : End(r, on, on.cur, decision)
    BY <1>d, <2>1, <2>2, <2>6
  <2>7. CASE /\ table[on.cur] # None /\ Permitted(on, IdOf(on.cur))
             /\ call' = [call EXCEPT ![r] = sent]
    <3>1. call'[r] = sent /\ \A o \in Calls \ {r} : call'[o] = call[o]
      BY <1>0, <2>7
    <3>2. sent.sid \in sent.engine
      BY <2>2, <2>4, <2>7 DEF Permitted
    <3>3. /\ table[q.cur] # None
          /\ table[q.cur] \in ServerIdsOf(config) => table[q.cur] = sent.sid
      BY <2>1, <2>2, <2>3, <2>4, <2>7 DEF IdInv, Stay
    <3>4. Told
      BY <1>a, <2>1, <2>4, <3>1, <3>2, <3>3 DEF Active, Remembered
    <3> QED
      BY <1>b, <3>1, <3>4
  <2> QED
    BY <2>5, <2>6, <2>7
<1>7. CASE Send(r)
  <2> DEFINE sent == [q EXCEPT !.pc = "calling", !.ran = table[q.cur]]
  <2>1. Remembered(q) /\ q.pc = "waiting" /\ ~ q.lost /\ q.cur \in Servers
    BY <1>7, <1>c DEF Send, Active
  <2>2. /\ sent.pc = "calling" /\ sent.id = q.id /\ sent.engine = q.engine
        /\ sent.granted = q.granted /\ sent.sid = q.sid /\ sent.ran = table[q.cur]
    BY <1>0 DEF Call
  <2>3. call' = [call EXCEPT ![r] = sent]
    BY <1>0, <1>7 DEF Send, Call
  <2> HIDE DEF sent
  <2>4. call'[r] = sent /\ \A o \in Calls \ {r} : call'[o] = call[o]
    BY <1>0, <2>3
  <2>5. table[q.cur] \in used
    BY <2>1 DEF Remembered, IdInv, Minted
  <2>6. Told
    BY <1>a, <2>1, <2>2, <2>4, <2>5 DEF Active, Remembered
  <2> QED
    BY <1>b, <2>4, <2>6
<1>8. CASE CallOver(r)
  <2>1. q.name \in Agents /\ q.cur \in Servers /\ End(r, q, q.cur, "allowed")
    BY <1>8, <1>c DEF CallOver, Active
  <2> QED
    BY <1>0, <1>d, <2>1
<1> QED
  BY <1>1, <1>2, <1>3, <1>4, <1>5, <1>6, <1>7, <1>8 DEF CallNext

\* A server that comes is not one that a call waits for, and one that goes is lost to
\* the calls that do.
LEMMA StepKeepsGrants == TypeInv /\ IdInv /\ Watched /\ [Next]_vars => Watched'
<1> SUFFICES ASSUME TypeInv, IdInv, Watched, [Next]_vars PROVE Watched'
  OBVIOUS
<1>1. CASE HolmNext
  BY <1>1, HolmGrants
<1>2. CASE Reload \/ UNCHANGED vars
  <2>1. /\ config' = config /\ policies' = policies /\ used' = used
        /\ call' = call /\ table' = table
    BY <1>2 DEF Reload, vars, diskVars
  <2> QED
    BY <2>1 DEF Watched, Active, Remembered
<1>3. ASSUME NEW s \in Servers, ServerUp(s) \/ ServerDown(s) PROVE Watched'
  <2>1. config' = config /\ policies' = policies /\ used' = used
    BY <1>3 DEF ServerUp, ServerDown, diskVars
  <2> SUFFICES ASSUME NEW r \in Calls
               PROVE  (IF Active(r) THEN Remembered(call[r]) ELSE call[r].id = None)'
    BY DEF Watched
  <2>2. call[r] \in Call /\ (call'[r] = call[r] \/ call'[r] = [call[r] EXCEPT !.lost = TRUE])
    BY <1>3 DEF ServerUp, ServerDown, TypeInv, TypeOK
  <2>3. /\ call'[r].pc = call[r].pc /\ call'[r].id = call[r].id
        /\ call'[r].engine = call[r].engine /\ call'[r].granted = call[r].granted
        /\ call'[r].cur = call[r].cur /\ call'[r].sid = call[r].sid
        /\ call'[r].ran = call[r].ran /\ (call[r].lost => call'[r].lost)
    BY <2>2 DEF Call
  <2>4. CASE Active(r)
    <3>1. Remembered(call[r])
      BY <2>4 DEF Watched
    <3>2. call[r].pc = "waiting" /\ ~ call'[r].lost =>
              table'[call[r].cur] = table[call[r].cur]
      <4> SUFFICES ASSUME call[r].pc = "waiting", ~ call'[r].lost
                   PROVE  table'[call[r].cur] = table[call[r].cur]
        OBVIOUS
      <4>1. table[call[r].cur] # None
        BY <2>3, <3>1 DEF Remembered
      <4>2. call[r].cur # s
        <5>1. CASE ServerUp(s)
          BY <4>1, <5>1 DEF ServerUp
        <5>2. CASE ServerDown(s)
          <6>1. call[r].cur = s => call'[r] = [call[r] EXCEPT !.lost = TRUE]
            BY <2>4, <5>2 DEF ServerDown
          <6> QED
            BY <2>2, <6>1 DEF Call
        <5> QED
          BY <1>3, <5>1, <5>2
      <4>3. call[r].cur \in Servers
        BY <2>4 DEF TypeInv, Named
      <4> QED
        BY <1>3, <4>2, <4>3 DEF ServerUp, ServerDown, TypeInv, TypeOK
    <3>3. Remembered(call[r])'
      BY <2>1, <2>3, <3>1, <3>2 DEF Remembered
    <3> QED
      BY <2>3, <2>4, <3>3 DEF Active
  <2>5. CASE ~ Active(r)
    BY <2>3, <2>5 DEF Watched, Active
  <2> QED
    BY <2>4, <2>5
<1>4. ASSUME NEW r \in Calls, CallNext(r) \/ Resolve(r) PROVE Watched'
  BY <1>4, CallGrants
<1> QED
  BY <1>1, <1>2, <1>3, <1>4 DEF Next, DaemonNext

\* The process that runs a call is of a server that was granted, under its own id, to
\* the agent that authenticated, under its own, at some time since it did - as long as
\* neither has been removed from config.json, and whatever else is there by their names.
THEOREM OnlyGrantedCallsGoOut == Spec => []OnlyWhatIsGranted
<1>1. Init => Watched
  BY DEF Init, Watched, Active, NoCall
<1>2. TypeInv /\ Watched => OnlyWhatIsGranted
  <2> SUFFICES ASSUME TypeInv, Watched, NEW r \in Calls, call[r].id \in AgentIdsOf(config),
                      call[r].ran \in ServerIdsOf(config)
               PROVE  call[r].ran \in call[r].granted
    BY DEF OnlyWhatIsGranted
  <2>1. call[r].id # None /\ call[r].ran # None
    <3>1. config \in Config
      BY DEF TypeInv, TypeOK
    <3> QED
      BY <3>1, IdTypes, NoneIsNothing DEF ServerIdsOf
  <2>2. Remembered(call[r])
    BY <2>1 DEF Watched
  <2> QED
    BY <2>1, <2>2 DEF Remembered
<1> QED
  BY <1>1, <1>2, StepKeepsGrants, IdsHold, PTL DEF Spec
--------------------------------------------------------------------------------
(* What the policies say is what was granted.                              *)

\* The grants there are, on the disk and to be remembered.
Held(a, i) == policies[a][i] # "none"
Pair(a, i) == <<a, i>> \in given

\* A command that neither grants nor takes: what it adds to config.json is new, and
\* no policy has it.
LEMMA OthersKeepGiven ==
    ASSUME TypeInv, IdInv, GivenInv, HolmNext, policies' = policies,
           \A a \in AgentIdsOf(config'), i \in ServerIdsOf(config') :
              Pair(a, i)' <=> Pair(a, i),
           given' \subseteq given,
           \A a \in holm'.agents, i \in holm'.servers :
              ~ (a \in AgentIdsOf(config') /\ i \in ServerIdsOf(config'))
    PROVE  GivenInv'
<1>1. TypeInv' /\ OnlyNewIds
  BY HolmTypes, HolmMints
<1>2. /\ \A a \in used : a \in AgentIdsOf(config') => a \in AgentIdsOf(config)
      /\ \A i \in used : i \in ServerIdsOf(config') => i \in ServerIdsOf(config)
      /\ used \subseteq used'
  BY <1>1, OldIds DEF OnlyNewIds
<1>3. AgentIdsOf(config') \subseteq AgentIds /\ ServerIdsOf(config') \subseteq ServerIds
  BY <1>1, IdTypes DEF TypeInv, TypeOK
<1>4. ASSUME NEW a \in AgentIdsOf(config'), NEW i \in ServerIdsOf(config')
      PROVE  Held(a, i)' <=> Pair(a, i)'
  <2>1. CASE a \in used /\ i \in used
    BY <1>2, <1>4, <2>1 DEF GivenInv, GrantsAsGiven, Held, Pair
  <2>2. CASE ~ (a \in used /\ i \in used)
    <3>1. ~ Held(a, i) /\ ~ Pair(a, i)
      BY <1>3, <2>2 DEF GivenInv, Held, Pair
    <3> QED
      BY <1>4, <3>1 DEF Held
  <2> QED
    BY <2>1, <2>2
<1>5. GrantsAsGiven'
  BY <1>4 DEF GrantsAsGiven, Held, Pair
<1> QED
  BY <1>2, <1>5 DEF GivenInv

\* A command that rewrites a policy, for two sides that config.json has or has not.
LEMMA PolicyKeepsGiven ==
    ASSUME GivenInv, config' = config, used' = used,
           \/ holm' = Rest \/ holm' = holm
           \/ holm'.agents \subseteq holm.agents /\ holm'.servers = holm.servers,
           \A a \in AgentIds, i \in ServerIds :
              Held(a, i)' \/ Pair(a, i)' =>
                 \/ Held(a, i) \/ Pair(a, i)
                 \/ a \in used /\ i \in used,
           \A a \in AgentIdsOf(config), i \in ServerIdsOf(config) :
              \/ (Held(a, i)' <=> Held(a, i)) /\ (Pair(a, i)' <=> Pair(a, i))
              \/ Held(a, i)' <=> Pair(a, i)'
    PROVE  GivenInv'
<1>1. GrantsAsGiven'
  BY DEF GivenInv, GrantsAsGiven, Held, Pair
<1>2. \A a \in holm'.agents, i \in holm'.servers :
          ~ (a \in AgentIdsOf(config) /\ i \in ServerIdsOf(config))
  BY DEF GivenInv, Rest
<1>3. \A a \in AgentIds, i \in ServerIds : Held(a, i)' \/ Pair(a, i)' => a \in used /\ i \in used
  BY DEF GivenInv, Held, Pair
<1> QED
  BY <1>1, <1>2, <1>3 DEF GivenInv, Held, Pair

\* A removal takes a side away before it cuts the grants, and cuts none of two sides
\* that are both there.
LEMMA HolmGiven == ASSUME TypeInv, IdInv, GivenInv, HolmNext PROVE GivenInv'
<1>0. /\ config \in Config /\ policies \in [AgentIds -> [ServerIds -> Grants]]
      /\ AgentIdsOf(config) \subseteq AgentIds /\ ServerIdsOf(config) \subseteq ServerIds
  BY IdTypes DEF TypeInv, TypeOK
<1>1. ASSUME NEW n \in Agents, RemoveAgent(n) PROVE GivenInv'
  <2> DEFINE gone == config.agents[n].id
  <2>1. /\ holm' = Removal({gone}, ServerIds) /\ policies' = policies
        /\ given' = {g \in given : g[1] # gone}
    BY <1>1 DEF RemoveAgent
  <2>2. holm'.agents = {gone}
    BY <2>1 DEF Removal
  <2>3. gone \notin AgentIdsOf(config')
    <3> SUFFICES ASSUME gone \in AgentIdsOf(config') PROVE FALSE
      OBVIOUS
    <3>1. config' \in Config
      BY HolmTypes DEF TypeInv, TypeOK
    <3>2. PICK m \in Agents : HasId(config', m, gone)
      BY <3>1, IdsAreHad
    <3>3. /\ \A o \in Agents : o # n => config'.agents[o] = config.agents[o]
          /\ config'.agents[n] = None
      BY <1>0, <1>1 DEF RemoveAgent, Config
    <3>4. m # n /\ HasId(config, m, gone) /\ HasId(config, n, gone)
      BY <1>1, <3>2, <3>3 DEF HasId, RemoveAgent
    <3>5. gone \in AgentIds
      BY <1>0, <3>4, IdsAreHad
    <3> QED
      BY <3>4, <3>5 DEF IdInv, OneName
  <2> HIDE DEF gone
  <2>4. \A a \in AgentIdsOf(config'), i \in ServerIdsOf(config') : Pair(a, i)' <=> Pair(a, i)
    BY <2>1, <2>3 DEF Pair
  <2> QED
    BY <2>1, <2>2, <2>3, <2>4, OthersKeepGiven
<1>2. ASSUME NEW s \in Servers, RemoveServer(s) PROVE GivenInv'
  <2> DEFINE gone == config.servers[s]
  <2>1. /\ holm' = Removal(Holders(gone), {gone}) /\ policies' = policies
        /\ given' = {g \in given : g[2] # gone} /\ gone # None
    BY <1>2 DEF RemoveServer
  <2>2. holm' = Rest \/ holm'.servers = {gone}
    BY <2>1 DEF Removal
  <2>3. gone \notin ServerIdsOf(config')
    <3>1. /\ \A t \in Servers : t # s => config'.servers[t] = config.servers[t]
          /\ config'.servers[s] = None
      BY <1>0, <1>2 DEF RemoveServer, Config
    <3> QED
      BY <2>1, <3>1 DEF ServerIdsOf, IdInv, OneName, Distinct
  <2> HIDE DEF gone
  <2>4. \A a \in AgentIdsOf(config'), i \in ServerIdsOf(config') : Pair(a, i)' <=> Pair(a, i)
    BY <2>1, <2>3 DEF Pair
  <2>5. \A a \in holm'.agents, i \in holm'.servers :
            ~ (a \in AgentIdsOf(config') /\ i \in ServerIdsOf(config'))
    BY <2>2, <2>3 DEF Rest
  <2> QED
    BY <2>1, <2>4, <2>5, OthersKeepGiven
<1>3. CASE \/ \E n \in Agents, k \in Keys :
                 RotateKey(n, k) \/ \E a \in AgentIds : AddAgent(n, a, k)
           \/ \E s \in Servers, i \in ServerIds : AddServer(s, i)
  <2>1. policies' = policies /\ given' = given /\ holm' = Rest
    BY <1>3 DEF RotateKey, AddAgent, AddServer, Command
  <2>2. holm'.agents = {}
    BY <2>1 DEF Rest
  <2> QED
    BY <2>1, <2>2, OthersKeepGiven DEF Pair
<1>4. ASSUME NEW n \in Agents, NEW i \in ServerIds, RevokeOrphan(n, i) PROVE GivenInv'
  <2>1. /\ config' = config /\ used' = used /\ holm' = holm /\ given' = given
        /\ policies' = [policies EXCEPT ![config.agents[n].id][i] = "none"]
        /\ i \notin ServerIdsOf(config) /\ config.agents[n].id \in AgentIds
    BY <1>0, <1>4 DEF RevokeOrphan, Command, Config, Agent
  <2>2. ASSUME NEW b \in AgentIds, NEW j \in ServerIds
        PROVE  (Held(b, j)' => Held(b, j)) /\ (j # i => (Held(b, j)' <=> Held(b, j)))
    BY <1>0, <2>1 DEF Held
  <2> QED
    BY <1>0, <2>1, <2>2, PolicyKeepsGiven DEF Held, Pair
<1>5. ASSUME NEW n \in Agents, NEW s \in Servers, NEW g \in Grants, SetGrant(n, s, g)
      PROVE  GivenInv'
  <2>0. PICK b \in AgentIdsOf(config), j \in ServerIdsOf(config) :
           b = config.agents[n].id /\ j = config.servers[s]
    BY <1>5 DEF SetGrant, AgentIdsOf, ServerIdsOf
  <2>1. /\ config' = config /\ used' = used /\ holm' = holm
        /\ policies' = [policies EXCEPT ![b][j] = g]
        /\ given' = IF g = "none" THEN given \ {<<b, j>>} ELSE given \cup {<<b, j>>}
    BY <1>5, <2>0 DEF SetGrant, Command
  <2>3. b \in AgentIds /\ j \in ServerIds /\ b \in used /\ j \in used
    BY <1>0, <2>0 DEF IdInv, Minted
  <2>4. ASSUME NEW a \in AgentIds, NEW i \in ServerIds, ~ (a = b /\ i = j)
        PROVE  (Held(a, i)' <=> Held(a, i)) /\ (Pair(a, i)' <=> Pair(a, i))
    <3>1. Held(a, i)' <=> Held(a, i)
      BY <1>0, <2>1, <2>3, <2>4 DEF Held
    <3>2. Pair(a, i)' <=> Pair(a, i)
      BY <2>1, <2>4 DEF Pair
    <3> QED
      BY <3>1, <3>2
  <2>5. Held(b, j)' <=> Pair(b, j)'
    <3>1. Held(b, j)' <=> g # "none"
      BY <1>0, <2>1, <2>3 DEF Held
    <3>2. Pair(b, j)' <=> g # "none"
      BY <2>1 DEF Pair
    <3> QED
      BY <3>1, <3>2
  <2>6. \A a \in AgentIds, i \in ServerIds :
            Held(a, i)' \/ Pair(a, i)' => Held(a, i) \/ Pair(a, i) \/ (a \in used /\ i \in used)
    BY <2>3, <2>4
  <2>7. \A a \in AgentIdsOf(config), i \in ServerIdsOf(config) :
            \/ (Held(a, i)' <=> Held(a, i)) /\ (Pair(a, i)' <=> Pair(a, i))
            \/ Held(a, i)' <=> Pair(a, i)'
    BY <1>0, <2>4, <2>5
  <2> QED
    BY <2>1, <2>6, <2>7, PolicyKeepsGiven DEF Held, Pair
<1>6. ASSUME NEW b \in AgentIds, CutPolicy(b) PROVE GivenInv'
  <2>1. /\ b \in holm.agents /\ config' = config /\ used' = used /\ given' = given
        /\ holm' = Removal(holm.agents \ {b}, holm.servers)
        /\ \A a \in AgentIds : a # b => policies'[a] = policies[a]
        /\ \/ policies' = policies
           \/ policies'[b] = [i \in ServerIds |-> IF i \in holm.servers THEN "none"
                                                  ELSE policies[b][i]]
    BY <1>0, <1>6 DEF CutPolicy, Cut
  <2>2. holm' = Rest \/ (holm'.agents \subseteq holm.agents /\ holm'.servers = holm.servers)
    <3>1. CASE holm.agents \ {b} = {}
      BY <2>1, <3>1 DEF Removal
    <3>2. CASE holm.agents \ {b} # {}
      <4>1. holm' = [agents |-> holm.agents \ {b}, servers |-> holm.servers]
        BY <2>1, <3>2 DEF Removal
      <4> QED
        BY <4>1
    <3> QED
      BY <3>1, <3>2
  <2>3. ASSUME NEW a \in AgentIds, NEW i \in ServerIds
        PROVE  /\ Held(a, i)' => Held(a, i)
               /\ ~ (a = b /\ i \in holm.servers) => (Held(a, i)' <=> Held(a, i))
    BY <1>0, <2>1 DEF Held
  <2>4. \A a \in AgentIdsOf(config), i \in ServerIdsOf(config) : Held(a, i)' <=> Held(a, i)
    BY <1>0, <2>1, <2>3 DEF GivenInv
  <2> QED
    BY <2>1, <2>2, <2>3, <2>4, PolicyKeepsGiven DEF Held, Pair
<1>7. CASE HolmDies
  <2>1. /\ config' = config /\ used' = used /\ holm' = Rest /\ given' = given
        /\ policies' = policies
    BY <1>7 DEF HolmDies
  <2>2. \A a \in AgentIds, i \in ServerIds :
            (Held(a, i)' <=> Held(a, i)) /\ (Pair(a, i)' <=> Pair(a, i))
    BY <2>1 DEF Held, Pair
  <2> QED
    BY <1>0, <2>1, <2>2, PolicyKeepsGiven DEF Held, Pair
<1>8. CASE HandEdit
  <2>1. /\ config'.agents = config.agents /\ config'.servers = config.servers
        /\ used' = used /\ holm' = holm /\ given' = given /\ policies' = policies
    BY <1>0, <1>8 DEF HandEdit, Config
  <2>2. AgentIdsOf(config') = AgentIdsOf(config) /\ ServerIdsOf(config') = ServerIdsOf(config)
    BY <2>1 DEF AgentIdsOf, ServerIdsOf
  <2> QED
    BY <2>1, <2>2 DEF GivenInv, GrantsAsGiven
<1> QED
  BY <1>1, <1>2, <1>3, <1>4, <1>5, <1>6, <1>7, <1>8 DEF HolmNext

LEMMA StepKeepsGiven == TypeInv /\ IdInv /\ GivenInv /\ [Next]_vars => GivenInv'
<1> SUFFICES ASSUME TypeInv, IdInv, GivenInv, [Next]_vars PROVE GivenInv'
  OBVIOUS
<1>1. CASE HolmNext
  BY <1>1, HolmGiven
<1>2. CASE UNCHANGED diskVars
  BY <1>2 DEF diskVars, GivenInv, GrantsAsGiven
<1> QED
  BY <1>1, <1>2, CallFrame DEF Next, DaemonNext, Reload, ServerUp, ServerDown, vars

\* Of the agents and servers that config.json has, the policies say what was granted to
\* them and on them, and neither more nor less, whatever removals died half-way, left
\* a policy they could not unlink, or rewrote the policies of others.
THEOREM GrantsStayAsGiven == Spec => []GrantsAsGiven
<1>1. Init => GivenInv
  <2> SUFFICES ASSUME Init PROVE GivenInv
    OBVIOUS
  <2>1. config \in Config
    BY DEF Init
  <2>2. AgentIdsOf(config) \subseteq AgentIds /\ ServerIdsOf(config) \subseteq ServerIds
    BY <2>1, IdTypes
  <2>3. \A a \in AgentIds, i \in ServerIds : <<a, i>> \in given <=> policies[a][i] # "none"
    BY DEF Init
  <2>4. \A a \in AgentIds, i \in ServerIds : policies[a][i] # "none" => a \in used /\ i \in used
    BY DEF Init
  <2>5. holm.agents = {}
    BY DEF Init, Rest
  <2> QED
    BY <2>2, <2>3, <2>4, <2>5 DEF GivenInv, GrantsAsGiven
<1>2. GivenInv => GrantsAsGiven
  BY DEF GivenInv
<1> QED
  BY <1>1, <1>2, StepKeepsGiven, IdsHold, PTL DEF Spec
--------------------------------------------------------------------------------
(* An outage is not reported as a denial.                                  *)

\* A search has every granted server before it or behind it.
Asking(q) ==
    /\ Distinct(q.names)
    /\ \A s \in Granted(q) : s \in q.answered \cup q.down \cup {q.cur} \/ q.names[s] \in q.todo
Unread(q) == q.cur = None /\ \A s \in Servers : q.names[s] = None
Denied(q) == q.pc = "done" /\ q.record.decision = "denied" /\ q.cur = None
Searching(q) ==
    /\ q.pc \in {"dispatch", "loaded"} => Unread(q)
    /\ q.pc = "listing" => Asking(q)
    /\ Denied(q) => q.silent = {}

SearchInv == \A r \in Calls : Searching(call[r])

\* What a call that ends leaves of itself.
LEMMA EndSays ==
    ASSUME TypeInv, NEW r \in Calls, NEW q \in Call, q.name \in Agents,
           NEW server \in Servers \cup {None},
           NEW decision \in {"allowed", "denied", "error"}, End(r, q, server, decision)
    PROVE  /\ call'[r].pc = "done" /\ call'[r].cur = server
           /\ call'[r].record.decision \in {decision, "none"}
           /\ call'[r].silent = Granted(q) \ q.answered
           /\ \A o \in Calls \ {r} : call'[o] = call[o]
<1>1. call \in [Calls -> Call]
  BY DEF TypeInv, TypeOK
<1>2. Recorded(q, server, decision).decision \in {decision, "none"}
  BY DEF Recorded, NoRecord
<1>3. /\ call'[r].pc = "done" /\ call'[r].cur = server
      /\ call'[r].record = Recorded(q, server, decision)
      /\ call'[r].silent = Granted(q) \ q.answered
  BY <1>1 DEF End, NoCall
<1>4. \A o \in Calls \ {r} : call'[o] = call[o]
  BY <1>1 DEF End
<1> QED
  BY <1>2, <1>3, <1>4

\* The search passes over a server only when it puts it down as unreachable.
LEMMA SearchAsks ==
    ASSUME TypeInv, NEW r \in Calls, NEW q \in Call, q.name \in Agents, q.cur = None,
           Asking(q), Search(r, q)
    PROVE  Searching(call'[r]) /\ \A o \in Calls \ {r} : call'[o] = call[o]
<1> DEFINE silent == {i \in q.todo : \A s \in Servers : q.names[s] = i => table[s] = None}
           down == q.down \cup Unreachable(q, silent)
<1>0. call \in [Calls -> Call] /\ q.names \in [Servers -> ServerIds \cup {None}]
  BY DEF TypeInv, TypeOK, Call
<1>1. ASSUME NEW s \in Servers, NEW skip \in SUBSET silent, q.names[s] \in q.todo \ silent,
             call' = [call EXCEPT ![r] =
                 [q EXCEPT !.pc = "listing", !.cur = s, !.lost = FALSE,
                           !.todo = @ \ (skip \cup {q.names[s]}),
                           !.down = @ \cup Unreachable(q, skip)]]
      PROVE  Searching(call'[r]) /\ \A o \in Calls \ {r} : call'[o] = call[o]
  <2> DEFINE on == [q EXCEPT !.pc = "listing", !.cur = s, !.lost = FALSE,
                             !.todo = @ \ (skip \cup {q.names[s]}),
                             !.down = @ \cup Unreachable(q, skip)]
  <2>1. /\ on.pc = "listing" /\ on.cur = s /\ on.listed = q.listed /\ on.names = q.names
        /\ on.answered = q.answered /\ on.down = q.down \cup Unreachable(q, skip)
        /\ on.todo = q.todo \ (skip \cup {q.names[s]})
    BY DEF Call
  <2>2. call'[r] = on /\ \A o \in Calls \ {r} : call'[o] = call[o]
    BY <1>0, <1>1
  <2> HIDE DEF on
  <2>3. ASSUME NEW t \in Granted(on)
        PROVE  t \in on.answered \cup on.down \cup {on.cur} \/ on.names[t] \in on.todo
    <3>1. t \in Granted(q) /\ t \in Servers /\ q.names[t] # None
      BY <2>1, NoneIsNothing DEF Granted, Call
    <3>2. t \in q.answered \cup q.down \/ q.names[t] \in q.todo
      <4>1. t # None
        BY <3>1, NoneIsNothing
      <4> QED
        BY <3>1, <4>1 DEF Asking
    <3>3. q.names[t] \in skip => t \in Unreachable(q, skip)
      BY <3>1 DEF Unreachable
    <3>4. q.names[t] = q.names[s] => t = s
      BY <3>1 DEF Asking, Distinct
    <3> QED
      BY <2>1, <3>2, <3>3, <3>4
  <2>4. Distinct(on.names)
    BY <2>1 DEF Asking
  <2> QED
    BY <2>1, <2>2, <2>3, <2>4 DEF Searching, Asking, Denied
<1>2. ASSUME q.todo = silent, down = {}, End(r, q, None, "denied")
      PROVE  Searching(call'[r]) /\ \A o \in Calls \ {r} : call'[o] = call[o]
  <2>1. /\ call'[r].pc = "done" /\ call'[r].silent = Granted(q) \ q.answered
        /\ \A o \in Calls \ {r} : call'[o] = call[o]
    BY <1>2, EndSays
  <2>2. ASSUME NEW t \in Granted(q)
        PROVE  t \in q.answered
    <3>1. t \in Servers /\ t # None
      BY NoneIsNothing DEF Granted
    <3>2. t \notin q.down /\ t \notin Unreachable(q, silent)
      BY <1>2
    <3>3. q.names[t] \notin q.todo
      BY <1>2, <3>1, <3>2 DEF Unreachable
    <3> QED
      BY <3>1, <3>2, <3>3 DEF Asking
  <2> QED
    BY <2>1, <2>2 DEF Searching
<1>3. ASSUME down # {},
             End(r, q, IF Cardinality(down) = 1 THEN CHOOSE s \in down : TRUE ELSE None,
                 "error")
      PROVE  Searching(call'[r]) /\ \A o \in Calls \ {r} : call'[o] = call[o]
  <2>1. down \subseteq Servers
    BY DEF Unreachable, Call
  <2>2. (CHOOSE s \in down : TRUE) \in down
    BY <1>3
  <2>3. (IF Cardinality(down) = 1 THEN CHOOSE s \in down : TRUE ELSE None)
            \in Servers \cup {None}
    BY <2>1, <2>2
  <2>4. /\ call'[r].pc = "done" /\ call'[r].record.decision \in {"error", "none"}
        /\ \A o \in Calls \ {r} : call'[o] = call[o]
    BY <1>3, <2>3, EndSays
  <2> QED
    BY <2>4 DEF Searching, Denied
<1> HIDE DEF down
<1>4. \/ \E s \in Servers, skip \in SUBSET silent :
            /\ q.names[s] \in q.todo \ silent
            /\ call' = [call EXCEPT ![r] =
                 [q EXCEPT !.pc = "listing", !.cur = s, !.lost = FALSE,
                           !.todo = @ \ (skip \cup {q.names[s]}),
                           !.down = @ \cup Unreachable(q, skip)]]
      \/ q.todo = silent /\ down = {} /\ End(r, q, None, "denied")
      \/ down # {} /\ End(r, q, IF Cardinality(down) = 1 THEN CHOOSE s \in down : TRUE
                                ELSE None, "error")
  BY DEF Search, down
<1> QED
  BY <1>1, <1>2, <1>3, <1>4

\* A step that is none of the search's leaves what is said of it.
LEMMA SameSearch ==
    ASSUME NEW r \in Calls, call'[r].pc = call[r].pc,
           call'[r].pc \in {"dispatch", "loaded", "listing", "done"} =>
              /\ call'[r].names = call[r].names /\ call'[r].listed = call[r].listed
              /\ call'[r].answered = call[r].answered /\ call'[r].down = call[r].down
              /\ call'[r].cur = call[r].cur /\ call'[r].todo = call[r].todo
              /\ call'[r].record = call[r].record /\ call'[r].silent = call[r].silent,
           Searching(call[r])
    PROVE  Searching(call'[r])
BY DEF Searching, Unread, Asking, Denied, Granted

\* What a command adds to a call is none of the search's.
LEMMA HolmSearches == ASSUME TypeInv, SearchInv, HolmNext PROVE SearchInv'
<1> SUFFICES ASSUME NEW r \in Calls PROVE Searching(call'[r])
  BY DEF SearchInv
<1> QED
  BY HolmWatches, WatchedCall, SameSearch DEF SearchInv

\* A call asks every server it was granted, or ends another way.
LEMMA CallSearches ==
    ASSUME TypeInv, IdInv, SearchInv, NEW r \in Calls, CallNext(r) \/ Resolve(r)
    PROVE  SearchInv'
<1> DEFINE q == call[r]
           Told == Searching(call'[r]) /\ \A o \in Calls \ {r} : call'[o] = call[o]
<1>0. q \in Call /\ call \in [Calls -> Call] /\ mem \in Config /\ config \in Config
  BY DEF TypeInv, TypeOK
<1> SUFFICES Told
  BY DEF SearchInv
<1>2. ASSUME NEW e \in Call, e.pc \notin {"dispatch", "loaded", "listing", "done"}, call' = [call EXCEPT ![r] = e]
      PROVE  Told
  <2>1. call'[r] = e /\ \A o \in Calls \ {r} : call'[o] = call[o]
    BY <1>0, <1>2
  <2> QED
    BY <1>2, <2>1 DEF Searching, Denied
<1>3. ASSUME NEW k \in Keys, Unauthorized(r, k) PROVE Told
  <2>1. call' = [call EXCEPT ![r] = NoCall] /\ NoCall.pc = "idle"
    BY <1>3 DEF Unauthorized, NoCall
  <2> QED
    BY <1>2, <2>1, NoCallTypes
<1>4. ASSUME NEW k \in Keys, Authenticate(r, k) PROVE Told
  <2>1. PICK n \in Resolved(k) :
          call' = [call EXCEPT ![r] =
                [NoCall EXCEPT !.pc = "dispatch", !.name = n, !.id = config.agents[n].id,
                    !.granted = GrantedNow(config, policies, config.agents[n].id)]]
    BY <1>4 DEF Authenticate
  <2>2. /\ call'[r].pc = "dispatch" /\ call'[r].cur = None
        /\ call'[r].names = [s \in Servers |-> None]
        /\ \A o \in Calls \ {r} : call'[o] = call[o]
    BY <1>0, <2>1 DEF NoCall
  <2> QED
    BY <2>2 DEF Searching, Unread, Denied
<1>5. CASE Load(r)
  <2>1. q.name \in Agents /\ q.pc = "dispatch" /\ Unread(q)
    BY <1>5 DEF Load, TypeInv, Named, Active, SearchInv, Searching
  <2>2. CASE ~ mem.ok
    <3>1. End(r, q, None, "error")
      BY <1>5, <2>2 DEF Load
    <3> QED
      BY <1>0, <2>1, <3>1, EndSays DEF Searching, Denied
  <2>3. CASE mem.ok /\ mem.agents[q.name] = None
    <3>1. End(r, q, None, "denied")
      BY <1>5, <2>3 DEF Load
    <3>2. Granted(q) = {}
      BY <1>0, <2>1, NoneIsNothing DEF Granted, Unread, Call
    <3> QED
      BY <1>0, <2>1, <3>1, <3>2, EndSays DEF Searching, Denied
  <2>4. CASE mem.ok /\ mem.agents[q.name] # None
    <3> DEFINE read == [q EXCEPT !.pc = "loaded",
                           !.engine = {i \in ServerIds : PolicyOf(q.name)[i] = "match"}]
    <3>1. read.pc = "loaded" /\ read.cur = q.cur /\ read.names = q.names
      BY <1>0 DEF Call
    <3>2. call' = [call EXCEPT ![r] = read]
      BY <1>5, <2>4 DEF Load
    <3> HIDE DEF read
    <3>3. call'[r] = read /\ \A o \in Calls \ {r} : call'[o] = call[o]
      BY <1>0, <3>2
    <3> QED
      BY <2>1, <3>1, <3>3 DEF Searching, Unread, Denied
  <2> QED
    BY <2>2, <2>3, <2>4
<1>12. CASE Resolve(r)
  <2> DEFINE listed == {i \in ServerIds : PolicyOf(q.name)[i] # "none"}
             read == [q EXCEPT !.listed = listed, !.todo = listed, !.names = mem.servers]
  <2>1. q.name \in Agents /\ q.pc = "loaded" /\ q.cur = None
    BY <1>12 DEF Resolve, TypeInv, Named, Active, SearchInv, Searching, Unread
  <2>2. /\ read \in Call /\ read.name = q.name /\ read.cur = q.cur
        /\ read.listed = listed /\ read.names = mem.servers /\ read.todo = listed
    BY <1>0 DEF Call, Config
  <2>3. Search(r, read)
    BY <1>12 DEF Resolve
  <2>4. Asking(read)
    BY <2>2 DEF Asking, Granted, IdInv, OneName
  <2> HIDE DEF read
  <2> QED
    BY <2>1, <2>2, <2>3, <2>4, SearchAsks
<1>6. CASE ListAnswers(r)
  <2> DEFINE on == [q EXCEPT !.cur = None, !.answered = @ \cup {q.cur}]
  <2>1. q.name \in Agents /\ q.cur \in Servers /\ q.pc = "listing" /\ Asking(q)
    BY <1>6 DEF ListAnswers, TypeInv, Named, Active, SearchInv, Searching
  <2>2. /\ on \in Call /\ on.name = q.name /\ on.cur = None /\ on.names = q.names
        /\ on.listed = q.listed /\ on.todo = q.todo /\ on.down = q.down
        /\ on.answered = q.answered \cup {q.cur}
    BY <1>0, <2>1 DEF Call
  <2>3. Search(r, on)
    BY <1>6 DEF ListAnswers
  <2> HIDE DEF on
  <2>4. Asking(on)
    BY <2>1, <2>2 DEF Asking, Granted
  <2> QED
    BY <2>1, <2>2, <2>3, <2>4, SearchAsks
<1>7. CASE ListFails(r)
  <2> DEFINE on == [q EXCEPT !.cur = None, !.down = @ \cup {q.cur}]
  <2>1. q.name \in Agents /\ q.cur \in Servers /\ q.pc = "listing" /\ Asking(q)
    BY <1>7 DEF ListFails, TypeInv, Named, Active, SearchInv, Searching
  <2>2. /\ on \in Call /\ on.name = q.name /\ on.cur = None /\ on.names = q.names
        /\ on.listed = q.listed /\ on.todo = q.todo /\ on.answered = q.answered
        /\ on.down = q.down \cup {q.cur}
    BY <1>0, <2>1 DEF Call
  <2>3. Search(r, on)
    BY <1>7 DEF ListFails
  <2> HIDE DEF on
  <2>4. Asking(on)
    BY <2>1, <2>2 DEF Asking, Granted
  <2> QED
    BY <2>1, <2>2, <2>3, <2>4, SearchAsks
<1>8. CASE Found(r)
  <2> DEFINE on == [q EXCEPT !.answered = @ \cup {q.cur}]
             sent == [on EXCEPT !.pc = "waiting", !.sid = IdOf(on.cur), !.lost = FALSE]
  <2>1. q.name \in Agents /\ q.cur \in Servers
    BY <1>8 DEF Found, TypeInv, Named, Active
  <2>2. on \in Call /\ on.name = q.name /\ on.cur = q.cur
    BY <1>0, <2>1 DEF Call
  <2>3. sent.pc = "waiting"
    BY <1>0, <2>2 DEF Call
  <2>4. \/ \E decision \in {"allowed", "denied", "error"} : End(r, on, on.cur, decision)
        \/ call' = [call EXCEPT ![r] = sent]
    BY <1>8 DEF Found
  <2> HIDE DEF on, sent
  <2>5. CASE \E decision \in {"allowed", "denied", "error"} : End(r, on, on.cur, decision)
    <3>1. call'[r].pc = "done" /\ call'[r].cur = q.cur /\ \A o \in Calls \ {r} : call'[o] = call[o]
      BY <2>1, <2>2, <2>5, EndSays
    <3> QED
      BY <2>1, <3>1, NoneIsNothing DEF Searching, Denied
  <2>6. CASE call' = [call EXCEPT ![r] = sent]
    <3>1. call'[r] = sent /\ \A o \in Calls \ {r} : call'[o] = call[o]
      BY <1>0, <2>6
    <3> QED
      BY <2>3, <3>1 DEF Searching, Denied
  <2> QED
    BY <2>4, <2>5, <2>6
<1>9. CASE Send(r)
  <2>1. call'[r].pc = "calling" /\ \A o \in Calls \ {r} : call'[o] = call[o]
    BY <1>0, <1>9 DEF Send, Call
  <2> QED
    BY <2>1 DEF Searching, Denied
<1>10. CASE CallOver(r)
  <2>1. q.name \in Agents /\ q.cur \in Servers /\ End(r, q, q.cur, "allowed")
    BY <1>10 DEF CallOver, TypeInv, Named, Active
  <2>2. /\ call'[r].pc = "done" /\ call'[r].cur = q.cur
        /\ \A o \in Calls \ {r} : call'[o] = call[o]
    BY <1>0, <2>1, EndSays
  <2> QED
    BY <2>1, <2>2, NoneIsNothing DEF Searching, Denied
<1>11. CASE Disconnect(r)
  <2>1. call' = [call EXCEPT ![r] = NoCall] /\ NoCall.pc = "idle"
    BY <1>11 DEF Disconnect, NoCall
  <2> QED
    BY <1>2, <2>1, NoCallTypes
<1> QED
  BY <1>3, <1>4, <1>5, <1>6, <1>7, <1>8, <1>9, <1>10, <1>11,
     <1>12 DEF CallNext

\* Every step keeps the ids of servers apart and every search complete.
LEMMA StepKeepsSearches == TypeInv /\ IdInv /\ SearchInv /\ [Next]_vars => SearchInv'
<1> SUFFICES ASSUME TypeInv, IdInv, SearchInv, [Next]_vars PROVE SearchInv'
  OBVIOUS
<1>1. CASE HolmNext
  BY <1>1, HolmSearches
<1>2. CASE Reload \/ UNCHANGED vars
  BY <1>2 DEF Reload, vars, SearchInv
<1>3. ASSUME NEW s \in Servers, ServerUp(s) \/ ServerDown(s) PROVE SearchInv'
  <2> SUFFICES ASSUME NEW r \in Calls PROVE Searching(call'[r])
    BY DEF SearchInv
  <2>1. call[r] \in Call /\ (call'[r] = call[r] \/ call'[r] = [call[r] EXCEPT !.lost = TRUE])
    BY <1>3 DEF ServerUp, ServerDown, TypeInv, TypeOK
  <2>2. /\ call'[r].pc = call[r].pc
        /\ call'[r].names = call[r].names /\ call'[r].listed = call[r].listed
        /\ call'[r].answered = call[r].answered /\ call'[r].down = call[r].down
        /\ call'[r].cur = call[r].cur /\ call'[r].todo = call[r].todo
        /\ call'[r].record = call[r].record /\ call'[r].silent = call[r].silent
    BY <2>1 DEF Call
  <2> QED
    BY <2>2, SameSearch DEF SearchInv
<1>4. ASSUME NEW r \in Calls, CallNext(r) \/ Resolve(r) PROVE SearchInv'
  BY <1>4, CallSearches
<1> QED
  BY <1>1, <1>2, <1>3, <1>4 DEF Next, DaemonNext

\* A call is denied as granted nothing only after every server its policy names, and
\* the configuration it read has, has answered that it does not have the tool: one
\* that is down, goes down or fails under the search makes it an error
\* (gateway.py:260-262).
THEOREM DenialsAreAnswered == Spec => []OutageIsNotDenial
<1>1. Init => SearchInv
  <2> SUFFICES ASSUME Init PROVE SearchInv
    OBVIOUS
  <2> QED
    BY DEF Init, NoCall, Searching, Denied, SearchInv
<1>2. SearchInv => OutageIsNotDenial
  BY DEF SearchInv, Searching, Denied, OutageIsNotDenial
<1> QED
  BY <1>1, <1>2, StepKeepsSearches, IdsHold, PTL DEF Spec
================================================================================
