-------------------------- MODULE GrantMigration_proofs ------------------------
(***************************************************************************)
(* The migration steps and the decisions after them, for any 0.1.x states, *)
(* any canonical forms of names, any calls and any number of swaps that    *)
(* stop half-way; and what a glob matches, for any pattern and any value.  *)
(***************************************************************************)
EXTENDS GrantMigration, FiniteSetTheorems, WellFoundedInduction, TLAPS

(***************************************************************************)
(* What a state is on its way to schema 1.                                 *)
(***************************************************************************)

\* Everybody's id, once they all have one.
Ids == Backfill(world.agents, "agt")
ServerIds == Backfill(world.servers, "srv")

\* The agent a 0.1.x file is taken for, whether its document is that agent's, and what
\* becomes of it then; or why it is set aside.
TakenFor(f) == ResolveAgent(world.agents, f[2])
Fits(f, n) ==
    /\ n \in DOMAIN world.agents /\ f \in DOMAIN world.policies /\ TakenFor(f) = n
    /\ world.policies[f] # Torn /\ ~ Claims(world.agents, world.policies[f], n)
Converted(f, n) ==
    [owner |-> Ids[n].id, permissions |-> ById(ServerIds, world.policies[f].permissions)]
Unfit(f) ==
    /\ f \in DOMAIN world.policies
    /\ TakenFor(f) # None =>
          world.policies[f] # Torn /\ Claims(world.agents, world.policies[f], TakenFor(f))

IsState(s) ==
    s = [agents |-> s.agents, servers |-> s.servers, policies |-> s.policies, aside |-> s.aside]

\* The config of schema 1: ids, and the hashes as far as they were carried.
HasIds(s) ==
    /\ s.servers = ServerIds
    /\ DOMAIN s.agents = DOMAIN world.agents
    /\ \A n \in DOMAIN s.agents : s.agents[n] \in [id : {Ids[n].id}, hash : {n, None}]

\* The policies once all but these files have been looked at: a file is still what it
\* was, or has become its agent's, or was set aside.
Sorted(s, left) ==
    /\ left \subseteq DOMAIN s.policies
    /\ \A f \in DOMAIN s.policies :
          \/ f \in left \cap DOMAIN world.policies /\ s.policies[f] = world.policies[f]
          \/ \E n \in DOMAIN world.agents, g \in DOMAIN world.policies :
                Fits(g, n) /\ f = Ids[n].id /\ s.policies[f] = Converted(g, n)
    /\ \A g \in DOMAIN world.policies :
          \/ g \in s.aside \/ g \in left
          \/ \E n \in DOMAIN world.agents : Fits(g, n) /\ Ids[n].id \in DOMAIN s.policies
    /\ \A g \in s.aside : Unfit(g)

\* The state of 0.1.x; its policies, next to a config of either schema; schema 1 whole.
OldConfig(s) == s.agents = world.agents /\ s.servers = world.servers
OldPolicies(s) == s.policies = world.policies /\ s.aside = {}

(***************************************************************************)
(* The inductive invariant.                                                *)
(***************************************************************************)

Live ==
    /\ IsState(live)
    /\ \/ marker = 0 /\ OldConfig(live) /\ OldPolicies(live)
       \/ marker = 0 /\ HasIds(live) /\ OldPolicies(live)
       \/ HasIds(live) /\ Sorted(live, {})

Copy ==
    staged # NoCopy =>
        /\ IsState(staged) /\ HasIds(staged) /\ Sorted(staged, todo)
        /\ marker = 0 \/ (marker = 1 /\ todo = {})

\* Once the keyring could be read, the hashes are carried and not lost again.
Hashes ==
    /\ readable => keyring = "open"
    /\ readable /\ marker = 1 /\ staged # NoCopy =>
          \A n \in DOMAIN staged.agents : staged.agents[n].hash = n
    /\ readable /\ marker = 2 => \A n \in DOMAIN live.agents : live.agents[n].hash = n

\* The decision was made of the state as it is.
Asked ==
    \/ asked = None
    \/ /\ marker = 2
       /\ \E n \in DOMAIN live.agents, call \in Calls(world) :
             asked = [agent |-> n, call |-> call, allowed |-> Decides(n, call)]

GrantInv == world \in Worlds /\ TypeOK /\ Live /\ Copy /\ Hashes /\ Asked

--------------------------------------------------------------------------------
(* Names and ids.                                                          *)

\* Whoever has no id gets one of their own, and no id is nobody's.
LEMMA IdsAre ==
    ASSUME world \in Worlds
    PROVE  /\ DOMAIN Ids = DOMAIN world.agents
           /\ \A n \in DOMAIN world.agents :
                 /\ Ids[n].id \in {<<"minted", n>>, <<"agt", n>>} /\ Ids[n].id # None
                 /\ Ids[n] \in [id : {Ids[n].id}, hash : {n, None}]
                 /\ IsId(Ids[n].id)
           /\ \A m, n \in DOMAIN world.agents : Ids[m].id = Ids[n].id => m = n
<1>1. DOMAIN Ids = DOMAIN world.agents
  BY DEF Ids, Backfill
<1>2. ASSUME NEW n \in DOMAIN world.agents
      PROVE  /\ Ids[n].id \in {<<"minted", n>>, <<"agt", n>>}
             /\ Ids[n] \in [id : {Ids[n].id}, hash : {n, None}]
  <2>1. world.agents[n] \in [id : {None, <<"minted", n>>}, hash : {None}]
    BY WorldsAreStates
  <2>2. Ids[n] = [world.agents[n] EXCEPT !.id = IF @ = None THEN <<"agt", n>> ELSE @]
    BY DEF Ids, Backfill
  <2> QED
    BY <2>1, <2>2
<1>3. ASSUME NEW n \in DOMAIN world.agents
      PROVE  Ids[n].id # None /\ IsId(Ids[n].id)
  <2>1. None \notin {<<"minted", n>>, <<"agt", n>>}
    BY NoneIsNoId
  <2>2. \A x \in {<<"minted", n>>, <<"agt", n>>} : x[1] # "name"
    OBVIOUS
  <2> QED
    BY <1>2, <2>1, <2>2 DEF IsId
<1>4. ASSUME NEW m \in DOMAIN world.agents, NEW n \in DOMAIN world.agents, Ids[m].id = Ids[n].id
      PROVE  m = n
  <2>1. \A x \in {<<"minted", m>>, <<"agt", m>>} : x[2] = m
    OBVIOUS
  <2>2. \A x \in {<<"minted", n>>, <<"agt", n>>} : x[2] = n
    OBVIOUS
  <2> QED
    BY <1>2, <1>4, <2>1, <2>2
<1> QED
  BY <1>1, <1>2, <1>3, <1>4

\* So has every server.
LEMMA ServerIdsAre ==
    ASSUME world \in Worlds
    PROVE  /\ DOMAIN ServerIds = DOMAIN world.servers
           /\ \A s, t \in DOMAIN world.servers : ServerIds[s].id = ServerIds[t].id => s = t
<1>1. DOMAIN ServerIds = DOMAIN world.servers
  BY DEF ServerIds, Backfill
<1>2. ASSUME NEW s \in DOMAIN world.servers
      PROVE  ServerIds[s].id \in {<<"minted", s>>, <<"srv", s>>}
  <2>1. world.servers[s] \in [id : {None, <<"minted", s>>}]
    BY WorldsAreStates
  <2>2. ServerIds[s] = [world.servers[s] EXCEPT !.id = IF @ = None THEN <<"srv", s>> ELSE @]
    BY DEF ServerIds, Backfill
  <2> QED
    BY <2>1, <2>2
<1>3. ASSUME NEW s \in DOMAIN world.servers, NEW t \in DOMAIN world.servers,
             ServerIds[s].id = ServerIds[t].id
      PROVE  s = t
  <2>1. \A x \in {<<"minted", s>>, <<"srv", s>>} : x[2] = s
    OBVIOUS
  <2>2. \A x \in {<<"minted", t>>, <<"srv", t>>} : x[2] = t
    OBVIOUS
  <2> QED
    BY <1>2, <1>3, <2>1, <2>2
<1> QED
  BY <1>1, <1>3

\* A second backfill changes nothing.
LEMMA BackfilledOnce ==
    ASSUME world \in Worlds, NEW s, HasIds(s)
    PROVE  /\ Backfill(s.servers, "srv") = ServerIds
           /\ Backfill(s.agents, "agt") = [n \in DOMAIN s.agents |-> s.agents[n]]
<1>1. ASSUME NEW n \in DOMAIN s.agents
      PROVE  [s.agents[n] EXCEPT !.id = IF @ = None THEN <<"agt", n>> ELSE @] = s.agents[n]
  <2>1. s.agents[n] \in [id : {Ids[n].id}, hash : {n, None}] /\ Ids[n].id # None
    BY IdsAre DEF HasIds
  <2> QED
    BY <2>1
<1>2. ASSUME NEW t \in DOMAIN ServerIds
      PROVE  [ServerIds[t] EXCEPT !.id = IF @ = None THEN <<"srv", t>> ELSE @] = ServerIds[t]
  <2>1. t \in DOMAIN world.servers /\ world.servers[t] \in [id : {None, <<"minted", t>>}]
    BY ServerIdsAre, WorldsAreStates
  <2>2. ServerIds[t] = [world.servers[t] EXCEPT !.id = IF @ = None THEN <<"srv", t>> ELSE @]
    BY <2>1 DEF ServerIds, Backfill
  <2> QED
    BY <2>1, <2>2
<1>3. Backfill(ServerIds, "srv") = ServerIds
  <2>1. ServerIds = [t \in DOMAIN ServerIds |-> ServerIds[t]]
    BY ServerIdsAre DEF ServerIds, Backfill
  <2> QED
    BY <1>2, <2>1 DEF Backfill
<1> QED
  BY <1>1, <1>3 DEF Backfill, HasIds

\* The agent a file is taken for has a name of the same text, and the very name if there
\* is one; whom it is taken for is a matter of the agents' names only.
LEMMA TakenForOne ==
    ASSUME world \in Worlds, NEW n \in DOMAIN Nfc
    PROVE  /\ \/ ResolveAgent(world.agents, n) = None
              \/ /\ ResolveAgent(world.agents, n) \in DOMAIN world.agents
                 /\ SameText(n, ResolveAgent(world.agents, n))
           /\ n \in DOMAIN world.agents => ResolveAgent(world.agents, n) = n
           /\ \A m \in DOMAIN world.agents :
                 SameText(n, m) /\ {Nfc[m], Nfd[m]} \cap DOMAIN world.agents = {m}
                 /\ n \notin DOMAIN world.agents => ResolveAgent(world.agents, n) = m
<1> DEFINE forms == {Nfc[n], Nfd[n]} \cap DOMAIN world.agents
<1>1. n \in DOMAIN world.agents => ResolveAgent(world.agents, n) = n
  BY DEF ResolveAgent
<1>2. ASSUME n \notin DOMAIN world.agents, Cardinality(forms) = 1
      PROVE  /\ ResolveAgent(world.agents, n) \in DOMAIN world.agents
             /\ SameText(n, ResolveAgent(world.agents, n))
  <2>1. forms # {}
    BY <1>2, FS_EmptySet
  <2>2. ResolveAgent(world.agents, n) \in forms
    BY <1>2, <2>1 DEF ResolveAgent
  <2>3. Nfc[Nfc[n]] = Nfc[n] /\ Nfc[Nfd[n]] = Nfc[n]
    BY FormsAreForms
  <2> QED
    BY <2>2, <2>3 DEF SameText
<1>3. n \notin DOMAIN world.agents /\ Cardinality(forms) # 1 => ResolveAgent(world.agents, n) = None
  BY DEF ResolveAgent
<1>4. ASSUME NEW m \in DOMAIN world.agents, SameText(n, m),
             {Nfc[m], Nfd[m]} \cap DOMAIN world.agents = {m}, n \notin DOMAIN world.agents
      PROVE  ResolveAgent(world.agents, n) = m
  <2>1. m \in DOMAIN Nfc
    BY WorldsAreStates
  <2>2. Nfc[n] = Nfc[m]
    BY <1>4 DEF SameText
  <2>3. Nfd[n] = Nfd[Nfc[n]] /\ Nfd[m] = Nfd[Nfc[m]]
    BY <2>1, FormsAreForms
  <2>4. forms = {m}
    BY <1>4, <2>2, <2>3
  <2>5. Cardinality(forms) = 1 /\ (CHOOSE f \in forms : TRUE) = m
    BY <2>4, FS_Singleton
  <2> QED
    BY <1>4, <2>5 DEF ResolveAgent
<1> QED
  BY <1>1, <1>2, <1>3, <1>4 DEF SameText

\* Whom a file is taken for, and claims, are matters of the agents' names only.
LEMMA TakenByName ==
    ASSUME NEW a, NEW b, DOMAIN a = DOMAIN b, NEW n
    PROVE  /\ ResolveAgent(a, n) = ResolveAgent(b, n)
           /\ \A doc, agent : Claims(a, doc, agent) = Claims(b, doc, agent)
  BY DEF ResolveAgent, Claims

\* A file of 0.1.x is named by an agent's name, and is no id.
LEMMA StemIs ==
    ASSUME world \in Worlds, NEW f \in DOMAIN world.policies
    PROVE  f[2] \in DOMAIN Nfc /\ f = Name(f[2]) /\ ~ IsId(f)
<1>1. PICK n \in DOMAIN Nfc : f = Name(n)
  BY WorldsAreStates
<1> QED
  BY <1>1 DEF Name, IsId

--------------------------------------------------------------------------------
(* What a step makes of the copy.                                          *)

\* A copy whose documents all can be read as far as they have to be, one file further.
LEMMA RekeyedIsSorted ==
    ASSUME world \in Worlds, NEW s, IsState(s), HasIds(s), NEW left, Sorted(s, left),
           NEW stem \in left,
           ~ IsId(stem) /\ ResolveAgent(s.agents, stem[2]) # None => s.policies[stem] # Torn
    PROVE  /\ IsState(Rekeyed(s, stem)) /\ HasIds(Rekeyed(s, stem))
           /\ Sorted(Rekeyed(s, stem), left \ {stem})
<1> DEFINE agent == ResolveAgent(s.agents, stem[2])
           doc == s.policies[stem]
           next == Rekeyed(s, stem)
           rest == left \ {stem}
<1>1. CASE IsId(stem)
  <2>1. next = s
    BY <1>1 DEF Rekeyed
  <2>2. \A g \in DOMAIN world.policies : g # stem
    BY <1>1, StemIs
  <2> QED
    BY <2>1, <2>2 DEF Sorted
<1>2. CASE ~ IsId(stem)
  <2>1. stem \in DOMAIN world.policies /\ doc = world.policies[stem] /\ stem \in DOMAIN s.policies
    BY <1>2, IdsAre DEF Sorted
  <2>2. agent = TakenFor(stem) /\ \A d, a : Claims(s.agents, d, a) = Claims(world.agents, d, a)
    BY TakenByName DEF HasIds, TakenFor
  <2>3. \A n \in DOMAIN world.agents : Ids[n].id # stem
    BY <1>2, IdsAre
  <2>4. CASE agent = None \/ Claims(s.agents, doc, agent)
    <3>1. next = SetAside(s, stem)
      BY <1>2, <2>4 DEF Rekeyed
    <3>2. Unfit(stem)
      BY <1>2, <2>1, <2>2, <2>4 DEF Unfit
    <3>3. /\ next.agents = s.agents /\ next.servers = s.servers
          /\ next.policies = Without(s.policies, stem) /\ next.aside = s.aside \cup {stem}
          /\ IsState(next)
      BY <3>1 DEF SetAside, IsState
    <3>4. /\ DOMAIN next.policies = DOMAIN s.policies \ {stem}
          /\ \A f \in DOMAIN s.policies \ {stem} : next.policies[f] = s.policies[f]
      BY <3>3 DEF Without
    <3>5. HasIds(next)
      BY <3>3 DEF HasIds
    <3>6. Sorted(next, rest)
      <4> HIDE DEF next
      <4>1. rest \subseteq DOMAIN next.policies
        BY <3>4 DEF Sorted
      <4>2. ASSUME NEW f \in DOMAIN next.policies
            PROVE  \/ f \in rest \cap DOMAIN world.policies /\ next.policies[f] = world.policies[f]
                   \/ \E n \in DOMAIN world.agents, g \in DOMAIN world.policies :
                         Fits(g, n) /\ f = Ids[n].id /\ next.policies[f] = Converted(g, n)
        BY <3>4 DEF Sorted
      <4>3. ASSUME NEW g \in DOMAIN world.policies
            PROVE  \/ g \in next.aside \/ g \in rest
                   \/ \E n \in DOMAIN world.agents : Fits(g, n) /\ Ids[n].id \in DOMAIN next.policies
        BY <2>3, <3>3, <3>4 DEF Sorted
      <4>4. \A g \in next.aside : Unfit(g)
        BY <3>2, <3>3 DEF Sorted
      <4> QED
        BY <4>1, <4>2, <4>3, <4>4 DEF Sorted
    <3> QED
      BY <3>3, <3>5, <3>6
  <2>5. CASE agent # None /\ ~ Claims(s.agents, doc, agent)
    <3>1. agent \in DOMAIN world.agents
      BY <2>1, <2>2, <2>5, StemIs, TakenForOne DEF TakenFor
    <3>2. Fits(stem, agent)
      BY <1>2, <2>1, <2>2, <2>5, <3>1 DEF Fits
    <3> DEFINE id == s.agents[agent].id
    <3>3. id = Ids[agent].id
      BY <3>1 DEF HasIds
    <3>4. next = [s EXCEPT !.policies =
                     [f \in {id} \cup (DOMAIN @ \ {stem}) |->
                         IF f = id THEN [owner |-> id,
                                         permissions |-> ById(s.servers, doc.permissions)]
                         ELSE @[f]]]
      BY <1>2, <2>5 DEF Rekeyed
    <3>5. /\ next.agents = s.agents /\ next.servers = s.servers /\ next.aside = s.aside
          /\ next.policies = [f \in {id} \cup (DOMAIN s.policies \ {stem}) |->
                                IF f = id THEN Converted(stem, agent) ELSE s.policies[f]]
          /\ IsState(next)
      <4>1. [owner |-> id, permissions |-> ById(s.servers, doc.permissions)] = Converted(stem, agent)
        BY <2>1, <3>3 DEF Converted, HasIds
      <4> HIDE DEF id, doc
      <4> QED
        BY <3>4, <4>1 DEF IsState
    <3>6. HasIds(next)
      BY <3>5 DEF HasIds
    <3>7. Sorted(next, rest)
      <4> HIDE DEF next, agent, doc, id
      <4>1. rest \subseteq DOMAIN next.policies
        BY <3>5 DEF Sorted
      <4>2. ASSUME NEW f \in DOMAIN next.policies
            PROVE  \/ f \in rest \cap DOMAIN world.policies /\ next.policies[f] = world.policies[f]
                   \/ \E n \in DOMAIN world.agents, g \in DOMAIN world.policies :
                         Fits(g, n) /\ f = Ids[n].id /\ next.policies[f] = Converted(g, n)
        <5>1. CASE f = id
          BY <2>1, <3>1, <3>2, <3>3, <3>5, <5>1
        <5>2. CASE f # id
          BY <3>5, <5>2 DEF Sorted
        <5> QED
          BY <5>1, <5>2
      <4>3. ASSUME NEW g \in DOMAIN world.policies
            PROVE  \/ g \in next.aside \/ g \in rest
                   \/ \E n \in DOMAIN world.agents : Fits(g, n) /\ Ids[n].id \in DOMAIN next.policies
        <5>1. CASE g = stem
          BY <3>1, <3>2, <3>3, <3>5, <5>1
        <5>2. CASE g # stem
          BY <2>3, <3>5, <5>2 DEF Sorted
        <5> QED
          BY <5>1, <5>2
      <4>4. \A g \in next.aside : Unfit(g)
        BY <3>5 DEF Sorted
      <4> QED
        BY <4>1, <4>2, <4>3, <4>4 DEF Sorted
    <3> QED
      BY <3>5, <3>6, <3>7
  <2> QED
    BY <2>4, <2>5
<1> QED
  BY <1>1, <1>2

\* The policies of 0.1.x are sorted but for all of them.
LEMMA SortedAtFirst ==
    ASSUME NEW s, OldPolicies(s)
    PROVE  Sorted(s, DOMAIN s.policies)
  BY DEF OldPolicies, Sorted

\* So is a state that is sorted, when all its files are to be looked at again.
LEMMA SortedAgain ==
    ASSUME NEW s, Sorted(s, {})
    PROVE  Sorted(s, DOMAIN s.policies)
  BY DEF Sorted

\* Being sorted is a matter of the policies and what was set aside.
LEMMA SortedBy ==
    ASSUME NEW s, NEW t, s.policies = t.policies, s.aside = t.aside, NEW left
    PROVE  Sorted(s, left) = Sorted(t, left)
  BY DEF Sorted

\* The copy a step starts with is not no copy.
LEMMA StatesAreCopies ==
    ASSUME NEW s, IsState(s)
    PROVE  s # NoCopy
<1>1. "agents" \in DOMAIN s
  BY DEF IsState
<1>2. DOMAIN NoCopy = {}
  BY DEF NoCopy
<1> QED
  BY <1>1, <1>2

--------------------------------------------------------------------------------
(* The invariant, action by action.                                        *)

\* The 0.1.x states are where it begins.
LEMMA InitGrant == Init => GrantInv
<1> SUFFICES ASSUME Init PROVE GrantInv
  OBVIOUS
<1>1. /\ world \in Worlds /\ marker = 0 /\ staged = NoCopy /\ todo = {} /\ readable = FALSE
      /\ asked = None /\ parts = 0 /\ keyring \in {"open", "locked"}
  BY WorldsAreStates DEF Init
<1>2. live = [agents |-> world.agents, servers |-> world.servers,
              policies |-> world.policies, aside |-> {}]
  BY DEF Init
<1>3. \A n \in DOMAIN live.agents : live.agents[n].hash \in {n, None}
  <2>1. \A n \in DOMAIN world.agents :
           world.agents[n] \in [id : {None, <<"minted", n>>}, hash : {None}]
    BY <1>1, WorldsAreStates
  <2> QED
    BY <1>2, <2>1
<1>4. TypeOK
  <2>1. DOMAIN live.agents = DOMAIN world.agents /\ DOMAIN live.servers = DOMAIN world.servers
    BY <1>2
  <2>2. parts \in 0 .. MaxParts
    BY <1>1, PartsAreNatural
  <2>3. marker \in 0 .. 2 /\ ~ (marker >= 1)
    <3>1. marker = 0
      BY <1>1
    <3> QED
      BY <3>1
  <2>4. todo = {} /\ keyring \in {"open", "locked"}
    BY <1>1
  <2>5. readable \in BOOLEAN
    BY <1>1
  <2> QED
    BY <1>3, <2>1, <2>2, <2>3, <2>4, <2>5 DEF TypeOK
<1>5. Live
  BY <1>1, <1>2 DEF Live, IsState, OldConfig, OldPolicies
<1> QED
  BY <1>1, <1>4, <1>5 DEF GrantInv, Copy, Hashes, Asked

\* The invariant speaks of the world, which stays.
LEMMA SameWorld ==
    ASSUME world' = world
    PROVE  /\ Ids' = Ids /\ ServerIds' = ServerIds
           /\ \A f, n : Fits(f, n)' = Fits(f, n)
           /\ \A f, n : Converted(f, n)' = Converted(f, n)
           /\ \A f : Unfit(f)' = Unfit(f)
<1>1. Ids' = Ids /\ ServerIds' = ServerIds
  BY DEF Ids, ServerIds, Backfill
<1>2. \A f, n : Fits(f, n)' = Fits(f, n)
  BY DEF Fits, TakenFor, ResolveAgent, Claims
<1>3. \A f, n : Converted(f, n)' = Converted(f, n)
  BY <1>1 DEF Converted, ById
<1>4. \A f : Unfit(f)' = Unfit(f)
  BY DEF Unfit, TakenFor, ResolveAgent, Claims
<1> QED
  BY <1>1, <1>2, <1>3, <1>4

\* ... as does what it says of the copy,
LEMMA NextCopy ==
    ASSUME world' = world
    PROVE  Copy' = (staged' # NoCopy =>
                       /\ IsState(staged') /\ HasIds(staged') /\ Sorted(staged', todo')
                       /\ marker' = 0 \/ (marker' = 1 /\ todo' = {}))
<1>1. HasIds(staged)' = HasIds(staged')
  BY SameWorld DEF HasIds
<1>2. Sorted(staged, todo)' = Sorted(staged', todo')
  BY SameWorld DEF Sorted
<1> QED
  BY <1>1, <1>2 DEF Copy, IsState, NoCopy

\* ... of the live state,
LEMMA NextLive ==
    ASSUME world' = world
    PROVE  Live' = (/\ IsState(live')
                    /\ \/ marker' = 0 /\ OldConfig(live') /\ OldPolicies(live')
                       \/ marker' = 0 /\ HasIds(live') /\ OldPolicies(live')
                       \/ HasIds(live') /\ Sorted(live', {}))
<1>1. HasIds(live)' = HasIds(live')
  BY SameWorld DEF HasIds
<1>2. Sorted(live, {})' = Sorted(live', {})
  BY SameWorld DEF Sorted
<1> QED
  BY <1>1, <1>2 DEF Live, IsState, OldConfig, OldPolicies

\* ... and of the decision.
LEMMA NextAsked ==
    ASSUME UNCHANGED <<world, live, marker, asked>>, Asked
    PROVE  Asked'
<1>1. \A n, call : Decides(n, call)' = Decides(n, call)
  BY DEF Decides
<1> QED
  BY <1>1 DEF Asked

\* The copy has ids, and every file is still to be looked at.
LEMMA StartRekeyStep ==
    ASSUME GrantInv, StartRekey
    PROVE  GrantInv'
<1> USE DEF GrantInv
<1>1. /\ marker = 0 /\ staged = NoCopy
      /\ UNCHANGED <<world, live, marker, keyring, readable, asked, parts>>
      /\ staged' = [live EXCEPT !.agents = Backfill(@, "agt"), !.servers = Backfill(@, "srv")]
      /\ todo' = DOMAIN live.policies
  BY DEF StartRekey
<1>2. /\ staged'.agents = Backfill(live.agents, "agt")
      /\ staged'.servers = Backfill(live.servers, "srv")
      /\ staged'.policies = live.policies /\ staged'.aside = live.aside
      /\ IsState(staged')
  BY <1>1 DEF IsState, Live
<1>3. HasIds(staged')
  <2>1. CASE OldConfig(live)
    <3>1. staged'.agents = Ids /\ staged'.servers = ServerIds
      BY <1>2, <2>1 DEF OldConfig, Ids, ServerIds
    <3> QED
      BY <3>1, IdsAre DEF HasIds
  <2>2. CASE HasIds(live)
    <3>1. /\ staged'.agents = [n \in DOMAIN live.agents |-> live.agents[n]]
          /\ staged'.servers = ServerIds
      BY <1>2, <2>2, BackfilledOnce
    <3> QED
      BY <2>2, <3>1 DEF HasIds
  <2> QED
    BY <2>1, <2>2 DEF Live
<1>4. Sorted(staged', todo')
  <2>1. Sorted(live, DOMAIN live.policies)
    BY SortedAtFirst, SortedAgain DEF Live
  <2> QED
    BY <1>1, <1>2, <2>1 DEF Sorted
<1>5. todo' \subseteq DOMAIN world.policies \cup {live.agents[n].id : n \in DOMAIN live.agents}
  <2>1. CASE OldPolicies(live)
    BY <1>1, <2>1 DEF OldPolicies
  <2>2. CASE HasIds(live) /\ Sorted(live, {})
    <3>1. \A f \in DOMAIN live.policies : \E n \in DOMAIN world.agents : f = Ids[n].id
      BY <2>2 DEF Sorted
    <3>2. /\ DOMAIN live.agents = DOMAIN world.agents
          /\ \A n \in DOMAIN live.agents : live.agents[n].id = Ids[n].id
      BY <2>2 DEF HasIds
    <3> QED
      BY <1>1, <3>1, <3>2
  <2> QED
    BY <2>1, <2>2 DEF Live
<1>6. TypeOK'
  <2>1. staged' # NoCopy
    BY <1>2, StatesAreCopies
  <2> QED
    BY <1>1, <1>5, <2>1 DEF TypeOK, NoCopy
<1>7. Live' /\ Asked'
  BY <1>1, NextLive, NextAsked DEF Live
<1>8. Copy'
  BY <1>1, <1>2, <1>3, <1>4, NextCopy
<1>9. Hashes'
  BY <1>1 DEF Hashes, TypeOK
<1> QED
  BY <1>1, <1>6, <1>7, <1>8, <1>9

\* A document that cannot be read ends the step, any other takes it one file further.
LEMMA RekeyPolicyStep ==
    ASSUME GrantInv, NEW stem \in todo, RekeyPolicy(stem)
    PROVE  GrantInv'
<1> USE DEF GrantInv
<1>1. UNCHANGED <<world, live, marker, keyring, readable, asked, parts>>
  BY DEF RekeyPolicy
<1>2. staged # NoCopy /\ marker = 0
  BY DEF TypeOK, Copy
<1>3. Live' /\ Asked' /\ Hashes'
  BY <1>1, <1>2, NextLive, NextAsked DEF Live, Hashes, TypeOK
<1>4. CASE staged' = NoCopy /\ todo' = {}
  <2>1. TypeOK'
    BY <1>1, <1>4 DEF TypeOK, NoCopy
  <2> QED
    BY <1>1, <1>3, <1>4, <2>1, NextCopy
<1>5. CASE /\ staged' = Rekeyed(staged, stem) /\ todo' = todo \ {stem}
           /\ (~ IsId(stem) /\ ResolveAgent(staged.agents, stem[2]) # None
                  => staged.policies[stem] # Torn)
  <2>1. IsState(staged') /\ HasIds(staged') /\ Sorted(staged', todo')
    BY <1>2, <1>5, RekeyedIsSorted DEF Copy
  <2>2. staged' # NoCopy
    BY <2>1, StatesAreCopies
  <2>3. TypeOK'
    BY <1>1, <1>5, <2>2 DEF TypeOK, NoCopy
  <2> QED
    BY <1>1, <1>2, <1>3, <2>1, <2>3, NextCopy
<1> QED
  BY <1>4, <1>5 DEF RekeyPolicy

\* Carrying hashes keeps the ids and leaves the policies alone.
LEMMA CarryHashesStep ==
    ASSUME GrantInv, CarryHashes
    PROVE  GrantInv'
<1> USE DEF GrantInv
<1>1. /\ UNCHANGED <<world, live, marker, todo, keyring, asked, parts>>
      /\ marker = 1 /\ staged = NoCopy /\ todo = {} /\ readable' = (keyring = "open")
      /\ staged' = [live EXCEPT !.agents = CarriedHashes(@)]
  BY DEF CarryHashes, TypeOK
<1>2. IsState(live) /\ HasIds(live) /\ Sorted(live, {})
  BY <1>1 DEF Live
<1>3. /\ staged'.agents = CarriedHashes(live.agents) /\ staged'.servers = live.servers
      /\ staged'.policies = live.policies /\ staged'.aside = live.aside
      /\ IsState(staged')
  <2> HIDE DEF GrantInv
  <2> QED
    BY <1>1, <1>2 DEF IsState
<1>4. /\ DOMAIN staged'.agents = DOMAIN world.agents
      /\ \A n \in DOMAIN staged'.agents :
            /\ staged'.agents[n] \in [id : {Ids[n].id}, hash : {n, None}]
            /\ keyring = "open" => staged'.agents[n].hash = n
  <2>1. DOMAIN live.agents = DOMAIN world.agents
    BY <1>2 DEF HasIds
  <2>2. ASSUME NEW n \in DOMAIN live.agents
        PROVE  /\ staged'.agents[n] \in [id : {Ids[n].id}, hash : {n, None}]
               /\ keyring = "open" => staged'.agents[n].hash = n
    <3>1. live.agents[n] \in [id : {Ids[n].id}, hash : {n, None}]
      BY <1>2 DEF HasIds
    <3>2. staged'.agents[n] =
             [live.agents[n] EXCEPT !.hash = IF @ = None /\ keyring = "open" THEN n ELSE @]
      BY <1>3 DEF CarriedHashes
    <3> HIDE DEF GrantInv
    <3> QED
      BY <3>1, <3>2
  <2> QED
    BY <1>3, <2>1, <2>2 DEF CarriedHashes
<1>5. HasIds(staged') /\ Sorted(staged', todo')
  <2>1. HasIds(staged')
    BY <1>2, <1>3, <1>4 DEF HasIds
  <2>2. Sorted(staged', {}) = Sorted(live, {})
    BY <1>3, SortedBy
  <2>3. Sorted(staged', {})
    BY <1>2, <2>2
  <2> QED
    BY <1>1, <2>1, <2>3
<1>6. staged' # NoCopy
  BY <1>3, StatesAreCopies
<1>7. TypeOK'
  BY <1>1, <1>6 DEF TypeOK, NoCopy
<1>8. Live' /\ Asked'
  BY <1>1, NextLive, NextAsked DEF Live
<1>9. Copy'
  BY <1>1, <1>3, <1>5, NextCopy
<1>10. Hashes'
  <2>1. readable' => keyring = "open"
    BY <1>1
  <2> QED
    BY <1>1, <1>4, <2>1 DEF Hashes
<1> QED
  BY <1>1, <1>7, <1>8, <1>9, <1>10

\* What is known of the config from the invariant about the live state.
LEMMA NextTypes ==
    ASSUME UNCHANGED <<world, keyring, readable>>, TypeOK, world \in Worlds,
           HasIds(live'), todo' = {}, marker' \in 0 .. 2, parts' \in 0 .. MaxParts
    PROVE  TypeOK'
<1>1. \A n \in DOMAIN live'.agents :
         live'.agents[n].id = Ids[n].id /\ live'.agents[n].hash \in {n, None}
  BY DEF HasIds
<1>2. DOMAIN live'.agents = DOMAIN world.agents /\ DOMAIN live'.servers = DOMAIN world.servers
  BY ServerIdsAre DEF HasIds
<1>3. \A n \in DOMAIN live'.agents :
          live'.agents[n].id # None /\ \A m \in DOMAIN live'.agents \ {n} :
                                         live'.agents[m].id # live'.agents[n].id
  BY <1>1, <1>2, IdsAre
<1> QED
  BY <1>1, <1>2, <1>3 DEF TypeOK

\* What is swapped in is a state of the next schema.
LEMMA SwapInStep ==
    ASSUME GrantInv, SwapIn
    PROVE  GrantInv'
<1> USE DEF GrantInv
<1>1. /\ UNCHANGED <<world, todo, keyring, readable, said, asked, parts>>
      /\ staged # NoCopy /\ todo = {} /\ live' = staged /\ marker' = marker + 1
      /\ staged' = NoCopy
  BY DEF SwapIn
<1>2. IsState(staged) /\ HasIds(staged) /\ Sorted(staged, {}) /\ marker \in 0 .. 1
  BY <1>1 DEF Copy
<1>3. TypeOK'
  <2>1. parts \in 0 .. MaxParts
    BY DEF TypeOK
  <2> QED
    BY <1>1, <1>2, <2>1, NextTypes
<1>4. Live'
  BY <1>1, <1>2, NextLive
<1>5. Copy'
  BY <1>1 DEF Copy, NoCopy
<1>6. Hashes'
  BY <1>1, <1>2 DEF Hashes
<1>7. Asked'
  BY <1>1, <1>2 DEF Asked
<1> QED
  BY <1>1, <1>3, <1>4, <1>5, <1>6, <1>7

\* What a swap that stops half-way leaves has ids next to old or new policies.
LEMMA SwapInPartStep ==
    ASSUME GrantInv, SwapInPart
    PROVE  GrantInv'
<1> USE DEF GrantInv
<1>1. /\ UNCHANGED <<world, marker, todo, keyring, readable, said, asked>>
      /\ staged # NoCopy /\ todo = {} /\ parts < MaxParts /\ parts' = parts + 1
      /\ staged' = NoCopy
      /\ \/ live' = [staged EXCEPT !.policies = live.policies, !.aside = live.aside]
         \/ live' = staged
  BY DEF SwapInPart
<1>2. IsState(staged) /\ HasIds(staged) /\ Sorted(staged, {}) /\ marker \in 0 .. 1
  BY <1>1 DEF Copy
<1>3. OldPolicies(live) \/ Sorted(live, {})
  BY DEF Live
<1>4. /\ IsState(live') /\ HasIds(live')
      /\ (marker = 0 /\ OldPolicies(live')) \/ Sorted(live', {})
  <2>1. CASE live' = staged
    BY <1>2, <2>1
  <2>2. CASE live' = [staged EXCEPT !.policies = live.policies, !.aside = live.aside]
    <3>1. /\ live'.agents = staged.agents /\ live'.servers = staged.servers
          /\ live'.policies = live.policies /\ live'.aside = live.aside
          /\ IsState(live')
      <4> HIDE DEF GrantInv
      <4> QED
        BY <1>2, <2>2 DEF IsState
    <3>2. HasIds(live')
      BY <1>2, <3>1 DEF HasIds
    <3>3. (marker = 0 /\ OldPolicies(live)) \/ Sorted(live, {})
      BY DEF Live
    <3> QED
      BY <3>1, <3>2, <3>3, SortedBy DEF OldPolicies
  <2> QED
    BY <1>1, <2>1, <2>2
<1>5. TypeOK'
  <2>1. parts' \in 0 .. MaxParts
    BY <1>1, PartsAreNatural DEF TypeOK
  <2> QED
    BY <1>1, <1>2, <1>4, <2>1, NextTypes
<1>6. Live'
  BY <1>1, <1>4, NextLive
<1>7. Copy'
  BY <1>1 DEF Copy, NoCopy
<1>8. Hashes'
  BY <1>1, <1>2 DEF Hashes
<1>9. Asked'
  BY <1>1, <1>2 DEF Asked
<1> QED
  BY <1>1, <1>5, <1>6, <1>7, <1>8, <1>9

\* A crash loses the copy and nothing else.
LEMMA CrashStep ==
    ASSUME GrantInv, Crash
    PROVE  GrantInv'
<1> USE DEF GrantInv
<1>1. /\ UNCHANGED <<world, live, marker, keyring, readable, said, asked, parts>>
      /\ staged' = NoCopy /\ todo' = {}
  BY DEF Crash
<1>2. TypeOK'
  BY <1>1 DEF TypeOK
<1>3. Live' /\ Asked'
  BY <1>1, NextLive, NextAsked DEF Live
<1>4. Copy' /\ Hashes'
  BY <1>1 DEF Copy, Hashes, NoCopy
<1> QED
  BY <1>1, <1>2, <1>3, <1>4

\* Nothing of the state on disk changes, or the keyring is unlocked, or a call is decided.
LEMMA StillGrant ==
    ASSUME GrantInv, UNCHANGED <<world, live, marker, staged, todo, readable, parts>>,
           keyring' \in {keyring, "open"}, Asked'
    PROVE  GrantInv'
<1> USE DEF GrantInv
<1>1. TypeOK'
  BY DEF TypeOK, NoCopy
<1>2. Live'
  BY NextLive DEF Live
<1>3. Copy' /\ Hashes'
  BY NextCopy DEF Copy, Hashes
<1> QED
  BY <1>1, <1>2, <1>3

\* The decision is made of the state as it is.
LEMMA AskStep ==
    ASSUME GrantInv, NEW n \in DOMAIN live.agents, NEW call \in Calls(world), Ask(n, call)
    PROVE  GrantInv'
<1>1. /\ UNCHANGED <<world, live, marker, staged, todo, keyring, readable, said, parts>>
      /\ marker = 2 /\ asked' = [agent |-> n, call |-> call, allowed |-> Decides(n, call)]
  BY DEF Ask
<1>2. \A m, c : Decides(m, c)' = Decides(m, c)
  BY <1>1 DEF Decides
<1>3. asked' = [agent |-> n, call |-> call, allowed |-> Decides(n, call)']
  BY <1>1, <1>2
<1>4. Calls(world)' = Calls(world)
  BY <1>1
<1>5. Asked'
  BY <1>1, <1>3, <1>4 DEF Asked
<1> QED
  BY <1>1, <1>5, StillGrant

\* Every step keeps the invariant.
LEMMA NextGrant == GrantInv /\ [Next]_vars => GrantInv'
<1> SUFFICES ASSUME GrantInv, [Next]_vars
             PROVE  GrantInv'
  OBVIOUS
<1>1. CASE StartRekey
  BY <1>1, StartRekeyStep
<1>2. CASE CarryHashes
  BY <1>2, CarryHashesStep
<1>3. CASE SwapIn
  BY <1>3, SwapInStep
<1>4. CASE SwapInPart
  BY <1>4, SwapInPartStep
<1>5. CASE Crash
  BY <1>5, CrashStep
<1>6. CASE AlreadyCurrent
  <2>1. UNCHANGED <<world, live, marker, staged, todo, keyring, readable, asked, parts>>
    BY <1>6 DEF AlreadyCurrent
  <2> QED
    BY <2>1, NextAsked, StillGrant DEF GrantInv
<1>7. CASE Unlock
  <2>1. UNCHANGED <<world, live, marker, staged, todo, readable, asked, parts>> /\ keyring' = "open"
    BY <1>7 DEF Unlock
  <2> QED
    BY <2>1, NextAsked, StillGrant DEF GrantInv
<1>8. CASE \E stem \in todo : RekeyPolicy(stem)
  BY <1>8, RekeyPolicyStep
<1>9. CASE \E n \in DOMAIN live.agents, call \in Calls(world) : Ask(n, call)
  BY <1>9, AskStep
<1>10. CASE UNCHANGED vars
  <2>1. UNCHANGED <<world, live, marker, staged, todo, keyring, readable, asked, parts>>
    BY <1>10 DEF vars
  <2> QED
    BY <2>1, NextAsked, StillGrant DEF GrantInv
<1> QED
  BY <1>1, <1>2, <1>3, <1>4, <1>5, <1>6, <1>7, <1>8, <1>9, <1>10 DEF Next

\* The invariant holds of every reachable state.
LEMMA GrantHolds == Spec => []GrantInv
<1>1. Init => GrantInv
  BY InitGrant
<1>2. GrantInv /\ [Next]_vars => GrantInv'
  BY NextGrant
<1> QED
  BY <1>1, <1>2, PTL DEF Spec

\* Type correctness, and that from schema 1 on every agent has an id of its own.
THEOREM TypeCorrect == Spec => []TypeOK
<1>1. GrantInv => TypeOK
  BY DEF GrantInv
<1> QED
  BY <1>1, GrantHolds, PTL

--------------------------------------------------------------------------------
(* What the two steps promise.                                             *)

\* A server's grants are found under its id as they were under its name.
LEMMA ByIdMeans ==
    ASSUME world \in Worlds, NEW p, NEW s \in DOMAIN world.servers
    PROVE  /\ ServerIds[s].id \in DOMAIN ById(ServerIds, p) <=> Name(s) \in DOMAIN p
           /\ Name(s) \in DOMAIN p => ById(ServerIds, p)[ServerIds[s].id] = p[Name(s)]
<1> DEFINE granted == {t \in DOMAIN ServerIds : Name(t) \in DOMAIN p}
           owner(id) == CHOOSE t \in DOMAIN ServerIds : ServerIds[t].id = id
<1>1. ById(ServerIds, p) = [id \in {ServerIds[t].id : t \in granted} |-> p[Name(owner(id))]]
  BY DEF ById
<1>2. owner(ServerIds[s].id) = s
  BY ServerIdsAre
<1>3. ServerIds[s].id \in {ServerIds[t].id : t \in granted} <=> s \in granted
  BY ServerIdsAre
<1>4. s \in granted <=> Name(s) \in DOMAIN p
  BY ServerIdsAre
<1> HIDE DEF owner, granted
<1> QED
  BY <1>1, <1>2, <1>3, <1>4

\* A call is decided on a document's ids as it was on its names.
LEMMA DecidedAsBefore ==
    ASSUME world \in Worlds, NEW p, NEW s \in DOMAIN world.servers, NEW tool, NEW arguments
    PROVE  CheckPermission(ById(ServerIds, p), ServerIds[s].id, tool, arguments, world.windows)
              = CheckPermission(p, Name(s), tool, arguments, world.windows)
<1> DEFINE q == ById(ServerIds, p)
           id == ServerIds[s].id
<1>1. /\ id \in DOMAIN q <=> Name(s) \in DOMAIN p
      /\ Name(s) \in DOMAIN p => q[id] = p[Name(s)]
  BY ByIdMeans
<1> HIDE DEF q, id
<1>2. CheckPermission(q, id, tool, arguments, world.windows)
         = CheckPermission(p, Name(s), tool, arguments, world.windows)
  BY <1>1 DEF CheckPermission
<1> QED
  BY <1>2 DEF q, id

\* What is known when a call has been decided, the agent's file and document with it.
LEMMA WhenAsked ==
    ASSUME GrantInv, asked # None
    PROVE  /\ marker = 2 /\ HasIds(live) /\ Sorted(live, {})
           /\ asked.agent \in DOMAIN world.agents /\ asked.call \in Calls(world)
           /\ live.agents[asked.agent].id = Ids[asked.agent].id
           /\ asked.allowed <=> Decides(asked.agent, asked.call)
           /\ Ids[asked.agent].id \in DOMAIN live.policies =>
                 \E g \in DOMAIN world.policies :
                    /\ Fits(g, asked.agent)
                    /\ live.policies[Ids[asked.agent].id] = Converted(g, asked.agent)
<1> USE DEF GrantInv
<1>1. PICK n \in DOMAIN live.agents, call \in Calls(world) :
         marker = 2 /\ asked = [agent |-> n, call |-> call, allowed |-> Decides(n, call)]
  BY DEF Asked
<1>2. HasIds(live) /\ Sorted(live, {})
  BY <1>1 DEF Live
<1>3. /\ asked.agent = n /\ asked.call = call /\ (asked.allowed <=> Decides(n, call))
      /\ n \in DOMAIN world.agents /\ live.agents[n].id = Ids[n].id
  <2>1. n \in DOMAIN world.agents /\ live.agents[n].id = Ids[n].id
    BY <1>2 DEF HasIds
  <2>2. asked.agent = n /\ asked.call = call /\ asked.allowed = Decides(n, call)
    BY <1>1
  <2> QED
    BY <2>1, <2>2
<1>4. ASSUME Ids[n].id \in DOMAIN live.policies
      PROVE  \E g \in DOMAIN world.policies :
                Fits(g, n) /\ live.policies[Ids[n].id] = Converted(g, n)
  <2>1. PICK m \in DOMAIN world.agents, g \in DOMAIN world.policies :
           Fits(g, m) /\ Ids[n].id = Ids[m].id /\ live.policies[Ids[n].id] = Converted(g, m)
    BY <1>2, <1>4 DEF Sorted
  <2>2. m = n
    BY <1>3, <2>1, IdsAre
  <2> QED
    BY <2>1, <2>2
<1> QED
  BY <1>1, <1>2, <1>3, <1>4

\* What a call is decided on when the agent's document is one that was converted.
LEMMA DecidesBy ==
    ASSUME world \in Worlds, HasIds(live), NEW n \in DOMAIN world.agents, NEW g, NEW call,
           live.agents[n].id = Ids[n].id, Ids[n].id \in DOMAIN live.policies,
           live.policies[Ids[n].id] = Converted(g, n)
    PROVE  Decides(n, call) <=>
              /\ live.agents[n].hash = n /\ call.server \in DOMAIN world.servers
              /\ CheckPermission(world.policies[g].permissions, Name(call.server), call.tool,
                                 call.arguments, world.windows)
<1>1. DOMAIN live.servers = DOMAIN world.servers /\ live.servers = ServerIds
  BY ServerIdsAre DEF HasIds
<1>2. live.policies[live.agents[n].id].permissions = ById(ServerIds, world.policies[g].permissions)
  BY DEF Converted
<1>3. Decides(n, call) <=>
         /\ live.agents[n].hash = n /\ call.server \in DOMAIN world.servers
         /\ CheckPermission(ById(ServerIds, world.policies[g].permissions),
                            ServerIds[call.server].id, call.tool, call.arguments, world.windows)
  BY <1>1, <1>2 DEF Decides
<1>4. call.server \in DOMAIN world.servers =>
         CheckPermission(ById(ServerIds, world.policies[g].permissions),
                         ServerIds[call.server].id, call.tool, call.arguments, world.windows)
            = CheckPermission(world.policies[g].permissions, Name(call.server), call.tool,
                              call.arguments, world.windows)
  BY DecidedAsBefore
<1> QED
  BY <1>3, <1>4

\* The file an agent's document was made of has a name of the agent's text, is taken for
\* the agent, and names no other agent as its owner.
LEMMA FileOf ==
    ASSUME world \in Worlds, NEW g, NEW n, Fits(g, n)
    PROVE  /\ SameText(g[2], n)
           /\ g[2] \in DOMAIN world.agents => g[2] = n
           /\ LET owner == world.policies[g].owner
              IN  owner # None => \/ MeantBy(owner[2]) = {n}
                                  \/ Cardinality(MeantBy(owner[2])) # 1
<1>1. /\ g \in DOMAIN world.policies /\ g[2] \in DOMAIN Nfc /\ n \in DOMAIN world.agents
      /\ ResolveAgent(world.agents, g[2]) = n /\ world.policies[g] # Torn
      /\ ~ Claims(world.agents, world.policies[g], n)
  BY StemIs DEF Fits, TakenFor
<1>2. n # None
  BY <1>1, WorldsAreStates, FormsAreForms
<1>3. SameText(g[2], n) /\ (g[2] \in DOMAIN world.agents => g[2] = n)
  BY <1>1, <1>2, TakenForOne
<1> DEFINE m == world.policies[g].owner[2]
<1>4. ASSUME world.policies[g].owner # None, Cardinality(MeantBy(m)) = 1
      PROVE  MeantBy(m) = {n}
  <2>1. ResolveAgent(world.agents, m) \in {None, n}
    BY <1>1, <1>4 DEF Claims
  <2>2. PICK k : MeantBy(m) = {k}
    <3>1. IsFiniteSet({m}) /\ IsFiniteSet({Nfc[m], Nfd[m]})
      <4>1. IsFiniteSet({m}) /\ IsFiniteSet({Nfd[m]})
        BY FS_Singleton
      <4>2. IsFiniteSet({Nfd[m]} \cup {Nfc[m]})
        BY <4>1, FS_AddElement
      <4>3. {Nfd[m]} \cup {Nfc[m]} = {Nfc[m], Nfd[m]}
        OBVIOUS
      <4> QED
        BY <4>1, <4>2, <4>3
    <3>2. IsFiniteSet({Nfc[m], Nfd[m]} \cap DOMAIN world.agents)
      BY <3>1, FS_Subset
    <3>3. IsFiniteSet(MeantBy(m))
      BY <3>1, <3>2 DEF MeantBy
    <3> QED
      BY <1>4, <3>3, FS_Singleton
  <2>3. k \in DOMAIN world.agents /\ k # None
    BY <2>2, WorldsAreStates, FormsAreForms DEF MeantBy
  <2>4. ResolveAgent(world.agents, m) = k
    <3>1. CASE m \in DOMAIN world.agents
      BY <2>2, <3>1 DEF MeantBy, ResolveAgent
    <3>2. CASE m \notin DOMAIN world.agents
      <4> DEFINE forms == {Nfc[m], Nfd[m]} \cap DOMAIN world.agents
      <4>1. forms = {k} /\ Cardinality(forms) = 1
        BY <1>4, <2>2, <3>2 DEF MeantBy
      <4>2. (CHOOSE f \in forms : TRUE) = k
        BY <4>1
      <4> QED
        BY <3>2, <4>1, <4>2 DEF ResolveAgent
    <3> QED
      BY <3>1, <3>2
  <2> QED
    BY <2>1, <2>2, <2>3, <2>4
<1> QED
  BY <1>3, <1>4

\* What an agent may do, a file under its name granted that was not written for another
\* agent there is.
THEOREM NothingIsTransferred == Spec => []NoTransferAmongAgents
<1>1. ASSUME GrantInv, asked # None, asked.allowed
      PROVE  \E f \in DOMAIN world.policies :
                /\ SameText(f[2], asked.agent)
                /\ GrantedBy(f, asked.call)
                /\ LET owner == world.policies[f].owner
                   IN  owner # None => \/ MeantBy(owner[2]) = {asked.agent}
                                       \/ Cardinality(MeantBy(owner[2])) # 1
  <2> DEFINE n == asked.agent
             call == asked.call
  <2>1. /\ world \in Worlds /\ HasIds(live) /\ n \in DOMAIN world.agents
        /\ live.agents[n].id = Ids[n].id /\ Decides(n, call)
    BY <1>1, WhenAsked DEF GrantInv
  <2>2. Ids[n].id \in DOMAIN live.policies
    BY <2>1 DEF Decides
  <2>3. PICK g \in DOMAIN world.policies : Fits(g, n) /\ live.policies[Ids[n].id] = Converted(g, n)
    BY <1>1, <2>2, WhenAsked
  <2>4. CheckPermission(world.policies[g].permissions, Name(call.server), call.tool,
                        call.arguments, world.windows)
    BY <2>1, <2>2, <2>3, DecidesBy
  <2>5. GrantedBy(g, call)
    BY <2>3, <2>4 DEF GrantedBy, Fits
  <2> QED
    BY <2>1, <2>3, <2>5, FileOf
<1>2. GrantInv => NoTransferAmongAgents
  BY <1>1 DEF NoTransferAmongAgents
<1> QED
  BY <1>2, GrantHolds, PTL

\* What an agent's own file granted, the agent may still do, if no second file is taken
\* for the agent's and the keyring could be read.
THEOREM GrantsSurvive == Spec => []StillGranted
<1>1. ASSUME GrantInv, asked # None, readable, asked.call.server \in DOMAIN world.servers,
             NEW f \in DOMAIN world.policies, OnlyFileOf(asked.agent, f),
             GrantedBy(f, asked.call), world.policies[f].owner = Name(asked.agent)
      PROVE  asked.allowed
  <2> DEFINE n == asked.agent
             call == asked.call
  <2>1. /\ world \in Worlds /\ HasIds(live) /\ Sorted(live, {}) /\ n \in DOMAIN world.agents
        /\ live.agents[n].id = Ids[n].id
    BY <1>1, WhenAsked DEF GrantInv
  <2>2. live.agents[n].hash = n
    BY <1>1, <2>1, WhenAsked DEF GrantInv, Hashes, HasIds
  <2>3. n \in DOMAIN Nfc /\ n # None /\ f[2] \in DOMAIN Nfc
    BY <2>1, StemIs, WorldsAreStates, FormsAreForms
  <2>4. TakenFor(f) = n
    BY <1>1, <2>1, <2>3, TakenForOne DEF OnlyFileOf, TakenFor
  <2>5. ~ Claims(world.agents, world.policies[f], n)
    <3>1. world.policies[f].owner[2] = n
      BY <1>1 DEF Name
    <3>2. ResolveAgent(world.agents, n) = n
      BY <2>1, <2>3, TakenForOne
    <3> QED
      BY <3>1, <3>2 DEF Claims
  <2>6. ~ Unfit(f)
    BY <2>3, <2>4, <2>5 DEF Unfit
  <2>7. Ids[n].id \in DOMAIN live.policies
    <3>1. PICK m \in DOMAIN world.agents : Fits(f, m) /\ Ids[m].id \in DOMAIN live.policies
      BY <2>1, <2>6 DEF Sorted
    <3> QED
      BY <2>4, <3>1 DEF Fits
  <2>8. PICK g \in DOMAIN world.policies : Fits(g, n) /\ live.policies[Ids[n].id] = Converted(g, n)
    BY <1>1, <2>7, WhenAsked
  <2>9. g = f
    BY <1>1, <2>1, <2>8, FileOf DEF OnlyFileOf
  <2>10. CheckPermission(world.policies[f].permissions, Name(call.server), call.tool,
                         call.arguments, world.windows)
    BY <1>1 DEF GrantedBy
  <2>11. Decides(n, call)
    BY <1>1, <2>1, <2>2, <2>7, <2>8, <2>9, <2>10, DecidesBy
  <2> QED
    BY <1>1, <2>11, WhenAsked
<1>2. GrantInv => StillGranted
  BY <1>1 DEF StillGranted
<1> QED
  BY <1>2, GrantHolds, PTL

\* After the step, every document is one of an agent there is, and every 0.1.x file became
\* that of an agent of the same text or was set aside.
THEOREM NoNamesAreLeft == Spec => []NoneLooksCurrent
<1>1. ASSUME GrantInv, marker >= 1
      PROVE  /\ world \in Worlds /\ HasIds(live) /\ Sorted(live, {})
             /\ DOMAIN live.agents = DOMAIN world.agents /\ live.servers = ServerIds
             /\ \A n \in DOMAIN live.agents : live.agents[n].id = Ids[n].id
  BY <1>1 DEF GrantInv, Live, HasIds
<1>2. ASSUME GrantInv, marker >= 1, NEW f \in DOMAIN live.policies
      PROVE  /\ IsId(f) /\ live.policies[f].owner = f
             /\ \E n \in DOMAIN live.agents : live.agents[n].id = f
             /\ DOMAIN live.policies[f].permissions \subseteq
                   {live.servers[s].id : s \in DOMAIN live.servers}
  <2>1. PICK n \in DOMAIN world.agents, g \in DOMAIN world.policies :
           f = Ids[n].id /\ live.policies[f] = Converted(g, n)
    BY <1>1, <1>2 DEF Sorted
  <2>2. DOMAIN ById(ServerIds, world.policies[g].permissions)
           \subseteq {ServerIds[s].id : s \in DOMAIN ServerIds}
    BY DEF ById
  <2>3. /\ live.policies[f].owner = f
        /\ live.policies[f].permissions = ById(ServerIds, world.policies[g].permissions)
    BY <2>1 DEF Converted
  <2> QED
    BY <1>1, <1>2, <2>1, <2>2, <2>3, IdsAre
<1>3. ASSUME GrantInv, marker >= 1, NEW f \in DOMAIN world.policies \ live.aside
      PROVE  \E n \in DOMAIN live.agents :
                SameText(f[2], n) /\ live.agents[n].id \in DOMAIN live.policies
  <2>1. PICK n \in DOMAIN world.agents : Fits(f, n) /\ Ids[n].id \in DOMAIN live.policies
    BY <1>1, <1>3 DEF Sorted
  <2> QED
    BY <1>1, <1>3, <2>1, FileOf
<1>4. GrantInv => NoneLooksCurrent
  BY <1>2, <1>3 DEF NoneLooksCurrent
<1> QED
  BY <1>4, GrantHolds, PTL

--------------------------------------------------------------------------------
(* Numbers.                                                                *)

\* A set of naturals has a least element.
LEMMA LeastOf ==
    ASSUME NEW T \in SUBSET Nat, T # {}
    PROVE  \E n \in T : \A m \in T : n <= m
<1>1. PICK n \in T : \A m \in T : <<m, n>> \notin OpToRel(<, Nat)
  BY NatLessThanWellFounded, WFMin, Zenon
<1>2. \A m \in T : ~ (m < n)
  BY <1>1, Zenon DEF OpToRel
<1> QED
  BY <1>2

\* Induction, for a set of naturals.
LEMMA Induction ==
    ASSUME NEW S \in SUBSET Nat, 0 \in S, \A n \in S : n + 1 \in S
    PROVE  S = Nat
<1> SUFFICES ASSUME Nat \ S # {} PROVE FALSE
  OBVIOUS
<1>1. PICK n \in Nat \ S : \A m \in Nat \ S : n <= m
  BY LeastOf
<1>2. n # 0 /\ n - 1 \in Nat /\ n - 1 \in S
  BY <1>1
<1> QED
  BY <1>1, <1>2

--------------------------------------------------------------------------------
(* What a glob matches, for any pattern and value.                         *)

\* The piece a pattern has at i, and where the next one starts.
PieceAt(pattern, i, windows) ==
    LET level == Alphabet \ Separators(windows)
    IN  IF pattern[i] = "*" /\ At(pattern, i + 1) = "*" THEN Many(Alphabet)
        ELSE IF pattern[i] = "*" THEN Many(level)
        ELSE IF pattern[i] = "?" THEN One(level)
        ELSE IF pattern[i] = "[" /\ ClassEnd(pattern, i) # 0 THEN One(ClassChars(pattern, i, windows))
        ELSE IF pattern[i] \in Separators(windows) THEN One(Separators(windows))
        ELSE One({pattern[i]})
NextAt(pattern, i) ==
    IF pattern[i] = "*" /\ At(pattern, i + 1) = "*" THEN i + 2
    ELSE IF pattern[i] = "[" /\ ClassEnd(pattern, i) # 0 THEN ClassEnd(pattern, i) + 1
    ELSE i + 1

\* A class closes behind its opening bracket and within the pattern.
LEMMA ClassEndIs ==
    ASSUME NEW p, Len(p) \in Nat, NEW i \in 1 .. Len(p), ClassEnd(p, i) # 0
    PROVE  ClassEnd(p, i) \in i + 1 .. Len(p)
<1> DEFINE first == IF At(p, i + 1) = "!" THEN i + 2 ELSE i + 1
           rest == IF At(p, first) = "]" THEN first + 1 ELSE first
           ends == {j \in rest .. Len(p) : p[j] = "]"}
<1>1. first \in Nat /\ first >= i + 1
  OBVIOUS
<1>2. rest \in Nat /\ rest >= i + 1
  <2> HIDE DEF first
  <2> QED
    BY <1>1
<1>3. ClassEnd(p, i) = IF ends = {} THEN 0 ELSE CHOOSE j \in ends : \A k \in ends : j <= k
  BY DEF ClassEnd
<1> HIDE DEF rest
<1>4. ends # {} /\ ends \in SUBSET Nat
  BY <1>2, <1>3
<1>5. \E j \in ends : \A k \in ends : j <= k
  <2> HIDE DEF ends
  <2> QED
    BY <1>4, LeastOf
<1>6. ClassEnd(p, i) \in ends
  BY <1>3, <1>4, <1>5
<1> QED
  BY <1>2, <1>6

\* The next piece starts further on, at the end of the pattern at the latest.
LEMMA NextIs ==
    ASSUME NEW p, Len(p) \in Nat, NEW i \in 1 .. Len(p)
    PROVE  NextAt(p, i) \in i + 1 .. Len(p) + 1
<1>1. At(p, i + 1) = "*" => i + 1 <= Len(p)
  BY DEF At
<1> QED
  BY <1>1, ClassEndIs DEF NextAt

\* One step of the recursion of Glob.
GlobStep(pattern, windows, from, i) ==
    LET level == Alphabet \ Separators(windows)
    IN  IF i > Len(pattern) THEN <<>>
        ELSE IF pattern[i] = "*" /\ At(pattern, i + 1) = "*" THEN <<Many(Alphabet)>> \o from[i + 2]
        ELSE IF pattern[i] = "*" THEN <<Many(level)>> \o from[i + 1]
        ELSE IF pattern[i] = "?" THEN <<One(level)>> \o from[i + 1]
        ELSE IF pattern[i] = "[" /\ ClassEnd(pattern, i) # 0
             THEN <<One(ClassChars(pattern, i, windows))>> \o from[ClassEnd(pattern, i) + 1]
        ELSE IF pattern[i] \in Separators(windows)
             THEN <<One(Separators(windows))>> \o from[i + 1]
        ELSE <<One({pattern[i]})>> \o from[i + 1]

\* A step is the piece there and what follows it.
LEMMA GlobStepIs ==
    ASSUME NEW p, NEW windows, NEW from, NEW i, Len(p) \in Nat, i \in Nat
    PROVE  /\ i > Len(p) => GlobStep(p, windows, from, i) = <<>>
           /\ ~ (i > Len(p)) =>
                 GlobStep(p, windows, from, i) = <<PieceAt(p, i, windows)>> \o from[NextAt(p, i)]
<1>1. CASE i > Len(p)
  BY <1>1 DEF GlobStep
<1>2. CASE ~ (i > Len(p))
  <2>1. CASE p[i] = "*" /\ At(p, i + 1) = "*"
    BY <1>2, <2>1 DEF GlobStep, PieceAt, NextAt
  <2>2. CASE p[i] = "*" /\ At(p, i + 1) # "*"
    BY <1>2, <2>2 DEF GlobStep, PieceAt, NextAt
  <2>3. CASE p[i] = "?"
    BY <1>2, <2>3 DEF GlobStep, PieceAt, NextAt
  <2>4. CASE p[i] = "[" /\ ClassEnd(p, i) # 0
    BY <1>2, <2>4 DEF GlobStep, PieceAt, NextAt
  <2>5. CASE p[i] \notin {"*", "?"} /\ ~ (p[i] = "[" /\ ClassEnd(p, i) # 0)
    BY <1>2, <2>5 DEF GlobStep, PieceAt, NextAt
  <2> QED
    BY <2>1, <2>2, <2>3, <2>4, <2>5
<1> QED
  BY <1>1, <1>2

\* The recursion of Glob has a solution, from the last character of the pattern back.
LEMMA GlobIs ==
    ASSUME NEW p, NEW windows, Len(p) \in Nat
    PROVE  \E from :
              /\ Glob(p, windows) = from[1]
              /\ from[Len(p) + 1] = <<>>
              /\ \A i \in 1 .. Len(p) :
                    from[i] = <<PieceAt(p, i, windows)>> \o from[NextAt(p, i)]
<1> DEFINE L == Len(p)
           Step(from, i) == GlobStep(p, windows, from, i)
           Walks(n, f) == f = [i \in L + 1 - n .. L + 1 |-> Step(f, i)]
           S == {n \in Nat : n <= L => \E f : Walks(n, f)}
<1>1. ASSUME NEW f, NEW i \in 1 .. L
      PROVE  Step(f, i) = <<PieceAt(p, i, windows)>> \o f[NextAt(p, i)]
  <2>1. i \in Nat /\ ~ (i > Len(p))
    OBVIOUS
  <2> QED
    BY <2>1, GlobStepIs
<1>2. ASSUME NEW f
      PROVE  Step(f, L + 1) = <<>>
  <2>1. L + 1 \in Nat /\ L + 1 > Len(p)
    OBVIOUS
  <2> QED
    BY <2>1, GlobStepIs
<1>3. 0 \in S
  <2> DEFINE f == [i \in L + 1 .. L + 1 |-> <<>>]
  <2>1. f = [i \in L + 1 .. L + 1 |-> Step(f, i)]
    <3>1. \A i \in L + 1 .. L + 1 : i = L + 1
      OBVIOUS
    <3> HIDE DEF Step
    <3> QED
      BY <1>2, <3>1
  <2>2. L + 1 - 0 = L + 1
    OBVIOUS
  <2>3. Walks(0, f)
    BY <2>1, <2>2
  <2> QED
    BY <2>3
<1>4. ASSUME NEW n \in S PROVE n + 1 \in S
  <2> SUFFICES ASSUME n + 1 <= L PROVE \E f : Walks(n + 1, f)
    OBVIOUS
  <2>1. PICK f : Walks(n, f)
    OBVIOUS
  <2> DEFINE m == L - n
             g == [i \in m .. L + 1 |-> IF i = m THEN Step(f, i) ELSE f[i]]
  <2>2. m \in 1 .. L /\ L + 1 - n = m + 1 /\ L + 1 - (n + 1) = m
    OBVIOUS
  <2>3. f = [i \in m + 1 .. L + 1 |-> Step(f, i)]
    BY <2>1, <2>2
  <2> HIDE DEF m, Step, S, Walks
  <2>4. \A i \in m .. L + 1 : g[i] = Step(g, i)
    <3> SUFFICES ASSUME NEW i \in m .. L + 1 PROVE g[i] = Step(g, i)
      OBVIOUS
    <3>1. CASE i = L + 1
      <4>1. i \in m + 1 .. L + 1 /\ i # m
        BY <2>2, <3>1
      <4>2. g[i] = f[i] /\ f[i] = Step(f, i)
        BY <2>3, <4>1
      <4> QED
        BY <1>2, <3>1, <4>2
    <3>2. CASE i \in m .. L
      <4>1. i \in 1 .. L /\ NextAt(p, i) \in m + 1 .. L + 1 /\ NextAt(p, i) # m
        BY <2>2, <3>2, NextIs
      <4>2. g[NextAt(p, i)] = f[NextAt(p, i)]
        BY <2>2, <4>1
      <4>3. Step(g, i) = Step(f, i)
        BY <1>1, <4>1, <4>2
      <4>4. i # m => i \in m + 1 .. L + 1
        BY <2>2
      <4> QED
        BY <2>3, <4>3, <4>4
    <3> QED
      BY <2>2, <3>1, <3>2
  <2>5. g = [i \in m .. L + 1 |-> Step(g, i)]
    BY <2>4
  <2>6. Walks(n + 1, g)
    BY <2>2, <2>5 DEF Walks
  <2> QED
    BY <2>6
<1>5. S = Nat
  <2> HIDE DEF S
  <2> QED
    BY <1>3, <1>4, Induction DEF S
<1>6. PICK f : Walks(L, f)
  BY <1>5
<1>7. f = [i \in 1 .. L + 1 |-> Step(f, i)]
  <2>1. L + 1 - L = 1
    OBVIOUS
  <2> QED
    BY <1>6, <2>1
<1>8. \E g : /\ g = [i \in 1 .. L + 1 |-> Step(g, i)]
             /\ Glob(p, windows) = g[1]
  BY <1>7 DEF Glob, GlobStep
<1>9. PICK g : /\ g = [i \in 1 .. L + 1 |-> Step(g, i)]
               /\ Glob(p, windows) = g[1]
  BY <1>8
<1>10. \A i \in 1 .. L + 1 : g[i] = Step(g, i)
  <2> HIDE DEF Step
  <2> QED
    BY <1>9
<1>11. g[L + 1] = <<>>
  <2>1. L + 1 \in 1 .. L + 1
    OBVIOUS
  <2> HIDE DEF Step
  <2> QED
    BY <1>2, <1>10, <2>1
<1>12. ASSUME NEW i \in 1 .. L
       PROVE  g[i] = <<PieceAt(p, i, windows)>> \o g[NextAt(p, i)]
  <2>1. i \in 1 .. L + 1
    OBVIOUS
  <2> HIDE DEF Step
  <2> QED
    BY <1>1, <1>10, <2>1
<1> QED
  BY <1>9, <1>11, <1>12

\* One step of the recursion of Matches.
EndsStep(glob, value, ends, i) ==
    IF i = 0 THEN {0} ELSE UNION {Reach(glob[i], value, j) : j \in ends[i - 1]}

\* The recursion of Matches has a solution, from the first piece on.
LEMMA MatchesIs ==
    ASSUME NEW glob, NEW value, Len(glob) \in Nat
    PROVE  \E ends :
              /\ Matches(glob, value) <=> Len(value) \in ends[Len(glob)]
              /\ ends[0] = {0}
              /\ \A i \in 1 .. Len(glob) :
                    ends[i] = UNION {Reach(glob[i], value, j) : j \in ends[i - 1]}
<1> DEFINE L == Len(glob)
           Walks(n, w) == w = [i \in 0 .. n |-> EndsStep(glob, value, w, i)]
           S == {n \in Nat : \E w : Walks(n, w)}
<1>1. 0 \in S
  <2> DEFINE w == [i \in 0 .. 0 |-> {0}]
  <2>1. Walks(0, w)
    BY DEF EndsStep
  <2> QED
    BY <2>1
<1>2. ASSUME NEW n \in S PROVE n + 1 \in S
  <2>1. PICK w : Walks(n, w)
    OBVIOUS
  <2> DEFINE x == [i \in 0 .. n + 1 |-> IF i = n + 1 THEN EndsStep(glob, value, w, i) ELSE w[i]]
  <2> HIDE DEF Walks, x
  <2>2. \A i \in 0 .. n + 1 : x[i] = EndsStep(glob, value, x, i)
    <3> SUFFICES ASSUME NEW i \in 0 .. n + 1 PROVE x[i] = EndsStep(glob, value, x, i)
      OBVIOUS
    <3>1. i # 0 => x[i - 1] = w[i - 1]
      BY DEF x
    <3>2. EndsStep(glob, value, x, i) = EndsStep(glob, value, w, i)
      BY <3>1 DEF EndsStep
    <3>3. i \in 0 .. n => w[i] = EndsStep(glob, value, w, i)
      BY <2>1 DEF Walks
    <3> QED
      BY <3>2, <3>3 DEF x
  <2>3. x = [i \in 0 .. n + 1 |-> EndsStep(glob, value, x, i)]
    BY <2>2 DEF x
  <2>4. Walks(n + 1, x)
    BY <2>3 DEF Walks
  <2> QED
    BY <2>4
<1>3. S = Nat
  BY <1>1, <1>2, Induction
<1>4. PICK w : Walks(L, w)
  BY <1>3
<1>5. \E v : Walks(L, v) /\ (Matches(glob, value) <=> Len(value) \in v[L])
  BY <1>4 DEF Matches, EndsStep
<1>6. PICK v : Walks(L, v) /\ (Matches(glob, value) <=> Len(value) \in v[L])
  BY <1>5
<1>7. \A i \in 0 .. L : v[i] = EndsStep(glob, value, v, i)
  BY <1>6
<1>8. v[0] = {0}
  <2>1. 0 \in 0 .. L
    OBVIOUS
  <2> QED
    BY <1>7, <2>1 DEF EndsStep
<1>9. ASSUME NEW i \in 1 .. L
      PROVE  v[i] = UNION {Reach(glob[i], value, j) : j \in v[i - 1]}
  <2>1. i \in 0 .. L /\ i # 0
    OBVIOUS
  <2> QED
    BY <1>7, <2>1 DEF EndsStep
<1> QED
  BY <1>6, <1>8, <1>9

\* A match goes through a pattern and a value side by side: what holds at their
\* beginnings, and behind a piece if it held before, holds at their ends.
LEMMA MatchGoesThrough ==
    ASSUME NEW p, Len(p) \in Nat, NEW value, Len(value) \in Nat, NEW windows,
           Matches(Glob(p, windows), value),
           NEW R, <<1, 0>> \in R,
           \A i \in 1 .. Len(p), j \in 0 .. Len(value) : <<i, j>> \in R =>
              \A k \in Reach(PieceAt(p, i, windows), value, j) : <<NextAt(p, i), k>> \in R
    PROVE  <<Len(p) + 1, Len(value)>> \in R
<1> DEFINE L == Len(p)
           G == Glob(p, windows)
           Pieces == {PieceAt(p, i, windows) : i \in 1 .. L}
<1>1. PICK from :
         /\ G = from[1]
         /\ from[L + 1] = <<>>
         /\ \A i \in 1 .. L : from[i] = <<PieceAt(p, i, windows)>> \o from[NextAt(p, i)]
  BY GlobIs
<1>2. \A i \in 1 .. L + 1 : from[i] \in Seq(Pieces)
  <2> DEFINE T == {n \in Nat : \A i \in 1 .. L + 1 : i >= L + 1 - n => from[i] \in Seq(Pieces)}
  <2>1. 0 \in T
    <3>1. from[L + 1] = <<>>
      BY <1>1
    <3>2. \A i \in 1 .. L + 1 : i >= L + 1 - 0 => i = L + 1
      OBVIOUS
    <3>3. <<>> \in Seq(Pieces)
      OBVIOUS
    <3> QED
      BY <3>1, <3>2, <3>3
  <2>2. ASSUME NEW n \in T PROVE n + 1 \in T
    <3> SUFFICES ASSUME NEW i \in 1 .. L + 1, i >= L + 1 - (n + 1)
                 PROVE  from[i] \in Seq(Pieces)
      OBVIOUS
    <3>1. CASE i >= L + 1 - n
      BY <3>1
    <3>2. CASE i < L + 1 - n
      <4>1. i \in 1 .. L /\ i # L + 1
        BY <3>2
      <4>2. NextAt(p, i) \in 1 .. L + 1 /\ NextAt(p, i) >= L + 1 - n
        BY <4>1, NextIs
      <4>3. from[NextAt(p, i)] \in Seq(Pieces)
        BY <4>2
      <4>4. PieceAt(p, i, windows) \in Pieces
        BY <4>1
      <4>5. from[i] = <<PieceAt(p, i, windows)>> \o from[NextAt(p, i)]
        BY <1>1, <4>1
      <4> HIDE DEF Pieces
      <4> QED
        BY <4>3, <4>4, <4>5
    <3> QED
      BY <3>1, <3>2
  <2>3. T = Nat
    <3> HIDE DEF T
    <3> QED
      BY <2>1, <2>2, Induction DEF T
  <2>4. \A i \in 1 .. L + 1 : i >= L + 1 - L
    OBVIOUS
  <2> QED
    BY <2>3, <2>4
<1>3. G \in Seq(Pieces) /\ Len(G) \in Nat
  <2>1. 1 \in 1 .. L + 1
    OBVIOUS
  <2> HIDE DEF Pieces, G
  <2> QED
    BY <1>1, <1>2, <2>1
<1>4. PICK ends :
         /\ Matches(G, value) <=> Len(value) \in ends[Len(G)]
         /\ ends[0] = {0}
         /\ \A i \in 1 .. Len(G) : ends[i] = UNION {Reach(G[i], value, j) : j \in ends[i - 1]}
  <2> HIDE DEF G
  <2> QED
    BY <1>3, MatchesIs
<1> DEFINE Rest(i, c) == /\ Len(from[i]) = Len(G) - c
                         /\ \A k \in 1 .. Len(G) - c : from[i][k] = G[c + k]
           Here(c, j) == j \in 0 .. Len(value) /\ \E i \in 1 .. L + 1 : Rest(i, c) /\ <<i, j>> \in R
           T == {c \in Nat : c <= Len(G) => \A j \in ends[c] : Here(c, j)}
<1>5. 0 \in T
  <2>1. Rest(1, 0)
    <3> HIDE DEF G
    <3>1. Len(G) - 0 = Len(G) /\ \A k \in 1 .. Len(G) - 0 : 0 + k = k
      BY <1>3
    <3> QED
      BY <1>1, <3>1
  <2>2. 1 \in 1 .. L + 1 /\ 0 \in 0 .. Len(value)
    OBVIOUS
  <2>3. Here(0, 0)
    BY <2>1, <2>2
  <2> HIDE DEF Here
  <2> QED
    BY <1>4, <2>3
<1>6. ASSUME NEW c \in T PROVE c + 1 \in T
  <2> SUFFICES ASSUME c + 1 <= Len(G), NEW k \in ends[c + 1]
               PROVE  Here(c + 1, k)
    OBVIOUS
  <2>1. c \in Nat /\ c + 1 \in 1 .. Len(G) /\ c <= Len(G) /\ (c + 1) - 1 = c
    <3> HIDE DEF G, Here
    <3>1. c \in Nat /\ c + 1 <= Len(G)
      BY DEF G
    <3> QED
      BY <1>3, <3>1
  <2> HIDE DEF G
  <2>2. ends[c + 1] = UNION {Reach(G[c + 1], value, j) : j \in ends[c]}
    <3> HIDE DEF T
    <3> QED
      BY <1>4, <2>1
  <2>3. PICK j \in ends[c] : k \in Reach(G[c + 1], value, j)
    BY <2>2
  <2>4. PICK i \in 1 .. L + 1 : Rest(i, c) /\ <<i, j>> \in R
    BY <2>1
  <2>5. j \in 0 .. Len(value)
    BY <2>1
  <2> HIDE DEF T
  <2>6. i \in 1 .. L
    <3>1. CASE i = L + 1
      <4>1. Len(from[i]) = 0
        BY <1>1, <3>1
      <4> QED
        BY <1>3, <2>1, <2>4, <4>1
    <3> QED
      BY <3>1
  <2>7. NextAt(p, i) \in 1 .. L + 1
    BY <2>6, NextIs
  <2> DEFINE next == from[NextAt(p, i)]
             piece == PieceAt(p, i, windows)
  <2>8. from[i] = <<piece>> \o next
    <3> HIDE DEF Pieces, Here
    <3> QED
      BY <1>1, <2>6
  <2>9. next \in Seq(Pieces)
    BY <1>2, <2>7
  <2> HIDE DEF next, piece, Pieces
  <2>10. /\ Len(from[i]) = Len(next) + 1 /\ from[i][1] = piece
         /\ \A l \in 1 .. Len(next) : from[i][l + 1] = next[l]
    BY <2>8, <2>9
  <2>11. Len(next) \in Nat
    BY <2>9
  <2>12. piece = G[c + 1]
    <3>1. 1 \in 1 .. Len(G) - c
      BY <1>3, <2>1
    <3> QED
      BY <2>4, <2>10, <3>1
  <2>13. Rest(NextAt(p, i), c + 1)
    <3>1. Len(next) = Len(G) - (c + 1)
      <4>1. Len(next) + 1 = Len(G) - c
        BY <2>4, <2>10
      <4> QED
        BY <1>3, <2>1, <2>11, <4>1
    <3>2. ASSUME NEW l \in 1 .. Len(G) - (c + 1)
          PROVE  next[l] = G[(c + 1) + l]
      <4>1. l \in 1 .. Len(next) /\ l + 1 \in 1 .. Len(G) - c /\ c + (l + 1) = (c + 1) + l
        BY <1>3, <2>1, <3>1
      <4> QED
        BY <2>4, <2>10, <4>1
    <3> QED
      BY <3>1, <3>2 DEF next
  <2>14. <<NextAt(p, i), k>> \in R
    BY <2>3, <2>4, <2>5, <2>6, <2>12 DEF piece
  <2>15. k \in 0 .. Len(value)
    BY <2>3, <2>5 DEF Reach
  <2> QED
    BY <2>7, <2>13, <2>14, <2>15
<1>7. T = Nat
  <2> HIDE DEF T
  <2> QED
    BY <1>5, <1>6, Induction DEF T
<1>8. Here(Len(G), Len(value))
  <2>1. Len(value) \in ends[Len(G)]
    BY <1>4
  <2> HIDE DEF Here, G
  <2>2. Len(G) \in Nat /\ Len(G) <= Len(G)
    BY <1>3
  <2>3. Len(G) \in T
    <3> HIDE DEF T
    <3> QED
      BY <1>7, <2>2
  <2> QED
    BY <2>1, <2>2, <2>3
<1>9. PICK i \in 1 .. L + 1 : Rest(i, Len(G)) /\ <<i, Len(value)>> \in R
  BY <1>8
<1>10. i = L + 1
  <2> SUFFICES ASSUME i # L + 1 PROVE FALSE
    OBVIOUS
  <2>1. i \in 1 .. L
    OBVIOUS
  <2>2. NextAt(p, i) \in 1 .. L + 1
    BY <2>1, NextIs
  <2>3. /\ from[i] = <<PieceAt(p, i, windows)>> \o from[NextAt(p, i)]
        /\ from[NextAt(p, i)] \in Seq(Pieces)
    BY <1>1, <1>2, <2>1, <2>2
  <2> HIDE DEF Pieces, G
  <2>4. Len(from[i]) = 0
    BY <1>3, <1>9
  <2> QED
    BY <2>3, <2>4
<1> QED
  BY <1>9, <1>10

--------------------------------------------------------------------------------
(* A pattern without `**`, and a value it matches, are of one depth.       *)

\* Where among its first n characters a sequence has separators.
SepsUpTo(s, n, windows) == {k \in 1 .. n : s[k] \in Separators(windows)}

\* They are finitely many.
LEMMA SepsAre ==
    ASSUME NEW s, NEW n \in Nat, NEW windows
    PROVE  /\ IsFiniteSet(SepsUpTo(s, n, windows))
           /\ Cardinality(SepsUpTo(s, n, windows)) \in Nat
<1>1. IsFiniteSet(1 .. n)
  BY FS_Interval
<1>2. SepsUpTo(s, n, windows) \subseteq 1 .. n
  BY DEF SepsUpTo
<1>3. IsFiniteSet(SepsUpTo(s, n, windows))
  BY <1>1, <1>2, FS_Subset
<1> QED
  BY <1>3, FS_CardinalityType

\* Characters that are no separators add none to them.
LEMMA NoMoreSeps ==
    ASSUME NEW s, NEW windows, NEW n \in Nat, NEW m \in Nat, n <= m,
           \A k \in n + 1 .. m : s[k] \notin Separators(windows)
    PROVE  SepsUpTo(s, m, windows) = SepsUpTo(s, n, windows)
<1>1. \A k \in 1 .. m : k \in 1 .. n \/ k \in n + 1 .. m
  OBVIOUS
<1>2. \A k \in 1 .. n : k \in 1 .. m
  OBVIOUS
<1> QED
  BY <1>1, <1>2 DEF SepsUpTo

\* One that is adds one.
LEMMA OneMoreSep ==
    ASSUME NEW s, NEW windows, NEW n \in Nat, s[n + 1] \in Separators(windows)
    PROVE  Cardinality(SepsUpTo(s, n + 1, windows)) = Cardinality(SepsUpTo(s, n, windows)) + 1
<1>1. SepsUpTo(s, n + 1, windows) = SepsUpTo(s, n, windows) \cup {n + 1}
  BY DEF SepsUpTo
<1>2. n + 1 \notin SepsUpTo(s, n, windows)
  BY DEF SepsUpTo
<1> QED
  BY <1>1, <1>2, SepsAre, FS_AddElement

\* A wildcard is no separator.
LEMMA WildcardsAreNoSeparators ==
    ASSUME NEW windows
    PROVE  {"*", "?", "["} \cap Separators(windows) = {}
  BY DEF Separators

\* Each piece of such a pattern matches as many separators as it has, none or one.
LEMMA DepthIsKept ==
    ASSUME NEW p, Len(p) \in Nat, NEW value, Len(value) \in Nat, NEW windows,
           Matches(Glob(p, windows), value),
           \A i \in 1 .. Len(p) - 1 : ~ (p[i] = "*" /\ p[i + 1] = "*"),
           \A i \in 1 .. Len(p) : p[i] = "[" =>
              \A j \in i + 1 .. ClassEnd(p, i) : p[j] \notin Separators(windows)
    PROVE  Cardinality(SepsUpTo(p, Len(p), windows))
              = Cardinality(SepsUpTo(value, Len(value), windows))
<1> DEFINE L == Len(p)
           Depth(s, n) == Cardinality(SepsUpTo(s, n, windows))
           Level(i, j) == Depth(p, i - 1) = Depth(value, j)
           R == {x \in (1 .. L + 1) \X (0 .. Len(value)) : Level(x[1], x[2])}
<1>1. <<1, 0>> \in R
  <2>1. SepsUpTo(p, 1 - 1, windows) = {} /\ SepsUpTo(value, 0, windows) = {}
    BY DEF SepsUpTo
  <2>2. Level(1, 0)
    BY <2>1
  <2> QED
    BY <2>2
<1>2. ASSUME NEW i \in 1 .. L, NEW j \in 0 .. Len(value), <<i, j>> \in R,
             NEW k \in Reach(PieceAt(p, i, windows), value, j)
      PROVE  <<NextAt(p, i), k>> \in R
  <2> DEFINE next == NextAt(p, i)
             chars == PieceAt(p, i, windows).chars
  <2>1. next \in i + 1 .. L + 1
    BY NextIs
  <2>2. k \in j .. Len(value) /\ \A l \in j + 1 .. k : value[l] \in chars
    BY DEF Reach
  <2>3. Level(i, j)
    BY <1>2
  <2>4. ASSUME chars \cap Separators(windows) = {},
               \A l \in i .. next - 1 : p[l] \notin Separators(windows)
        PROVE  Level(next, k)
    <3> HIDE DEF next, chars
    <3>1. SepsUpTo(value, k, windows) = SepsUpTo(value, j, windows)
      BY <2>2, <2>4, NoMoreSeps
    <3>2. /\ i - 1 \in Nat /\ next - 1 \in Nat /\ i - 1 <= next - 1
          /\ \A l \in (i - 1) + 1 .. next - 1 : p[l] \notin Separators(windows)
      BY <2>1, <2>4
    <3>3. SepsUpTo(p, next - 1, windows) = SepsUpTo(p, i - 1, windows)
      BY <3>2, NoMoreSeps
    <3> QED
      BY <2>3, <3>1, <3>3
  <2>5. ~ (p[i] = "*" /\ At(p, i + 1) = "*")
    BY DEF At
  <2>6. Level(next, k)
    <3>1. CASE p[i] \in {"*", "?"}
      <4>1. chars = Alphabet \ Separators(windows) /\ next = i + 1
        BY <2>5, <3>1 DEF PieceAt, NextAt, Many, One
      <4>2. \A l \in i .. next - 1 : l = i
        BY <4>1
      <4>3. p[i] \notin Separators(windows)
        BY <3>1, WildcardsAreNoSeparators
      <4> HIDE DEF next, chars
      <4> QED
        BY <2>4, <4>1, <4>2, <4>3
    <3>2. CASE p[i] = "[" /\ ClassEnd(p, i) # 0
      <4>1. chars = ClassChars(p, i, windows) /\ next = ClassEnd(p, i) + 1
        BY <3>2 DEF PieceAt, NextAt, One
      <4>2. ClassEnd(p, i) \in i + 1 .. L
        BY <3>2, ClassEndIs
      <4>3. \A l \in i + 1 .. ClassEnd(p, i) : p[l] \notin Separators(windows)
        BY <3>2
      <4>4. chars \cap Separators(windows) = {}
        <5> DEFINE listed == {p[l] : l \in (IF p[i + 1] = "!" THEN i + 2 ELSE i + 1)
                                              .. ClassEnd(p, i) - 1}
        <5>1. ASSUME NEW c \in listed PROVE c \notin Separators(windows)
          <6>1. PICK l \in i + 1 .. ClassEnd(p, i) : c = p[l]
            BY <4>2
          <6> QED
            BY <4>3, <6>1
        <5>2. ClassChars(p, i, windows) =
                 IF p[i + 1] = "!" THEN Alphabet \ (listed \cup Separators(windows)) ELSE listed
          BY DEF ClassChars
        <5> HIDE DEF listed, chars
        <5> QED
          BY <4>1, <5>1, <5>2
      <4>5. p[i] \notin Separators(windows)
        BY <3>2, WildcardsAreNoSeparators
      <4>6. \A l \in i .. next - 1 : l = i \/ l \in i + 1 .. ClassEnd(p, i)
        BY <4>1, <4>2
      <4> HIDE DEF next, chars
      <4> QED
        BY <2>4, <4>3, <4>4, <4>5, <4>6
    <3>3. CASE p[i] \notin {"*", "?"} /\ ~ (p[i] = "[" /\ ClassEnd(p, i) # 0)
               /\ p[i] \notin Separators(windows)
      <4>1. chars = {p[i]} /\ next = i + 1
        BY <3>3 DEF PieceAt, NextAt, One
      <4>2. \A l \in i .. next - 1 : l = i
        BY <4>1
      <4> HIDE DEF next, chars
      <4> QED
        BY <2>4, <3>3, <4>1, <4>2
    <3>4. CASE p[i] \in Separators(windows)
      <4>0. p[i] \notin {"*", "?", "["}
        BY <3>4, WildcardsAreNoSeparators
      <4>1. PieceAt(p, i, windows) = One(Separators(windows)) /\ next = i + 1
        BY <3>4, <4>0 DEF PieceAt, NextAt
      <4>2. k = j + 1 /\ value[j + 1] \in Separators(windows)
        BY <4>1 DEF Reach, One
      <4>3. Depth(value, k) = Depth(value, j) + 1
        BY <4>2, OneMoreSep
      <4>4. i - 1 \in Nat /\ (i - 1) + 1 = i
        OBVIOUS
      <4>5. Depth(p, i) = Depth(p, i - 1) + 1
        BY <3>4, <4>4, OneMoreSep
      <4>6. next - 1 = i
        BY <4>1
      <4> HIDE DEF next, Depth
      <4> QED
        BY <2>3, <4>3, <4>5, <4>6
    <3> QED
      BY <3>1, <3>2, <3>3, <3>4
  <2>7. k \in 0 .. Len(value) /\ next \in 1 .. L + 1
    BY <2>1, <2>2
  <2> HIDE DEF next, Level
  <2> QED
    BY <2>6, <2>7 DEF next
<1>3. <<L + 1, Len(value)>> \in R
  <2> HIDE DEF R
  <2> QED
    BY <1>1, <1>2, MatchGoesThrough
<1>4. Level(L + 1, Len(value))
  BY <1>3
<1>5. L + 1 - 1 = L
  OBVIOUS
<1> QED
  BY <1>4, <1>5

--------------------------------------------------------------------------------
(* A path that a pattern matches stays under the folder the pattern names. *)

\* Up to its first wildcard a pattern matches its own characters, and a separator for a
\* separator.
LEMMA LiteralsAreMatched ==
    ASSUME NEW p, Len(p) \in Nat, NEW value, Len(value) \in Nat, NEW windows,
           Matches(Glob(p, windows), value),
           NEW f \in 0 .. Len(p), \A i \in 1 .. f : p[i] \notin {"*", "?", "["}
    PROVE  /\ f <= Len(value)
           /\ \A i \in 1 .. f :
                 value[i] = p[i] \/ {value[i], p[i]} \subseteq Separators(windows)
<1> DEFINE L == Len(p)
           Alike(l) == value[l] = p[l] \/ {value[l], p[l]} \subseteq Separators(windows)
           Same(i, j) == /\ i <= f + 1 => j = i - 1
                         /\ \A l \in 1 .. f : l < i => l <= j /\ Alike(l)
           R == {x \in (1 .. L + 1) \X (0 .. Len(value)) : Same(x[1], x[2])}
<1>1. <<1, 0>> \in R
  <2>1. Same(1, 0)
    OBVIOUS
  <2> HIDE DEF Same
  <2> QED
    BY <2>1
<1>2. ASSUME NEW i \in 1 .. L, NEW j \in 0 .. Len(value), <<i, j>> \in R,
             NEW k \in Reach(PieceAt(p, i, windows), value, j)
      PROVE  <<NextAt(p, i), k>> \in R
  <2> DEFINE next == NextAt(p, i)
  <2>1. next \in i + 1 .. L + 1
    BY NextIs
  <2>2. k \in j .. Len(value)
    BY DEF Reach
  <2>3. Same(i, j)
    BY <1>2
  <2>4. Same(next, k)
    <3>1. CASE i <= f
      <4>1. p[i] \notin {"*", "?", "["}
        BY <3>1
      <4>2. /\ next = i + 1
            /\ PieceAt(p, i, windows) = IF p[i] \in Separators(windows) THEN One(Separators(windows))
                                        ELSE One({p[i]})
        BY <4>1 DEF NextAt, PieceAt
      <4>3. j = i - 1
        BY <2>3, <3>1
      <4>4. k = j + 1 /\ value[k] \in PieceAt(p, i, windows).chars
        BY <4>2 DEF Reach, One
      <4>5. k = i /\ Alike(i)
        BY <4>2, <4>3, <4>4 DEF One
      <4> HIDE DEF Alike, next
      <4> QED
        BY <2>3, <3>1, <4>2, <4>3, <4>5
    <3>2. CASE i > f
      <4> HIDE DEF Alike, next
      <4>1. ~ (next <= f + 1)
        BY <2>1, <3>2
      <4>2. ASSUME NEW l \in 1 .. f PROVE l <= k /\ Alike(l)
        BY <2>2, <2>3, <3>2
      <4> QED
        BY <4>1, <4>2
    <3> QED
      BY <3>1, <3>2
  <2> HIDE DEF next, Same
  <2>5. next \in 1 .. L + 1 /\ k \in 0 .. Len(value)
    BY <2>1, <2>2
  <2> QED
    BY <2>4, <2>5 DEF next
<1>3. <<L + 1, Len(value)>> \in R
  <2> HIDE DEF R
  <2> QED
    BY <1>1, <1>2, MatchGoesThrough
<1>4. Same(L + 1, Len(value))
  BY <1>3
<1>5. \A l \in 1 .. f : l <= Len(value) /\ Alike(l)
  <2> HIDE DEF Alike
  <2> QED
    BY <1>4
<1>6. f <= Len(value)
  <2>1. f = 0 \/ f \in 1 .. f
    OBVIOUS
  <2> QED
    BY <1>5, <2>1
<1> QED
  BY <1>5, <1>6

\* One step of the recursion of Resolved.
WalkStep(s, walk, i) ==
    IF i = 0 THEN [path |-> <<>>, segment |-> <<>>]
    ELSE IF s[i] \in Separators(world.windows)
         THEN [path |-> Enter(walk[i - 1].path, walk[i - 1].segment), segment |-> <<>>]
    ELSE [walk[i - 1] EXCEPT !.segment = Append(@, s[i])]

\* The recursion of Resolved has a solution, from the first character on.
LEMMA ResolvedIs ==
    ASSUME NEW s, Len(s) \in Nat
    PROVE  \E walk : /\ Resolved(s) = Enter(walk[Len(s)].path, walk[Len(s)].segment)
                     /\ \A i \in 0 .. Len(s) : walk[i] = WalkStep(s, walk, i)
<1> DEFINE L == Len(s)
           Walks(n, w) == w = [i \in 0 .. n |-> WalkStep(s, w, i)]
           S == {n \in Nat : \E w : Walks(n, w)}
<1>1. 0 \in S
  <2> DEFINE w == [i \in 0 .. 0 |-> [path |-> <<>>, segment |-> <<>>]]
  <2>1. Walks(0, w)
    BY DEF WalkStep
  <2> QED
    BY <2>1
<1>2. ASSUME NEW n \in S PROVE n + 1 \in S
  <2>1. PICK w : Walks(n, w)
    OBVIOUS
  <2> DEFINE x == [i \in 0 .. n + 1 |-> IF i = n + 1 THEN WalkStep(s, w, i) ELSE w[i]]
  <2> HIDE DEF Walks, x
  <2>2. \A i \in 0 .. n + 1 : x[i] = WalkStep(s, x, i)
    <3> SUFFICES ASSUME NEW i \in 0 .. n + 1 PROVE x[i] = WalkStep(s, x, i)
      OBVIOUS
    <3>1. i # 0 => x[i - 1] = w[i - 1]
      BY DEF x
    <3>2. WalkStep(s, x, i) = WalkStep(s, w, i)
      BY <3>1 DEF WalkStep
    <3>3. i \in 0 .. n => w[i] = WalkStep(s, w, i)
      BY <2>1 DEF Walks
    <3> QED
      BY <3>2, <3>3 DEF x
  <2>3. x = [i \in 0 .. n + 1 |-> WalkStep(s, x, i)]
    BY <2>2 DEF x
  <2>4. Walks(n + 1, x)
    BY <2>3 DEF Walks
  <2> QED
    BY <2>4
<1>3. S = Nat
  BY <1>1, <1>2, Induction
<1>4. PICK w : Walks(L, w)
  BY <1>3
<1>5. \E v : Walks(L, v) /\ Resolved(s) = Enter(v[L].path, v[L].segment)
  BY <1>4 DEF Resolved, WalkStep
<1>6. PICK v : Walks(L, v) /\ Resolved(s) = Enter(v[L].path, v[L].segment)
  BY <1>5
<1>7. \A i \in 0 .. L : v[i] = WalkStep(s, v, i)
  BY <1>6
<1> QED
  BY <1>6, <1>7

\* A path goes on from another one.
GoesOn(path, from) == Len(from) <= Len(path) /\ \A k \in 1 .. Len(from) : path[k] = from[k]

\* A path goes on from where the one it goes on from does.
LEMMA GoesOnFurther ==
    ASSUME NEW S, NEW a \in Seq(S), NEW b \in Seq(S), NEW c \in Seq(S),
           GoesOn(b, a), GoesOn(c, b)
    PROVE  GoesOn(c, a)
<1>1. Len(a) \in Nat /\ Len(b) \in Nat /\ Len(c) \in Nat
  OBVIOUS
<1>2. Len(a) <= Len(b) /\ Len(b) <= Len(c)
  BY DEF GoesOn
<1>3. ASSUME NEW k \in 1 .. Len(a) PROVE c[k] = a[k]
  <2>1. k \in 1 .. Len(b)
    BY <1>1, <1>2
  <2> QED
    BY <2>1 DEF GoesOn
<1>4. Len(a) <= Len(c)
  BY <1>1, <1>2
<1> QED
  BY <1>3, <1>4 DEF GoesOn

\* Any segment but `..` leads on.
LEMMA EnterGoesOn ==
    ASSUME NEW C, NEW path \in Seq(Seq(C)), NEW segment \in Seq(C), segment # <<".", ".">>
    PROVE  Enter(path, segment) \in Seq(Seq(C)) /\ GoesOn(Enter(path, segment), path)
<1>1. Enter(path, segment) = path \/ Enter(path, segment) = Append(path, segment)
  BY DEF Enter
<1>2. path \in Seq(Seq(C)) /\ GoesOn(path, path)
  BY DEF GoesOn
<1>3. Append(path, segment) \in Seq(Seq(C)) /\ GoesOn(Append(path, segment), path)
  <2>1. /\ Append(path, segment) \in Seq(Seq(C)) /\ Len(Append(path, segment)) = Len(path) + 1
        /\ Len(path) \in Nat
    OBVIOUS
  <2>2. \A k \in 1 .. Len(path) : Append(path, segment)[k] = path[k]
    OBVIOUS
  <2> QED
    BY <2>1, <2>2 DEF GoesOn
<1> QED
  BY <1>1, <1>2, <1>3

\* The way a value without a `..` segment leads: a segment is what follows the last
\* separator, none is `..`, and the path goes on from wherever it has been.
LEMMA WalkGoesOn ==
    ASSUME NEW C, NEW v \in Seq(C), ~ HasDotDot(v),
           NEW walk, \A i \in 0 .. Len(v) : walk[i] = WalkStep(v, walk, i)
    PROVE  /\ \A i \in 0 .. Len(v) : walk[i] \in [path : Seq(Seq(C)), segment : Seq(C)]
           /\ \A i \in 0 .. Len(v) : i = Len(v) \/ v[i + 1] \in Separators(world.windows) =>
                 walk[i].segment # <<".", ".">>
           /\ \A i \in 1 .. Len(v) : GoesOn(walk[i].path, walk[i - 1].path)
<1> DEFINE L == Len(v)
           Since(i, b) == /\ b = 0 \/ v[b] \in Separators(world.windows)
                          /\ Len(walk[i].segment) = i - b
                          /\ \A k \in 1 .. i - b : walk[i].segment[k] = v[b + k]
           Right(i) == /\ walk[i] \in [path : Seq(Seq(C)), segment : Seq(C)]
                       /\ \E b \in 0 .. i : Since(i, b)
           T == {i \in Nat : i <= L => Right(i)}
<1>1. L \in Nat /\ Separators(world.windows) \subseteq {"/", "\\"}
  BY DEF Separators
<1>2. ASSUME NEW i \in 0 .. L, Right(i), i = L \/ v[i + 1] \in Separators(world.windows)
      PROVE  walk[i].segment # <<".", ".">>
  <2> SUFFICES ASSUME walk[i].segment = <<".", ".">> PROVE HasDotDot(v)
    OBVIOUS
  <2>1. PICK b \in 0 .. i : Since(i, b)
    BY <1>2
  <2>2. b = i - 2 /\ i - 1 \in 1 .. L - 1 /\ (i - 1) + 1 = i
    <3>1. Len(<<".", ".">>) = 2
      OBVIOUS
    <3> QED
      BY <1>1, <2>1, <3>1
  <2>3. v[i - 1] = "." /\ v[i] = "."
    <3>1. 1 \in 1 .. i - b /\ 2 \in 1 .. i - b /\ b + 1 = i - 1 /\ b + 2 = i
      BY <2>2
    <3>2. walk[i].segment[1] = "." /\ walk[i].segment[2] = "."
      OBVIOUS
    <3> QED
      BY <2>1, <3>1, <3>2
  <2>4. At(v, (i - 1) - 1) \in {"/", "\\", "end"}
    BY <1>1, <2>1, <2>2 DEF At
  <2>5. At(v, (i - 1) + 2) \in {"/", "\\", "end"}
    <3>1. (i - 1) + 2 = i + 1
      OBVIOUS
    <3> QED
      BY <1>1, <1>2, <3>1 DEF At
  <2> QED
    BY <2>2, <2>3, <2>4, <2>5 DEF HasDotDot
<1>3. Right(0)
  <2>1. walk[0] = [path |-> <<>>, segment |-> <<>>]
    <3>1. 0 \in 0 .. L
      BY <1>1
    <3> QED
      BY <3>1 DEF WalkStep
  <2>2. Since(0, 0)
    BY <2>1
  <2>3. walk[0] \in [path : Seq(Seq(C)), segment : Seq(C)]
    BY <2>1
  <2> QED
    BY <2>2, <2>3
<1>4. ASSUME NEW i \in 0 .. L, i < L, Right(i)
      PROVE  Right(i + 1) /\ GoesOn(walk[i + 1].path, walk[i].path)
  <2>1. i + 1 \in 0 .. L /\ i + 1 # 0 /\ (i + 1) - 1 = i /\ i + 1 \in 1 .. L
    BY <1>1, <1>4
  <2>2. walk[i + 1] = WalkStep(v, walk, i + 1)
    BY <2>1
  <2>3. walk[i].path \in Seq(Seq(C)) /\ walk[i].segment \in Seq(C)
    BY <1>4
  <2>4. CASE v[i + 1] \in Separators(world.windows)
    <3>1. walk[i + 1] = [path |-> Enter(walk[i].path, walk[i].segment), segment |-> <<>>]
      BY <2>1, <2>2, <2>4 DEF WalkStep
    <3>2. walk[i].segment # <<".", ".">>
      BY <1>2, <1>4, <2>4
    <3>3. /\ Enter(walk[i].path, walk[i].segment) \in Seq(Seq(C))
          /\ GoesOn(Enter(walk[i].path, walk[i].segment), walk[i].path)
      BY <2>3, <3>2, EnterGoesOn
    <3>4. Since(i + 1, i + 1)
      BY <2>4, <3>1
    <3>5. walk[i + 1] \in [path : Seq(Seq(C)), segment : Seq(C)]
      BY <3>1, <3>3
    <3>6. i + 1 \in 0 .. i + 1
      BY <2>1
    <3> HIDE DEF Since
    <3> QED
      BY <3>1, <3>3, <3>4, <3>5, <3>6
  <2>5. CASE v[i + 1] \notin Separators(world.windows)
    <3>1. walk[i + 1] = [walk[i] EXCEPT !.segment = Append(@, v[i + 1])]
      BY <2>1, <2>2, <2>5 DEF WalkStep
    <3>2. v[i + 1] \in C
      BY <2>1
    <3>3. /\ walk[i + 1].path = walk[i].path
          /\ walk[i + 1].segment = Append(walk[i].segment, v[i + 1])
          /\ walk[i + 1] \in [path : Seq(Seq(C)), segment : Seq(C)]
      <4>1. walk[i] \in [path : Seq(Seq(C)), segment : Seq(C)]
        BY <1>4
      <4>2. Append(walk[i].segment, v[i + 1]) \in Seq(C)
        BY <2>3, <3>2
      <4> DEFINE longer == Append(walk[i].segment, v[i + 1])
      <4>3. walk[i + 1] = [walk[i] EXCEPT !.segment = longer]
        BY <3>1
      <4>4. longer \in Seq(C)
        BY <4>2
      <4> HIDE DEF longer, Right, Since
      <4>5. /\ walk[i + 1].path = walk[i].path /\ walk[i + 1].segment = longer
            /\ walk[i + 1] \in [path : Seq(Seq(C)), segment : Seq(C)]
        BY <4>1, <4>3, <4>4
      <4> QED
        BY <4>5 DEF longer
    <3>4. GoesOn(walk[i + 1].path, walk[i].path)
      BY <2>3, <3>3 DEF GoesOn
    <3>5. PICK b \in 0 .. i : Since(i, b)
      BY <1>4
    <3>6. Since(i + 1, b)
      <4>1. Len(walk[i + 1].segment) = (i + 1) - b
        BY <2>3, <3>2, <3>3, <3>5
      <4>2. ASSUME NEW k \in 1 .. (i + 1) - b
            PROVE  walk[i + 1].segment[k] = v[b + k]
        <5>1. CASE k \in 1 .. i - b
          BY <2>3, <3>2, <3>3, <3>5, <5>1
        <5>2. CASE k = (i + 1) - b
          <6>1. b + k = i + 1 /\ k = Len(walk[i].segment) + 1
            BY <3>5, <5>2
          <6> QED
            BY <2>3, <3>2, <3>3, <6>1
        <5> QED
          BY <5>1, <5>2
      <4> QED
        BY <3>5, <4>1, <4>2
    <3>7. b \in 0 .. i + 1
      BY <2>1
    <3> HIDE DEF Since
    <3> QED
      BY <3>3, <3>4, <3>6, <3>7
  <2> QED
    BY <2>4, <2>5
<1>5. T = Nat
  <2>1. 0 \in T
    BY <1>3
  <2>2. ASSUME NEW i \in T PROVE i + 1 \in T
    <3> HIDE DEF Right
    <3> QED
      BY <1>1, <1>4
  <2> HIDE DEF T
  <2> QED
    BY <2>1, <2>2, Induction DEF T
<1>6. \A i \in 0 .. L : Right(i)
  <2> HIDE DEF Right
  <2> QED
    BY <1>1, <1>5
<1>7. ASSUME NEW i \in 1 .. L PROVE GoesOn(walk[i].path, walk[i - 1].path)
  <2>1. i - 1 \in 0 .. L /\ i - 1 < L /\ (i - 1) + 1 = i
    BY <1>1
  <2> HIDE DEF Right
  <2> QED
    BY <1>4, <1>6, <2>1
<1> QED
  BY <1>2, <1>6, <1>7

\* The folder is the start of the pattern, up to a separator before any wildcard.
LEMMA FolderIs ==
    ASSUME NEW p, Len(p) \in Nat, DOMAIN p = 1 .. Len(p)
    PROVE  \E f \in 0 .. Len(p) :
              /\ Folder(p) = SubSeq(p, 1, f)
              /\ \A i \in 1 .. f : p[i] \notin {"*", "?", "["}
              /\ f # 0 => p[f] \in Separators(world.windows)
<1> DEFINE L == Len(p)
           ends == {i \in DOMAIN p : /\ p[i] \in Separators(world.windows)
                                     /\ \A j \in 1 .. i : p[j] \notin {"*", "?", "["}}
           last == CHOOSE i \in ends : \A j \in ends : j <= i
<1>1. Folder(p) = SubSeq(p, 1, IF ends = {} THEN 0 ELSE last)
  BY DEF Folder
<1>2. CASE ends = {}
  BY <1>1, <1>2
<1>3. CASE ends # {}
  <2> DEFINE U == {L - i : i \in ends}
  <2>1. \A i \in ends : i \in 1 .. L /\ L - i \in Nat
    OBVIOUS
  <2>2. U \in SUBSET Nat /\ U # {}
    BY <1>3, <2>1
  <2>3. PICK u \in U : \A m \in U : u <= m
    <3> HIDE DEF U
    <3> QED
      BY <2>2, LeastOf
  <2>4. PICK i \in ends : u = L - i
    BY <2>3
  <2>5. \A j \in ends : L - j \in U
    OBVIOUS
  <2>6. \A j \in ends : j <= i
    <3> HIDE DEF ends, U
    <3> QED
      BY <2>1, <2>3, <2>4, <2>5
  <2>7. last \in ends
    <3> HIDE DEF ends
    <3> QED
      BY <2>4, <2>6
  <2> HIDE DEF last
  <2>8. Folder(p) = SubSeq(p, 1, last)
    BY <1>1, <1>3
  <2> QED
    BY <2>7, <2>8
<1> QED
  BY <1>2, <1>3

\* What a pattern matches leads to a place under the pattern's folder, if it has no `..`.
LEMMA MatchesStayUnder ==
    ASSUME NEW C, NEW p, NEW D, p \in Seq(D), NEW v \in Seq(C), ~ HasDotDot(v),
           Matches(Glob(p, world.windows), v)
    PROVE  /\ Len(Resolved(Folder(p))) <= Len(Resolved(v))
           /\ SubSeq(Resolved(v), 1, Len(Resolved(Folder(p)))) = Resolved(Folder(p))
<1> DEFINE F == Folder(p)
           L == Len(v)
<1>1. PICK f \in 0 .. Len(p) :
         /\ F = SubSeq(p, 1, f)
         /\ \A i \in 1 .. f : p[i] \notin {"*", "?", "["}
         /\ f # 0 => p[f] \in Separators(world.windows)
  BY FolderIs
<1>2. Len(F) = f /\ \A i \in 1 .. f : F[i] = p[i]
  BY <1>1
<1>3. /\ f <= L
      /\ \A i \in 1 .. f : v[i] = p[i] \/ {v[i], p[i]} \subseteq Separators(world.windows)
  BY <1>1, LiteralsAreMatched
<1> HIDE DEF F
<1>4. PICK x : /\ Resolved(F) = Enter(x[f].path, x[f].segment)
               /\ \A i \in 0 .. f : x[i] = WalkStep(F, x, i)
  BY <1>2, ResolvedIs
<1>5. PICK y : /\ Resolved(v) = Enter(y[L].path, y[L].segment)
               /\ \A i \in 0 .. L : y[i] = WalkStep(v, y, i)
  BY ResolvedIs
<1>6. x[f] = y[f]
  <2> DEFINE T == {i \in Nat : i <= f => x[i] = y[i]}
  <2>1. 0 \in T
    <3>1. 0 \in 0 .. f /\ 0 \in 0 .. L
      OBVIOUS
    <3>2. x[0] = WalkStep(F, x, 0) /\ y[0] = WalkStep(v, y, 0)
      BY <1>4, <1>5, <3>1
    <3> QED
      BY <3>2 DEF WalkStep
  <2>2. ASSUME NEW i \in T PROVE i + 1 \in T
    <3> SUFFICES ASSUME i + 1 <= f PROVE x[i + 1] = y[i + 1]
      OBVIOUS
    <3>1. i + 1 \in 0 .. f /\ i + 1 \in 0 .. L /\ i + 1 \in 1 .. f /\ i + 1 # 0 /\ (i + 1) - 1 = i
      BY <1>3
    <3>2. x[i] = y[i]
      OBVIOUS
    <3>3. \/ F[i + 1] = v[i + 1]
          \/ F[i + 1] \in Separators(world.windows) /\ v[i + 1] \in Separators(world.windows)
      BY <1>2, <1>3, <3>1
    <3>4. WalkStep(F, x, i + 1) = WalkStep(v, y, i + 1)
      BY <3>1, <3>2, <3>3 DEF WalkStep
    <3> QED
      BY <1>4, <1>5, <3>1, <3>4
  <2>3. T = Nat
    <3> HIDE DEF T
    <3> QED
      BY <2>1, <2>2, Induction DEF T
  <2> QED
    BY <2>3
<1>7. /\ \A i \in 0 .. L : y[i] \in [path : Seq(Seq(C)), segment : Seq(C)]
      /\ y[L].segment # <<".", ".">>
      /\ \A i \in 1 .. L : GoesOn(y[i].path, y[i - 1].path)
  BY <1>5, WalkGoesOn
<1> DEFINE folder == y[f].path
<1>8. Resolved(F) = folder
  <2>1. y[f].segment = <<>>
    <3>1. CASE f = 0
      <4>1. y[0] = WalkStep(v, y, 0)
        BY <1>5
      <4> QED
        BY <3>1, <4>1 DEF WalkStep
    <3>2. CASE f # 0
      <4>1. v[f] \in Separators(world.windows) /\ f \in 0 .. L
        BY <1>1, <1>3, <3>2
      <4>2. y[f] = WalkStep(v, y, f)
        BY <1>5, <4>1
      <4> QED
        BY <3>2, <4>1, <4>2 DEF WalkStep
    <3> QED
      BY <3>1, <3>2
  <2> QED
    BY <1>4, <1>6, <2>1 DEF Enter
<1>9. folder \in Seq(Seq(C))
  BY <1>3, <1>7
<1>10. GoesOn(y[L].path, folder)
  <2> DEFINE T == {n \in Nat : f + n <= L => GoesOn(y[f + n].path, folder)}
  <2>1. 0 \in T
    BY <1>9 DEF GoesOn
  <2>2. ASSUME NEW n \in T PROVE n + 1 \in T
    <3> SUFFICES ASSUME f + (n + 1) <= L PROVE GoesOn(y[f + (n + 1)].path, folder)
      OBVIOUS
    <3> DEFINE a == y[f + n].path
               b == y[f + (n + 1)].path
    <3>1. /\ f + n \in 0 .. L /\ f + (n + 1) \in 1 .. L /\ (f + (n + 1)) - 1 = f + n
          /\ f + (n + 1) \in 0 .. L
      OBVIOUS
    <3>2. GoesOn(a, folder)
      BY <3>1
    <3>3. GoesOn(b, a) /\ a \in Seq(Seq(C)) /\ b \in Seq(Seq(C))
      BY <1>7, <3>1
    <3> HIDE DEF a, b, folder
    <3>4. GoesOn(b, folder)
      BY <1>9, <3>2, <3>3, GoesOnFurther
    <3> QED
      BY <3>4 DEF b
  <2>3. T = Nat
    <3> HIDE DEF T
    <3> QED
      BY <2>1, <2>2, Induction DEF T
  <2>4. L - f \in Nat /\ f + (L - f) = L
    BY <1>3
  <2>5. L - f \in T
    <3> HIDE DEF T
    <3> QED
      BY <2>3, <2>4
  <2>6. GoesOn(y[f + (L - f)].path, folder)
    BY <2>4, <2>5
  <2> QED
    BY <2>4, <2>6
<1>11. Resolved(v) \in Seq(Seq(C)) /\ GoesOn(Resolved(v), y[L].path) /\ y[L].path \in Seq(Seq(C))
  <2>1. L \in 0 .. L
    OBVIOUS
  <2>2. y[L].path \in Seq(Seq(C)) /\ y[L].segment \in Seq(C)
    BY <1>7, <2>1
  <2> QED
    BY <1>5, <1>7, <2>2, EnterGoesOn
<1>12. GoesOn(Resolved(v), folder)
  <2> HIDE DEF folder
  <2> QED
    BY <1>9, <1>10, <1>11, GoesOnFurther
<1>13. Len(folder) <= Len(Resolved(v)) /\ SubSeq(Resolved(v), 1, Len(folder)) = folder
  <2> DEFINE b == Resolved(v)
  <2> HIDE DEF b, folder
  <2>1. ASSUME b \in Seq(Seq(C)), GoesOn(b, folder)
        PROVE  Len(folder) <= Len(b) /\ SubSeq(b, 1, Len(folder)) = folder
    BY <1>9, <2>1 DEF GoesOn
  <2> QED
    BY <1>11, <1>12, <2>1 DEF b
<1> QED
  BY <1>8, <1>13 DEF F

--------------------------------------------------------------------------------
(* What the globs of the policies let through.                             *)

\* The entry that decides comes from a 0.1.x file; each of its globs matched its value.
LEMMA MatchedAre ==
    ASSUME GrantInv, NEW m \in Matched
    PROVE  /\ m[1] \in Seq(STRING) /\ m[2] \in Seq(Alphabet)
           /\ GlobMatches(m[1], m[2], world.windows)
<1> DEFINE n == asked.agent
           call == asked.call
           s == call.server
           permissions == live.policies[live.agents[n].id].permissions
           entries == permissions[live.servers[s].id]
           IsFirst(i) == /\ call.tool \in entries[i].tools
                         /\ \A j \in 1 .. i - 1 : call.tool \notin entries[j].tools
           first == CHOOSE i \in DOMAIN entries : IsFirst(i)
<1>1. asked # None /\ asked.allowed
  BY DEF Matched
<1>2. m \in {<<p.pattern, call.arguments[p.arg]>> : p \in
                {p \in entries[first].policies : ~ p.regex /\ p.arg \in DOMAIN call.arguments}}
  BY <1>1 DEF Matched
<1>3. /\ world \in Worlds /\ HasIds(live) /\ n \in DOMAIN world.agents /\ call \in Calls(world)
      /\ live.agents[n].id = Ids[n].id /\ live.servers = ServerIds
  BY <1>1, WhenAsked DEF GrantInv, HasIds
<1>4. /\ Ids[n].id \in DOMAIN live.policies /\ s \in DOMAIN world.servers
      /\ CheckPermission(permissions, ServerIds[s].id, call.tool, call.arguments, world.windows)
  BY <1>1, <1>3, WhenAsked, ServerIdsAre DEF Decides
<1>5. PICK g \in DOMAIN world.policies : Fits(g, n) /\ live.policies[Ids[n].id] = Converted(g, n)
  BY <1>1, <1>4, WhenAsked
<1>6. permissions = ById(ServerIds, world.policies[g].permissions)
  BY <1>3, <1>5 DEF Converted
<1>7. ServerIds[s].id \in DOMAIN permissions
  BY <1>4 DEF CheckPermission
<1>8. /\ Name(s) \in DOMAIN world.policies[g].permissions
      /\ entries = world.policies[g].permissions[Name(s)]
  <2> HIDE DEF permissions
  <2> QED
    BY <1>3, <1>4, <1>6, <1>7, ByIdMeans
<1>9. /\ Len(entries) \in Nat /\ DOMAIN entries = 1 .. Len(entries)
      /\ \A i \in DOMAIN entries : \A p \in entries[i].policies :
            ~ p.regex => p.pattern \in Seq(STRING)
  <2>1. world.policies[g] # Torn
    BY <1>5 DEF Fits
  <2> HIDE DEF entries
  <2> QED
    BY <1>3, <1>8, <2>1, RulesAreRules
<1>10. PICK i \in DOMAIN entries :
          IsFirst(i) /\ EnforcePolicies(entries[i].policies, call.arguments, world.windows)
  BY <1>3, <1>4 DEF CheckPermission
<1>11. first = i
  <2> HIDE DEF entries
  <2>1. \A j \in DOMAIN entries : IsFirst(j) => j = i
    BY <1>9, <1>10
  <2> QED
    BY <1>10, <2>1
<1> HIDE DEF entries, first, call
<1>12. PICK p \in entries[i].policies :
          /\ ~ p.regex /\ p.arg \in DOMAIN call.arguments
          /\ m = <<p.pattern, call.arguments[p.arg]>>
  BY <1>2, <1>11
<1>13. GlobMatches(p.pattern, call.arguments[p.arg], world.windows)
  BY <1>10, <1>12 DEF EnforcePolicies, MatchPolicy
<1>14. p.pattern \in Seq(STRING) /\ call.arguments[p.arg] \in Seq(Alphabet)
  BY <1>3, <1>9, <1>12, ValuesAreValues
<1>15. m[1] = p.pattern /\ m[2] = call.arguments[p.arg]
  BY <1>12
<1> QED
  BY <1>13, <1>14, <1>15

\* A glob without `**`, and without a class that lists a separator, lets only values of
\* its own depth through.
THEOREM KeepsLevels == Spec => []KeepsToItsLevel
<1>1. ASSUME GrantInv, NEW m \in Matched,
             \A i \in 1 .. Len(m[1]) - 1 : ~ (m[1][i] = "*" /\ m[1][i + 1] = "*"),
             \A i \in DOMAIN m[1] : m[1][i] = "[" =>
                \A j \in i + 1 .. ClassEnd(m[1], i) : m[1][j] \notin Separators(world.windows)
      PROVE  Levels(m[2]) = Levels(m[1])
  <2>1. m[1] \in Seq(STRING) /\ m[2] \in Seq(Alphabet) /\ Matches(Glob(m[1], world.windows), m[2])
    BY <1>1, MatchedAre DEF GlobMatches
  <2>2. /\ Len(m[1]) \in Nat /\ DOMAIN m[1] = 1 .. Len(m[1])
        /\ Len(m[2]) \in Nat /\ DOMAIN m[2] = 1 .. Len(m[2])
    BY <2>1
  <2>3. Cardinality(SepsUpTo(m[1], Len(m[1]), world.windows))
           = Cardinality(SepsUpTo(m[2], Len(m[2]), world.windows))
    BY <1>1, <2>1, <2>2, DepthIsKept
  <2> QED
    BY <2>2, <2>3 DEF Levels, SepsUpTo
<1>2. GrantInv => KeepsToItsLevel
  BY <1>1 DEF KeepsToItsLevel
<1> QED
  BY <1>2, GrantHolds, PTL

\* A path a glob without a `..` segment lets through leads to a place under the folder
\* that the glob names before its first wildcard.
THEOREM StaysUnderFolder == Spec => []StaysUnder
<1>1. ASSUME GrantInv, NEW m \in Matched, ~ HasDotDot(m[1])
      PROVE  /\ Len(Resolved(Folder(m[1]))) <= Len(Resolved(m[2]))
             /\ SubSeq(Resolved(m[2]), 1, Len(Resolved(Folder(m[1])))) = Resolved(Folder(m[1]))
  <2>1. /\ m[1] \in Seq(STRING) /\ m[2] \in Seq(Alphabet)
        /\ Matches(Glob(m[1], world.windows), m[2]) /\ ~ HasDotDot(m[2])
    BY <1>1, MatchedAre DEF GlobMatches
  <2> QED
    BY <2>1, MatchesStayUnder
<1>2. GrantInv => StaysUnder
  BY <1>1 DEF StaysUnder
<1> QED
  BY <1>2, GrantHolds, PTL
================================================================================
