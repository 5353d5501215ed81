----------------------------- MODULE Pod_proof -----------------------------
(***************************************************************************)
(* Three properties of the proxies of a pod, for any hosts, rules, secrets,  *)
(* thresholds and number of connections: the reload of the egress file keeps *)
(* the hot additions, a request never carries a credential older than the    *)
(* last refresh, and the detector of bursts misses none.                     *)
(***************************************************************************)
EXTENDS Pod, FiniteSetTheorems, SequenceTheorems, WellFoundedInduction, TLAPS

-----------------------------------------------------------------------------
(* The allowlist: only the reload takes hosts away.                         *)

\* The file read last is allowed.
ListInv == previousFile \subseteq allowlist

\* What a step may do to the list.
ListStep ==
    /\ \A h \in allowlist \ allowlist' : h \in previousFile \ previousFile'
    /\ previousFile' \subseteq allowlist'

\* An exchange leaves the lists and the clock; a refusal is recorded.
LEMMA ExchangeEffect ==
    ASSUME NEW x, NetExchange(x)
    PROVE  UNCHANGED <<listVars, now>> /\ (RecordDenial \/ UNCHANGED anomalyVars)
<1> DEFINE Effect == UNCHANGED <<listVars, now>> /\ (RecordDenial \/ UNCHANGED anomalyVars)
<1>1. ASSUME NEW new, Routed(x, new) PROVE Effect
  BY <1>1 DEF Routed
<1>2. ASSUME NEW kind, Deny(x, kind) PROVE Effect
  BY <1>2 DEF Deny
<1>3. ASSUME NEW new, Change(x, new) PROVE Effect
  BY <1>3 DEF Change
<1> SUFFICES Effect
  OBVIOUS
<1> HIDE DEF Effect
<1>4. CASE HandleConnection(x)
  <2>1. PICK kind, h : \/ RouteSquad(x, kind, h) \/ RouteInternal(x, kind, h)
                       \/ RouteSimulator(x, kind, h) \/ RouteOutward(x, kind, h)
                       \/ DenyOutward(x, kind, h)
    BY <1>4 DEF HandleConnection
  <2>2. (\E new : Routed(x, new)) \/ Deny(x, kind)
    BY <2>1 DEF RouteSquad, RouteInternal, RouteSimulator, RouteOutward, DenyOutward
  <2>3. QED
    BY <1>1, <1>2, <2>2
<1>5. CASE HandleTransparentTls(x) \/ HandleQuery(x)
  <2>1. (\E new : Routed(x, new)) \/ Deny(x, "tls")
    BY <1>5 DEF HandleTransparentTls, HandleQuery
  <2>2. QED
    BY <1>1, <1>2, <2>1
<1>6. CASE QueryUpstream(x)
  BY <1>6 DEF QueryUpstream, Effect
<1>7. Connect(x) \/ ConnectFails(x) \/ IngressAccepts(x) \/ IngressRefuses(x)
      \/ Answer(x) \/ HangUp(x) \/ NextRequest(x) \/ Close(x) => \E new : Change(x, new)
  BY DEF Connect, ConnectFails, IngressAccepts, IngressRefuses, Answer, HangUp,
         NextRequest, Close
<1>8. QED
  BY <1>3, <1>4, <1>5, <1>6, <1>7 DEF NetExchange

\* What a step is for net-proxy.
LEMMA NetSteps ==
    ASSUME [Next]_vars
    PROVE  \/ Background \/ RequestEgress \/ EnableSimulatorTool \/ UNCHANGED netVars
           \/ UNCHANGED <<listVars, now>> /\ (RecordDenial \/ UNCHANGED anomalyVars)
<1>1. CASE \E x \in Exchanges : Chain(x) \/ Unchain(x) \/ Alone(x)
  <2>1. PICK x \in Exchanges : Chain(x) \/ Unchain(x) \/ Alone(x)
    BY <1>1
  <2>2. NetExchange(x)
    BY <2>1 DEF Chain, Unchain, Alone, NetExchange
  <2>3. QED
    BY <2>2, ExchangeEffect
<1>2. \/ Background \/ RequestEgress \/ EnableSimulatorTool \/ UNCHANGED netVars
      \/ \E x \in Exchanges : Chain(x) \/ Unchain(x) \/ Alone(x)
  BY DEF Next, Proxies, OfCampaign, Injecting, vars
<1>3. QED
  BY <1>1, <1>2

\* A reload keeps the hot additions, and an addition keeps the file.
LEMMA ListKept ==
    ASSUME ListInv, [Next]_vars
    PROVE  ListStep
<1>1. CASE UNCHANGED <<allowlist, previousFile>>
  BY <1>1 DEF ListInv, ListStep
<1>2. CASE ReloadAllowlist
  BY <1>2 DEF ReloadAllowlist, MergeReload, ListInv, ListStep
<1>3. CASE RequestEgress
  BY <1>3 DEF RequestEgress, AddHost, ListInv, ListStep
<1>4. CASE Background
  BY <1>1, <1>2, <1>4 DEF Background, Tick, EditFile, RestoreFile, LockdownAnswered, listVars
<1>5. CASE UNCHANGED netVars
  BY <1>1, <1>5 DEF netVars, listVars
<1>6. CASE EnableSimulatorTool
  BY <1>1, <1>6 DEF EnableSimulatorTool, EnableSimulator
<1>7. CASE UNCHANGED listVars
  BY <1>1, <1>7 DEF listVars
<1>8. QED
  BY <1>3, <1>4, <1>5, <1>6, <1>7, NetSteps

\* merge_reload, request_egress: a host leaves the list only with the file
\* that named it, and the file read last is always allowed.
THEOREM ReloadKeepsAdditions == Spec => ListFollowsFile
<1>1. Init => ListInv
  BY DEF Init, NetInit, ListInv
<1>2. ListInv /\ [Next]_vars => ListInv'
  BY ListKept DEF ListStep, ListInv
<1>3. ListInv /\ [Next]_vars => [ListStep]_vars
  BY ListKept
<1>4. Spec => [][ListStep]_vars
  BY <1>1, <1>2, <1>3, PTL DEF Spec
<1>5. QED
  BY <1>4 DEF ListFollowsFile, ListStep

-----------------------------------------------------------------------------
(* The credentials.  A value read during a refresh is at least as recent as  *)
(* what OpenBao held when it began, so the cache it leaves is, too.          *)

\* What is in the cache, and what the refresh in progress has read, lies
\* between the floor of its refresh and the value OpenBao holds.
CacheInv ==
    /\ rulesFile \in RuleSets /\ rules \in RuleSets
    /\ vault \in [Secrets -> Nat] /\ cache \in [Secrets -> Nat]
    /\ values \in [Secrets -> Nat] /\ before \in [Secrets -> Nat]
    /\ floor \in [Secrets -> Nat]
    /\ \A s \in Secrets :
        /\ cache[s] # NotInjected => floor[s] <= cache[s] /\ cache[s] <= vault[s]
        /\ values[s] # NotInjected => /\ loop = "reading"
                                      /\ before[s] <= values[s] /\ values[s] <= vault[s]
        /\ loop = "reading" => /\ before[s] <= vault[s] + 1
                               /\ s \notin gone => before[s] <= vault[s]

\* A connection has no rule, or one that matches its host.
Linked(l) ==
    /\ l \in [stage : {"none", "dial", "answer", "idle", "blind"}, host : {l.host},
              rule : {l.rule}, used : Nat, far : {"none", "open", "closed"}, count : Nat]
    /\ l.rule # <<>> => l.rule[1].secret \in Secrets /\ l.host \in l.rule[1].hosts

LinkInv ==
    /\ link = [x \in Links |-> link[x]]
    /\ \A x \in Links : Linked(link[x])

\* What a step may do to a connection.
LinkStep ==
    \A x \in Links :
        LET l == link'[x]
        IN  l.count > link[x].count /\ l.used # NotInjected =>
                /\ l.host \in l.rule[1].hosts
                /\ l.used \in floor[l.rule[1].secret]..vault[l.rule[1].secret]

\* A set of numbers that is not empty has a least element.
LEMMA Least ==
    ASSUME NEW T, T \subseteq Nat, T # {}
    PROVE  \E i \in T : \A j \in T : i <= j
<1> DEFINE Less == OpToRel(<, Nat)
<1>1. IsWellFoundedOn(Less, Nat)
  BY NatLessThanWellFounded
<1>2. \A i, j \in Nat : i < j => <<i, j>> \in Less
  BY DEF OpToRel
<1> HIDE DEF Less
<1>3. PICK i \in T : \A j \in T : ~(<<j, i>> \in Less)
  BY <1>1, WFMin
<1>4. ASSUME NEW j \in T PROVE i <= j
  <2>1. i \in Nat /\ j \in Nat
    OBVIOUS
  <2>2. ~(j < i)
    BY <1>2, <1>3, <2>1
  <2>3. QED
    BY <2>1, <2>2
<1>5. QED
  BY <1>4

\* The rule found for a host is a rule for that host.
LEMMA MatchingRule ==
    ASSUME rules \in RuleSets, NEW host, Matching(host) # <<>>
    PROVE  Matching(host)[1].secret \in Secrets /\ host \in Matching(host)[1].hosts
<1> DEFINE hits == {i \in 1..Len(rules) : host \in rules[i].hosts}
           first == CHOOSE i \in hits : \A j \in hits : i <= j
<1>1. Len(rules) \in Nat /\ \A i \in 1..Len(rules) : rules[i].secret \in Secrets
  BY RulesAssumption
<1>2. hits # {} /\ Matching(host) = <<rules[first]>>
  BY DEF Matching
<1>3. hits \subseteq Nat
  BY <1>1
<1>4. \E i \in hits : \A j \in hits : i <= j
  BY <1>2, <1>3, Least
<1>5. first \in hits
  BY <1>4
<1>6. rules[first].secret \in Secrets /\ host \in rules[first].hosts
  BY <1>1, <1>5
<1> HIDE DEF first
<1>7. QED
  BY <1>2, <1>6

\* The refresh and OpenBao keep the cache between the floor and the value.
LEMMA CacheStep ==
    ASSUME CacheInv, IdBackground
    PROVE  CacheInv' /\ UNCHANGED link
<1>1. UNCHANGED link
  BY DEF IdBackground, EditRules, RestoreRules, WriteSecret, DeleteSecret, RefreshStep,
         ReloadRules, Login, ReadSecret, StoreCache, LoginFails
<1> SUFFICES CacheInv'
  BY <1>1
<1>2. CASE EditRules \/ RestoreRules
  BY <1>2 DEF EditRules, RestoreRules, CacheInv, loopVars
<1>3. ASSUME NEW s \in Secrets, WriteSecret(s) PROVE CacheInv'
  <2>1. /\ vault' = [vault EXCEPT ![s] = @ + 1] /\ gone' = gone \ {s}
        /\ UNCHANGED <<rulesFile, rules, cache, loop, values, before, floor>>
    BY <1>3 DEF WriteSecret, loopVars
  <2>2. QED
    BY <2>1 DEF CacheInv, NotInjected
<1>4. ASSUME NEW s \in Secrets, DeleteSecret(s) PROVE CacheInv'
  BY <1>4 DEF DeleteSecret, CacheInv, loopVars
<1>5. CASE ReloadRules
  BY <1>5 DEF ReloadRules, Load, CacheInv, ruleVars
<1>6. CASE Login
  <2>1. /\ loop = "login" /\ loop' = "reading" /\ before' = Oldest
        /\ UNCHANGED <<rulesFile, vault, gone, rules, cache, values, floor>>
    BY <1>6 DEF Login, ruleVars
  <2>2. QED
    BY <2>1 DEF CacheInv, Oldest
<1>7. CASE ReadSecret
  <2> DEFINE t == rules[next].secret
  <2>1. /\ loop = "reading"
        /\ UNCHANGED <<rulesFile, vault, gone, rules, cache, loop, before, floor>>
    BY <1>7 DEF ReadSecret
  <2>2. CASE UNCHANGED values
    BY <2>1, <2>2 DEF CacheInv
  <2>3. CASE t \notin gone /\ values' = [values EXCEPT ![t] = vault[t]]
    <3> HIDE DEF t
    <3>1. values' \in [Secrets -> Nat]
      BY <2>3 DEF CacheInv
    <3>2. ASSUME NEW s \in Secrets, values'[s] # NotInjected
          PROVE  before[s] <= values'[s] /\ values'[s] <= vault[s]
      <4>1. CASE s = t
        BY <2>1, <2>3, <4>1 DEF CacheInv
      <4>2. CASE s # t
        BY <2>3, <3>2, <4>2 DEF CacheInv
      <4>3. QED
        BY <4>1, <4>2
    <3>3. QED
      BY <2>1, <3>1, <3>2 DEF CacheInv
  <2>4. QED
    BY <1>7, <2>2, <2>3 DEF ReadSecret
<1>8. CASE StoreCache
  <2>1. /\ cache' = values /\ floor' = before /\ loop' = "asleep"
        /\ values' = Nothing /\ before' = Nothing
        /\ UNCHANGED <<rulesFile, vault, gone, rules>>
    BY <1>8 DEF StoreCache, Refreshed, ruleVars
  <2>2. QED
    BY <2>1 DEF CacheInv, Nothing, NotInjected
<1>9. CASE LoginFails
  BY <1>9 DEF LoginFails, CacheInv
<1>10. QED
  BY <1>2, <1>3, <1>4, <1>5, <1>6, <1>7, <1>8, <1>9 DEF IdBackground, RefreshStep

\* A request of a connection: what it carries comes from the cache.
LEMMA RequestLink ==
    ASSUME CacheInv, NEW l, Linked(l), NEW c \in Nat, NEW m,
           m = [l EXCEPT !.stage = "answer", !.far = "open", !.used = Credential(l), !.count = c]
    PROVE  /\ Linked(m)
           /\ m.used # NotInjected =>
                /\ m.host \in m.rule[1].hosts
                /\ m.used \in floor[m.rule[1].secret]..vault[m.rule[1].secret]
<1> DEFINE u == Credential(l)
<1>1. u \in Nat
  BY DEF Credential, NotInjected, CacheInv, Linked
<1>2. u # NotInjected => /\ l.rule # <<>>
                         /\ u \in floor[l.rule[1].secret]..vault[l.rule[1].secret]
  BY DEF Credential, CacheInv, Linked, NotInjected
<1>3. m = [l EXCEPT !.stage = "answer", !.far = "open", !.used = u, !.count = c]
  OBVIOUS
<1> HIDE DEF u
<1>4. m.host = l.host /\ m.rule = l.rule /\ m.used = u
  BY <1>3 DEF Linked
<1>5. m \in [stage : {"none", "dial", "answer", "idle", "blind"}, host : {l.host},
             rule : {l.rule}, used : Nat, far : {"none", "open", "closed"}, count : Nat]
  BY <1>1, <1>3 DEF Linked
<1>6. Linked(m)
  BY <1>4, <1>5 DEF Linked
<1>7. QED
  BY <1>2, <1>4, <1>6 DEF Linked

\* A step that sends nothing: the count stays, or the connection is forgotten.
LEMMA IdleLink ==
    ASSUME NEW l, Linked(l), NEW m,
           \/ \E st \in {"idle", "blind"} : m = [l EXCEPT !.stage = st]
           \/ m = [l EXCEPT !.far = "closed"]
    PROVE  Linked(m) /\ m.count = l.count
<1>1. /\ m.host = l.host /\ m.rule = l.rule /\ m.count = l.count
      /\ m \in [stage : {"none", "dial", "answer", "idle", "blind"}, host : {l.host},
                rule : {l.rule}, used : Nat, far : {"none", "open", "closed"}, count : Nat]
  BY DEF Linked
<1>2. QED
  BY <1>1 DEF Linked

\* A connection that opens is well formed and has sent nothing.
LEMMA NewLink ==
    /\ Linked(NoLink) /\ NoLink.count = 0
    /\ rules \in RuleSets =>
        \A host : LET m == [NoLink EXCEPT !.stage = "dial", !.host = host,
                                          !.rule = Matching(host)]
                  IN  Linked(m) /\ m.count = 0
<1>1. Linked(NoLink) /\ NoLink.count = 0
  BY DEF Linked, NoLink, NotInjected
<1>2. ASSUME rules \in RuleSets, NEW host, NEW m,
             m = [NoLink EXCEPT !.stage = "dial", !.host = host, !.rule = Matching(host)]
      PROVE  Linked(m) /\ m.count = 0
  <2> DEFINE r == Matching(host)
  <2>1. r # <<>> => r[1].secret \in Secrets /\ host \in r[1].hosts
    BY <1>2, MatchingRule
  <2>2. m = [NoLink EXCEPT !.stage = "dial", !.host = host, !.rule = r]
    BY <1>2
  <2> HIDE DEF r
  <2>3. m = [stage |-> "dial", host |-> host, rule |-> r, used |-> 0,
             far |-> "none", count |-> 0]
    BY <2>2 DEF NoLink, NotInjected
  <2>4. QED
    BY <2>1, <2>3 DEF Linked
<1>3. QED
  BY <1>1, <1>2

\* One connection changes, and it sends what it may.
LEMMA LinkChanges ==
    ASSUME LinkInv, CacheInv, NEW x, NEW m, link' = [link EXCEPT ![x] = m],
           x \in Links =>
             /\ Linked(m)
             /\ m.count > link[x].count /\ m.used # NotInjected =>
                    /\ m.host \in m.rule[1].hosts
                    /\ m.used \in floor[m.rule[1].secret]..vault[m.rule[1].secret]
    PROVE  LinkInv' /\ LinkStep
<1>1. \A y \in Links : link'[y] = IF y = x THEN m ELSE link[y]
  BY DEF LinkInv
<1>2. link' = [y \in Links |-> link'[y]]
  BY DEF LinkInv
<1>3. LinkInv'
  BY <1>1, <1>2 DEF LinkInv
<1>4. ASSUME NEW y \in Links, y # x PROVE ~(link'[y].count > link[y].count)
  <2>1. link'[y] = link[y] /\ link[y].count \in Nat
    BY <1>1, <1>4 DEF LinkInv, Linked
  <2>2. QED
    BY <2>1
<1>5. LinkStep
  BY <1>1, <1>4 DEF LinkStep
<1>6. QED
  BY <1>3, <1>5

\* A connection that is served takes its credential from the cache.
LEMMA ServeStep ==
    ASSUME LinkInv, CacheInv, NEW x, IdServe(x)
    PROVE  LinkInv' /\ LinkStep /\ UNCHANGED <<ruleVars, loopVars>>
<1>1. PICK m : /\ SetLink(x, m)
               /\ \/ m = NoLink
                  \/ \E st \in {"idle", "blind"} : m = [link[x] EXCEPT !.stage = st]
                  \/ m = [link[x] EXCEPT !.far = "closed"]
                  \/ m = [link[x] EXCEPT !.stage = "answer", !.far = "open",
                                         !.used = Credential(link[x]), !.count = 1]
                  \/ m = [link[x] EXCEPT !.stage = "answer", !.far = "open",
                                         !.used = Credential(link[x]), !.count = @ + 1]
  <2>1. CASE IdConnect(x)
    BY <2>1 DEF IdConnect
  <2>2. CASE IdAnswer(x)
    BY <2>2 DEF IdAnswer
  <2>3. CASE IdHangUp(x)
    BY <2>3 DEF IdHangUp
  <2>4. CASE IdNextRequest(x)
    BY <2>4 DEF IdNextRequest
  <2>5. QED
    BY <2>1, <2>2, <2>3, <2>4 DEF IdServe
<1>2. link' = [link EXCEPT ![x] = m] /\ UNCHANGED <<ruleVars, loopVars>>
  BY <1>1 DEF SetLink
<1>3. ASSUME x \in Links
      PROVE  /\ Linked(m)
             /\ m.count > link[x].count /\ m.used # NotInjected =>
                    /\ m.host \in m.rule[1].hosts
                    /\ m.used \in floor[m.rule[1].secret]..vault[m.rule[1].secret]
  <2>1. Linked(link[x]) /\ link[x].count \in Nat /\ link[x].count + 1 \in Nat
    BY <1>3 DEF LinkInv, Linked
  <2>2. CASE m = NoLink
    <3>1. Linked(m) /\ m.count = 0
      BY <2>2, NewLink
    <3>2. QED
      BY <2>1, <3>1
  <2>3. CASE \/ \E st \in {"idle", "blind"} : m = [link[x] EXCEPT !.stage = st]
             \/ m = [link[x] EXCEPT !.far = "closed"]
    <3>1. Linked(m) /\ m.count = link[x].count
      BY <2>1, <2>3, IdleLink
    <3>2. QED
      BY <2>1, <3>1
  <2>4. CASE m = [link[x] EXCEPT !.stage = "answer", !.far = "open",
                                 !.used = Credential(link[x]), !.count = 1]
    BY <2>1, <2>4, RequestLink
  <2>5. CASE m = [link[x] EXCEPT !.stage = "answer", !.far = "open",
                                 !.used = Credential(link[x]), !.count = link[x].count + 1]
    BY <2>1, <2>5, RequestLink
  <2>6. QED
    BY <1>1, <2>2, <2>3, <2>4, <2>5
<1>4. LinkInv' /\ LinkStep
  BY <1>2, <1>3, LinkChanges
<1>5. QED
  BY <1>2, <1>4

\* Connections passed on by net-proxy open and close without a request.
LEMMA ChainStep ==
    ASSUME LinkInv, CacheInv, NEW x, Chain(x) \/ Unchain(x)
    PROVE  LinkInv' /\ LinkStep /\ UNCHANGED <<ruleVars, loopVars>>
<1>1. UNCHANGED <<ruleVars, loopVars>>
  BY DEF Chain, Unchain
<1>2. PICK m : link' = [link EXCEPT ![x] = m] /\ Linked(m) /\ m.count = 0
  <2>1. CASE Chain(x)
    <3> DEFINE m == [NoLink EXCEPT !.stage = "dial", !.host = ex[x].host,
                                   !.rule = Matching(ex[x].host)]
    <3>1. link' = [link EXCEPT ![x] = m]
      BY <2>1 DEF Chain, Serve
    <3>2. Linked(m) /\ m.count = 0
      BY NewLink DEF CacheInv
    <3> HIDE DEF m
    <3>3. QED
      BY <3>1, <3>2
  <2>2. CASE Unchain(x)
    BY <2>2, NewLink DEF Unchain, Drop
  <2>3. QED
    BY <2>1, <2>2
<1>3. x \in Links => ~(m.count > link[x].count)
  <2>1. x \in Links => link[x].count \in Nat
    BY DEF LinkInv, Linked
  <2>2. QED
    BY <1>2, <2>1
<1>4. LinkInv' /\ LinkStep
  BY <1>2, <1>3, LinkChanges
<1>5. QED
  BY <1>1, <1>4

\* Nothing is injected on connections that do not move.
LEMMA LinkStands ==
    ASSUME LinkInv, UNCHANGED link
    PROVE  LinkInv' /\ LinkStep
<1>1. LinkInv'
  BY DEF LinkInv
<1>2. \A x \in Links : ~(link'[x].count > link[x].count)
  <2>1. \A x \in Links : link[x].count \in Nat
    BY DEF LinkInv, Linked
  <2>2. QED
    BY <2>1
<1>3. QED
  BY <1>1, <1>2 DEF LinkStep

\* Every step keeps the invariants and injects only current credentials.
LEMMA CredentialStep ==
    ASSUME LinkInv, CacheInv, [Next]_vars
    PROVE  LinkInv' /\ CacheInv' /\ LinkStep
<1>1. ASSUME UNCHANGED <<ruleVars, loopVars>> PROVE CacheInv'
  BY <1>1 DEF CacheInv, ruleVars, loopVars
<1>2. CASE UNCHANGED idVars
  BY <1>1, <1>2, LinkStands DEF idVars
<1>3. CASE IdBackground
  BY <1>3, CacheStep, LinkStands
<1>4. CASE \E x \in Exchanges : Chain(x) \/ Unchain(x)
  BY <1>1, <1>4, ChainStep
<1>5. CASE \E x \in Exchanges : Injecting(x)
  BY <1>1, <1>5, ServeStep DEF Injecting
<1>6. \/ UNCHANGED idVars \/ IdBackground
      \/ \E x \in Exchanges : Chain(x) \/ Unchain(x)
      \/ \E x \in Exchanges : Injecting(x)
  BY DEF Next, Proxies, OfCampaign, RequestEgress, EnableSimulatorTool, Alone, vars
<1>7. QED
  BY <1>2, <1>3, <1>4, <1>5, <1>6

\* inject_credential, refresh_once: a request that carries a credential carries
\* one of a rule for its host, never older than the last complete refresh and
\* never one OpenBao did not hold, for any rules and any number of connections.
THEOREM CredentialIsCurrent == Spec => InjectsCurrentCredential
<1>1. Init => LinkInv /\ CacheInv
  <2> SUFFICES ASSUME Init PROVE LinkInv /\ CacheInv
    OBVIOUS
  <2>1. LinkInv
    <3>1. link = [x \in Links |-> NoLink]
      BY DEF Init, IdInit
    <3>2. QED
      BY <3>1, NewLink DEF LinkInv
  <2>2. CacheInv
    BY DEF Init, IdInit, CacheInv, Nothing, NotInjected
  <2>3. QED
    BY <2>1, <2>2
<1>2. LinkInv /\ CacheInv /\ [Next]_vars => LinkInv' /\ CacheInv'
  BY CredentialStep
<1>3. LinkInv /\ CacheInv /\ [Next]_vars => [LinkStep]_vars
  BY CredentialStep
<1>4. Spec => [][LinkStep]_vars
  BY <1>1, <1>2, <1>3, PTL DEF Spec
<1>5. QED
  BY <1>4 DEF InjectsCurrentCredential, LinkStep

-----------------------------------------------------------------------------
(* The detector.  It forgets refusals from the front, and only those that    *)
(* have left the window for good: what it counts is what is in the window.   *)

\* Refusals the detector no longer has.
Forgotten == Len(allDenials) - Len(denials)

DetectorInv ==
    /\ now \in Nat /\ denials \in Seq(Nat) /\ allDenials \in Seq(Nat)
    /\ \A j \in 1..Len(allDenials) : allDenials[j] <= now
    /\ \A j \in 1..Len(allDenials) : \A i \in 1..j : allDenials[i] <= allDenials[j]
    /\ Forgotten \in Nat
    /\ \A i \in 1..Len(denials) : denials[i] = allDenials[Forgotten + i]
    /\ \A i \in 1..Forgotten : now - allDenials[i] > Window

Burst(all, j) == Cardinality({i \in 1..j : all[j] - all[i] <= Window}) >= Threshold

TriggerInv ==
    /\ triggered \in BOOLEAN
    /\ triggered <=> \E j \in 1..Len(allDenials) : Burst(allDenials, j)
    /\ triggered <=> lockdown # "none"

\* Where the popping stops.
LEMMA Front ==
    ASSUME DetectorInv
    PROVE  \E first \in 1..Len(denials) + 1 :
            /\ Recent(now) = SubSeq(denials, first, Len(denials))
            /\ first <= Len(denials) => now - denials[first] <= Window
            /\ \A j \in 1..first - 1 : now - denials[j] > Window
<1> DEFINE Fresh(i) == i > Len(denials) \/ now - denials[i] <= Window
           Stops(i) == Fresh(i) /\ \A j \in 1..i - 1 : ~Fresh(j)
           fresh == {i \in 1..Len(denials) + 1 : Fresh(i)}
           first == CHOOSE i \in 1..Len(denials) + 1 : Stops(i)
<1>1. Len(denials) \in Nat /\ now \in Nat /\ \A i \in 1..Len(denials) : denials[i] \in Nat
  BY DEF DetectorInv
<1>2. Window \in Nat
  BY NetProxyAssumption
<1>3. Len(denials) + 1 \in fresh /\ fresh \subseteq Nat
  BY <1>1
<1> HIDE DEF fresh
<1>4. PICK i \in fresh : \A j \in fresh : i <= j
  BY <1>3, Least
<1>5. i \in 1..Len(denials) + 1 /\ Fresh(i)
  BY <1>4 DEF fresh
<1>6. ASSUME NEW j \in 1..i - 1 PROVE ~Fresh(j)
  <2>1. j \in 1..Len(denials) + 1 /\ ~(i <= j)
    BY <1>1, <1>5
  <2>2. j \notin fresh
    BY <1>4, <2>1
  <2>3. QED
    BY <2>1, <2>2 DEF fresh
<1>7. Stops(i)
  BY <1>5, <1>6
<1> HIDE DEF Stops
<1>8. first \in 1..Len(denials) + 1 /\ Stops(first)
  BY <1>5, <1>7, Zenon
<1>9. Recent(now) = SubSeq(denials, first, Len(denials))
  BY DEF Recent, Stops
<1> HIDE DEF first
<1>10. first <= Len(denials) => now - denials[first] <= Window
  BY <1>1, <1>8 DEF Stops
<1>11. \A j \in 1..first - 1 : now - denials[j] > Window
  BY <1>1, <1>2, <1>8 DEF Stops
<1>12. QED
  BY <1>8, <1>9, <1>10, <1>11

\* At t the detector has the last n of k + n refusals; it pops the front up
\* to `first`, and pushes t.
Slides(t, n, k, first, had, all, kept, ever) ==
    /\ \A i \in 1..k + n : all[i] \in Nat /\ ever[i] = all[i]
    /\ \A j \in 1..k + n : \A i \in 1..j : all[i] <= all[j]
    /\ \A i \in 1..n : had[i] = all[k + i]
    /\ \A i \in 1..k : t - all[i] > Window
    /\ first <= n => t - had[first] <= Window
    /\ \A j \in 1..first - 1 : t - had[j] > Window
    /\ \A i \in 1..n - first + 1 : kept[i] = had[first + i - 1]
    /\ kept[n - first + 2] = t /\ ever[k + n + 1] = t

\* What is kept once the front is popped is the end of the history, and
\* what was popped is out of the window.
LEMMA Slid ==
    ASSUME NEW t \in Nat, NEW n \in Nat, NEW k \in Nat, NEW first \in 1..n + 1,
           NEW had, NEW all, NEW kept, NEW ever,
           Slides(t, n, k, first, had, all, kept, ever)
    PROVE  /\ \A i \in 1..n - first + 2 : /\ kept[i] = ever[k + first - 1 + i]
                                          /\ t - kept[i] <= Window
           /\ \A i \in 1..k + first - 1 : t - ever[i] > Window
<1>0. Window \in Nat
  BY NetProxyAssumption
<1>1. ASSUME NEW i \in 1..n
      PROVE  /\ k + i \in 1..k + n /\ had[i] = ever[k + i]
             /\ had[i] = all[k + i] /\ had[i] \in Nat
  <2>1. k + i \in 1..k + n
    OBVIOUS
  <2>2. QED
    BY <2>1 DEF Slides
<1>2. ASSUME NEW i \in 1..n, first <= i PROVE t - had[i] <= Window
  <2>1. first \in 1..n /\ k + first \in 1..k + i
    BY <1>2
  <2>2. all[k + first] <= all[k + i]
    BY <1>1, <2>1 DEF Slides
  <2>3. had[first] <= had[i] /\ had[first] \in Nat /\ had[i] \in Nat
    BY <1>1, <2>1, <2>2
  <2>4. t - had[first] <= Window
    BY <2>1 DEF Slides
  <2>5. QED
    BY <1>0, <2>3, <2>4
<1>3. ASSUME NEW i \in 1..n - first + 2
      PROVE  kept[i] = ever[k + first - 1 + i] /\ t - kept[i] <= Window
  <2>1. CASE i = n - first + 2
    <3>1. k + first - 1 + i = k + n + 1
      BY <2>1
    <3>2. QED
      BY <1>0, <2>1, <3>1 DEF Slides
  <2>2. CASE i \in 1..n - first + 1
    <3> DEFINE j == first + i - 1
    <3>1. j \in 1..n /\ first <= j /\ k + j = k + first - 1 + i
      BY <2>2
    <3>2. kept[i] = had[j]
      BY <2>2 DEF Slides
    <3> HIDE DEF j
    <3>3. QED
      BY <1>1, <1>2, <3>1, <3>2
  <2>3. QED
    BY <2>1, <2>2
<1>4. ASSUME NEW i \in 1..k + first - 1 PROVE t - ever[i] > Window
  <2>1. CASE i \in 1..k
    <3>1. i \in 1..k + n
      BY <2>1
    <3>2. QED
      BY <2>1, <3>1 DEF Slides
  <2>2. CASE i \notin 1..k
    <3> DEFINE j == i - k
    <3>1. j \in 1..first - 1 /\ j \in 1..n /\ k + j = i
      BY <2>2
    <3> HIDE DEF j
    <3>2. t - had[j] > Window
      BY <3>1 DEF Slides
    <3>3. QED
      BY <1>1, <3>1, <3>2
  <2>3. QED
    BY <2>1, <2>2
<1>5. QED
  BY <1>3, <1>4

\* What record_denial keeps: the refusals in the window, and the new one.
LEMMA Counted ==
    ASSUME DetectorInv, RecordDenial
    PROVE  /\ denials' \in Seq(Nat) /\ allDenials' \in Seq(Nat)
           /\ Len(allDenials') = Len(allDenials) + 1
           /\ allDenials'[Len(allDenials) + 1] = now
           /\ \A i \in 1..Len(allDenials) : allDenials'[i] = allDenials[i]
           /\ Forgotten' \in Nat
           /\ \A i \in 1..Len(denials') : /\ denials'[i] = allDenials'[Forgotten' + i]
                                          /\ now - denials'[i] <= Window
           /\ \A i \in 1..Forgotten' : now - allDenials'[i] > Window
<1> DEFINE n == Len(denials)  k == Forgotten
<1>1. PICK first \in 1..n + 1 :
        /\ Recent(now) = SubSeq(denials, first, n)
        /\ first <= n => now - denials[first] <= Window
        /\ \A j \in 1..first - 1 : now - denials[j] > Window
  BY Front
<1>2. /\ denials \in Seq(Nat) /\ allDenials \in Seq(Nat)
      /\ \A i \in 1..n : denials[i] = allDenials[k + i]
      /\ \A i \in 1..k : now - allDenials[i] > Window
      /\ \A j \in 1..Len(allDenials) : \A i \in 1..j : allDenials[i] <= allDenials[j]
  BY DEF DetectorInv
<1>3. now \in Nat /\ n \in Nat /\ k \in Nat /\ Len(allDenials) = k + n
  BY <1>2 DEF DetectorInv, Forgotten
<1>4. \A i \in 1..n : denials[i] \in Nat
  BY <1>2
<1> DEFINE recent == SubSeq(denials, first, n)
<1>5. /\ recent \in Seq(Nat) /\ Len(recent) = n - first + 1
      /\ \A i \in 1..n - first + 1 : recent[i] = denials[first + i - 1]
  <2>1. \A i \in first..n : denials[i] \in Nat
    BY <1>3, <1>4
  <2>2. first \in Int /\ n \in Int
    BY <1>3
  <2>3. /\ recent \in Seq(Nat) /\ Len(recent) = IF first <= n THEN n - first + 1 ELSE 0
        /\ \A i \in 1..n - first + 1 : recent[i] = denials[first + i - 1]
    BY <2>1, <2>2, SubSeqProperties
  <2> HIDE DEF recent, n
  <2>4. QED
    BY <1>3, <2>3
<1>6. denials' = Append(recent, now) /\ allDenials' = Append(allDenials, now)
  BY <1>1 DEF RecordDenial
<1> HIDE DEF recent, n
<1>7. /\ denials' \in Seq(Nat) /\ Len(denials') = n - first + 2
      /\ denials'[n - first + 2] = now
      /\ \A i \in 1..n - first + 1 : denials'[i] = denials[first + i - 1]
  <2>1. /\ denials' \in Seq(Nat) /\ Len(denials') = Len(recent) + 1
        /\ denials'[Len(recent) + 1] = now
        /\ \A i \in 1..Len(recent) : denials'[i] = recent[i]
    <3>1. recent \in Seq(Nat) /\ now \in Nat
      BY <1>3, <1>5
    <3>2. QED
      BY <1>6, <3>1, AppendProperties
  <2>2. Len(recent) + 1 = n - first + 2
    <3>1. Len(recent) = n - first + 1 /\ n - first + 1 + 1 = n - first + 2
      BY <1>3, <1>5
    <3>2. QED
      BY <3>1
  <2>3. \A i \in 1..n - first + 1 : denials'[i] = denials[first + i - 1]
    BY <1>5, <2>1, Zenon
  <2>4. QED
    BY <2>1, <2>2, <2>3, Zenon
<1>8. /\ allDenials' \in Seq(Nat) /\ Len(allDenials') = Len(allDenials) + 1
      /\ allDenials'[Len(allDenials) + 1] = now
      /\ \A i \in 1..Len(allDenials) : allDenials'[i] = allDenials[i]
  <2>1. allDenials \in Seq(Nat) /\ now \in Nat
    BY <1>2, <1>3
  <2>2. QED
    BY <1>6, <2>1, AppendProperties
<1>9. Forgotten' = k + first - 1 /\ k + first - 1 \in Nat
  <2>1. Len(denials') = n - first + 2 /\ Len(allDenials') = k + n + 1
    BY <1>3, <1>7, <1>8
  <2>2. Forgotten' = Len(allDenials') - Len(denials')
    BY DEF Forgotten
  <2>3. (k + n + 1) - (n - first + 2) = k + first - 1 /\ k + first - 1 \in Nat
    BY <1>3
  <2>4. QED
    BY <2>1, <2>2, <2>3
<1>10. \A i \in 1..k + n : allDenials[i] \in Nat
  BY <1>2, <1>3
<1> HIDE DEF k
<1>11. Slides(now, n, k, first, denials, allDenials, denials', allDenials')
  BY <1>1, <1>2, <1>3, <1>7, <1>8, <1>10, Zenon DEF Slides
<1>12. /\ \A i \in 1..n - first + 2 : /\ denials'[i] = allDenials'[k + first - 1 + i]
                                      /\ now - denials'[i] <= Window
       /\ \A i \in 1..k + first - 1 : now - allDenials'[i] > Window
  BY <1>3, <1>11, Slid
<1>13. QED
  BY <1>7, <1>8, <1>9, <1>12

\* The size of an interval of refusals.
LEMMA IntervalSize ==
    ASSUME NEW f \in Nat, NEW m \in Nat, f <= m
    PROVE  Cardinality(f + 1..m) = m - f
<1> DEFINE a == f + 1
<1>1. a \in Int /\ m \in Int /\ (IF a > m THEN 0 ELSE m - a + 1) = m - f
  OBVIOUS
<1> HIDE DEF a
<1>2. Cardinality(a..m) = m - f
  BY <1>1, FS_Interval
<1>3. QED
  BY <1>2 DEF a

\* The refusals in the window of the newest are those the detector has.
LEMMA WindowCounted ==
    ASSUME NEW m \in Nat, NEW f \in Nat, NEW all, f <= m,
           \A i \in 1..f : all[m] - all[i] > Window,
           \A i \in f + 1..m : all[m] - all[i] <= Window,
           \A i \in 1..m : all[i] \in Nat
    PROVE  Cardinality({i \in 1..m : all[m] - all[i] <= Window}) = m - f
<1> DEFINE inside == {i \in 1..m : all[m] - all[i] <= Window}
<1>0. Window \in Nat
  BY NetProxyAssumption
<1>1. inside = f + 1..m
  <2>1. \A i \in 1..f : ~(all[m] - all[i] <= Window)
    <3> SUFFICES ASSUME NEW i \in 1..f PROVE ~(all[m] - all[i] <= Window)
      OBVIOUS
    <3>1. m \in 1..m /\ i \in 1..m
      OBVIOUS
    <3>2. all[m] - all[i] \in Int
      BY <3>1
    <3>3. QED
      BY <1>0, <3>2
  <2>2. \A i \in 1..m : i \in 1..f \/ i \in f + 1..m
    OBVIOUS
  <2>3. \A i \in f + 1..m : i \in 1..m
    OBVIOUS
  <2>4. QED
    BY <2>1, <2>2, <2>3, Zenon
<1>2. Cardinality(f + 1..m) = m - f
  BY IntervalSize
<1>3. QED
  BY <1>1, <1>2, Zenon

\* A refusal fires exactly when what the queue keeps is a burst.
LEMMA DenialKeeps ==
    ASSUME DetectorInv, TriggerInv, RecordDenial, UNCHANGED now
    PROVE  DetectorInv' /\ TriggerInv'
<1> DEFINE m == Len(allDenials)  all == allDenials'  f == Forgotten'
<1>1. /\ denials' \in Seq(Nat) /\ all \in Seq(Nat) /\ Len(all) = m + 1 /\ all[m + 1] = now
      /\ \A i \in 1..m : all[i] = allDenials[i]
      /\ f \in Nat
      /\ \A i \in 1..Len(denials') : /\ denials'[i] = all[f + i]
                                     /\ now - denials'[i] <= Window
      /\ \A i \in 1..f : now - all[i] > Window
  BY Counted
<1>2. f = m + 1 - Len(denials') /\ m \in Nat /\ Len(denials') \in Nat
  BY <1>1 DEF Forgotten, DetectorInv
<1>3. /\ now \in Nat /\ allDenials \in Seq(Nat)
      /\ \A j \in 1..m : allDenials[j] <= now
      /\ \A j \in 1..m : \A i \in 1..j : allDenials[i] <= allDenials[j]
  BY DEF DetectorInv
<1>4. \A i \in 1..m + 1 : all[i] \in Nat
  BY <1>1
<1> HIDE DEF m, all, f
<1>5. \A j \in 1..m + 1 : all[j] <= now
  <2> SUFFICES ASSUME NEW j \in 1..m + 1 PROVE all[j] <= now
    OBVIOUS
  <2>1. CASE j = m + 1
    <3>1. all[j] = now
      BY <1>1, <2>1, Zenon
    <3>2. QED
      BY <1>3, <3>1
  <2>2. CASE j \in 1..m
    BY <1>1, <1>3, <2>2, Zenon
  <2>3. QED
    BY <1>2, <2>1, <2>2
<1>6. ASSUME NEW j \in 1..m + 1, NEW i \in 1..j PROVE all[i] <= all[j]
  <2>1. CASE j = m + 1
    BY <1>1, <1>5, <2>1
  <2>2. CASE j \in 1..m
    <3>1. i \in 1..m
      BY <1>2, <2>2
    <3>2. QED
      BY <1>1, <1>3, <2>2, <3>1
  <2>3. QED
    BY <1>2, <2>1, <2>2
<1>7. DetectorInv'
  BY <1>1, <1>3, <1>5, <1>6, Zenon DEF DetectorInv, all, f
<1>8. Burst(all, m + 1) <=> Len(denials') >= Threshold
  <2>1. \A i \in 1..f : all[m + 1] - all[i] > Window
    BY <1>1
  <2>2. ASSUME NEW i \in f + 1..m + 1 PROVE all[m + 1] - all[i] <= Window
    <3> DEFINE h == i - f
    <3>1. h \in 1..Len(denials') /\ f + h = i
      BY <1>1, <1>2
    <3> HIDE DEF h
    <3>2. QED
      BY <1>1, <3>1, Zenon
  <2>3. f <= m + 1 /\ m + 1 \in Nat /\ f \in Nat
    BY <1>1, <1>2
  <2> DEFINE top == m + 1
  <2>4. top \in Nat /\ f \in Nat /\ f <= top /\ top - f = Len(denials')
    BY <1>2, <2>3
  <2>5. /\ \A i \in 1..top : all[i] \in Nat
        /\ \A i \in 1..f : all[top] - all[i] > Window
        /\ \A i \in f + 1..top : all[top] - all[i] <= Window
    BY <1>4, <2>1, <2>2, Zenon
  <2> HIDE DEF top
  <2>6. Cardinality({i \in 1..top : all[top] - all[i] <= Window}) = top - f
    BY <2>4, <2>5, WindowCounted, Zenon
  <2>7. Burst(all, top) <=> Len(denials') >= Threshold
    BY <2>4, <2>6, Zenon DEF Burst
  <2>8. QED
    BY <2>7, Zenon DEF top
<1>9. ASSUME NEW j \in 1..m PROVE Burst(all, j) <=> Burst(allDenials, j)
  <2>1. \A i \in 1..j : i \in 1..m
    BY <1>2
  <2>2. \A i \in 1..j : all[j] - all[i] = allDenials[j] - allDenials[i]
    BY <1>1, <2>1
  <2>3. {i \in 1..j : all[j] - all[i] <= Window}
            = {i \in 1..j : allDenials[j] - allDenials[i] <= Window}
    BY <2>2
  <2>4. QED
    BY <2>3, Zenon DEF Burst
<1>10. (\E j \in 1..m + 1 : Burst(all, j))
            <=> (\E j \in 1..m : Burst(allDenials, j)) \/ Len(denials') >= Threshold
  <2>1. \A j \in 1..m + 1 : j \in 1..m \/ j = m + 1
    BY <1>2
  <2>2. m + 1 \in 1..m + 1 /\ \A j \in 1..m : j \in 1..m + 1
    BY <1>2
  <2>3. QED
    BY <1>8, <1>9, <2>1, <2>2, Zenon
<1>11. /\ triggered' = (triggered \/ (Len(denials') >= Threshold /\ ~triggered))
       /\ lockdown' = IF Len(denials') >= Threshold /\ ~triggered THEN "posted" ELSE lockdown
  BY DEF RecordDenial
<1>12. /\ triggered \in BOOLEAN
       /\ triggered <=> \E j \in 1..m : Burst(allDenials, j)
       /\ triggered <=> lockdown # "none"
  BY DEF TriggerInv, m
<1>13. /\ triggered' \in BOOLEAN
       /\ triggered' <=> \E j \in 1..m + 1 : Burst(all, j)
       /\ triggered' <=> lockdown' # "none"
  BY <1>10, <1>11, <1>12, Zenon
<1>14. TriggerInv'
  BY <1>1, <1>13, Zenon DEF TriggerInv, Burst, all
<1>15. QED
  BY <1>7, <1>14

\* Every step keeps the queue a suffix of the history that covers the
\* window.
LEMMA DetectorStep ==
    ASSUME DetectorInv, TriggerInv, [Next]_vars
    PROVE  DetectorInv' /\ TriggerInv'
<1>1. CASE UNCHANGED <<now, anomalyVars>>
  BY <1>1 DEF DetectorInv, TriggerInv, Forgotten, anomalyVars
<1>2. CASE RecordDenial /\ UNCHANGED now
  BY <1>2, DenialKeeps
<1>3. CASE Tick
  <2>1. now' = now + 1 /\ UNCHANGED <<denials, triggered, lockdown, allDenials>>
    BY <1>3 DEF Tick, anomalyVars
  <2>2. now \in Nat /\ Window \in Nat /\ \A i \in 1..Len(allDenials) : allDenials[i] \in Nat
    BY NetProxyAssumption DEF DetectorInv
  <2>3. \A i \in 1..Forgotten : i \in 1..Len(allDenials)
    BY DEF DetectorInv, Forgotten
  <2>4. \A i \in 1..Forgotten : (now + 1) - allDenials[i] > Window
    BY <2>2, <2>3 DEF DetectorInv
  <2>5. \A i \in 1..Len(allDenials) : allDenials[i] <= now + 1
    BY <2>2 DEF DetectorInv
  <2>6. TriggerInv'
    BY <2>1 DEF TriggerInv
  <2>7. UNCHANGED Forgotten
    BY <2>1 DEF Forgotten
  <2>8. DetectorInv'
    <3>1. now' \in Nat /\ denials' = denials /\ allDenials' = allDenials
      BY <2>1, <2>2
    <3>2. \A i \in 1..Len(allDenials) : allDenials[i] <= now'
      BY <2>1, <2>5
    <3>3. \A i \in 1..Forgotten : now' - allDenials[i] > Window
      BY <2>1, <2>4
    <3>4. QED
      BY <2>7, <3>1, <3>2, <3>3, Zenon DEF DetectorInv
  <2>9. QED
    BY <2>6, <2>8
<1>4. CASE LockdownAnswered
  <2>1. /\ lockdown = "posted" /\ lockdown' \in {"accepted", "failed"}
        /\ UNCHANGED <<now, denials, triggered, allDenials>>
    BY <1>4 DEF LockdownAnswered
  <2>2. QED
    BY <2>1 DEF DetectorInv, TriggerInv, Forgotten
<1>5. CASE Background
  <2>1. CASE EditFile \/ RestoreFile \/ ReloadAllowlist
    BY <1>1, <2>1 DEF EditFile, RestoreFile, ReloadAllowlist
  <2>2. QED
    BY <1>3, <1>4, <1>5, <2>1 DEF Background
<1>6. CASE RequestEgress \/ EnableSimulatorTool
  BY <1>1, <1>6 DEF RequestEgress, AddHost, EnableSimulatorTool, EnableSimulator
<1>7. CASE UNCHANGED netVars
  BY <1>1, <1>7 DEF netVars
<1>8. QED
  BY <1>1, <1>2, <1>5, <1>6, <1>7, NetSteps

\* record_denial: although the detector forgets what has left its window, for
\* any threshold, window and traffic the lockdown is asked for exactly when as
\* many refusals as the threshold have fallen within one window.
THEOREM DetectorMissesNoBurst == Spec => []BurstTriggers
<1>1. Init => DetectorInv /\ TriggerInv
  <2> SUFFICES ASSUME Init PROVE DetectorInv /\ TriggerInv
    OBVIOUS
  <2>1. /\ now = 0 /\ denials = <<>> /\ triggered = FALSE /\ lockdown = "none"
        /\ allDenials = <<>>
    BY DEF Init, NetInit
  <2>2. denials \in Seq(Nat) /\ allDenials \in Seq(Nat)
    BY <2>1
  <2>3. Len(denials) = 0 /\ Len(allDenials) = 0 /\ Forgotten = 0
    BY <2>1 DEF Forgotten
  <2>4. 1..0 = {}
    OBVIOUS
  <2>5. now \in Nat /\ Forgotten \in Nat
    BY <2>1, <2>3
  <2>6. DetectorInv
    BY <2>2, <2>3, <2>4, <2>5, Zenon DEF DetectorInv
  <2>7. TriggerInv
    BY <2>1, <2>3, <2>4, Zenon DEF TriggerInv
  <2>8. QED
    BY <2>6, <2>7
<1>2. DetectorInv /\ TriggerInv /\ [Next]_vars => DetectorInv' /\ TriggerInv'
  BY DetectorStep
<1>3. TriggerInv => BurstTriggers
  BY Zenon DEF TriggerInv, BurstTriggers, Burst
<1>4. QED
  BY <1>1, <1>2, <1>3, PTL DEF Spec
=============================================================================
