--------------------------- MODULE IdentityProxy ---------------------------
(***************************************************************************)
(* `identity-proxy`, the hop of allowed traffic that puts a credential in   *)
(* plain HTTP requests: the injection rules and their hot reload, the cache *)
(* of OpenBao secrets and its refresh loop, and the keep-alive loop that     *)
(* injects into every request of a connection.                              *)
(*                                                                          *)
(* A rule is the set of hosts its pattern matches and the secret it names;  *)
(* the successive values of a secret are numbered.                          *)
(***************************************************************************)
EXTENDS Integers, Sequences

CONSTANTS
    RuleSets,    \* contents the rules file can have: sequences of rules
    Secrets,     \* secrets the rules name
    Links,       \* connections from net-proxy
    MaxChanges,  \* bound: changes of the rules file and of OpenBao, and reads
                 \* and logins OpenBao fails
    MaxInjected  \* bound: requests of one connection

\* A rule names a secret.
ASSUME RulesAssumption ==
    \A r \in RuleSets :
        Len(r) \in Nat /\ \A i \in 1..Len(r) : r[i].secret \in Secrets

NotInjected == 0

VARIABLES
    rulesFile,   \* content of the mounted file
    mount,       \* the file is "there", or "unusable": absent or not JSON
    vault, gone, \* OpenBao: number of the last value of a secret, deleted ones
    rules,       \* rules in force
    cache,       \* value injected for a secret, NotInjected if none
    loop,        \* refresh loop: "asleep", "login", "reading"
    next, values,  \* refresh_once: position in the rules, values read
    changes,
    link,        \* connections being served
    \* @history
    before, floor \* oldest value the refresh in progress, the last one, may hold

ruleVars == <<rulesFile, mount, vault, gone, changes>>
loopVars == <<rules, cache, loop, next, values, before, floor>>
idVars == <<ruleVars, loopVars, link>>

NoLink == [stage |-> "none", host |-> "none", rule |-> <<>>, used |-> NotInjected,
           far |-> "none", count |-> 0]

Nothing == [s \in Secrets |-> NotInjected]

IdInit ==
    /\ rulesFile \in RuleSets /\ mount = "there"
    /\ vault = [s \in Secrets |-> 1] /\ gone = {}
    /\ rules = rulesFile
    /\ cache = Nothing
    /\ loop = "asleep" /\ next = 1 /\ values = Nothing
    /\ changes = 0
    /\ link = [x \in Links |-> NoLink]
    /\ before = Nothing /\ floor = Nothing

-----------------------------------------------------------------------------
(* The outside: the ConfigMap of the rules and the secrets in OpenBao.      *)

EditRules ==
    /\ changes < MaxChanges /\ changes' = changes + 1
    /\ \/ \E new \in RuleSets : new # rulesFile /\ rulesFile' = new /\ mount' = "there"
       \/ /\ mount = "there" /\ mount' = "unusable"
          /\ UNCHANGED rulesFile
    /\ UNCHANGED <<vault, gone, loopVars, link>>

RestoreRules ==
    /\ mount # "there" /\ mount' = "there"
    /\ UNCHANGED <<rulesFile, vault, gone, changes, loopVars, link>>

WriteSecret(s) ==
    /\ changes < MaxChanges /\ changes' = changes + 1
    /\ vault' = [vault EXCEPT ![s] = @ + 1] /\ gone' = gone \ {s}
    /\ UNCHANGED <<rulesFile, mount, loopVars, link>>

DeleteSecret(s) ==
    /\ changes < MaxChanges /\ changes' = changes + 1
    /\ s \notin gone /\ gone' = gone \cup {s}
    /\ UNCHANGED <<rulesFile, mount, vault, loopVars, link>>

-----------------------------------------------------------------------------
(* secrets::refresh_loop: the rules first, then the secrets they name.      *)

Oldest == [s \in Secrets |-> IF s \in gone THEN vault[s] + 1 ELSE vault[s]]

\* rules::load: a missing file and an invalid one leave the rules in force.
Load == IF mount = "there" THEN rulesFile ELSE rules

ReloadRules_OnlyOnChange ==                          \* mutation: rotations are missed
    /\ loop = "asleep"
    /\ rules' = Load
    /\ loop' = IF Load \in {<<>>, rules} THEN "asleep" ELSE "login"
    /\ UNCHANGED <<ruleVars, cache, next, values, before, floor, link>>

\* An empty set of rules skips the secrets: the cache keeps what it holds.
ReloadRules ==
    /\ loop = "asleep"
    /\ rules' = Load
    /\ loop' = IF Load = <<>> THEN "asleep" ELSE "login"
    /\ UNCHANGED <<ruleVars, cache, next, values, before,
                   floor, link>>

Login ==
    /\ loop = "login"
    /\ loop' = "reading" /\ before' = Oldest
    /\ UNCHANGED <<ruleVars, rules, cache, next, values, floor, link>>

\* The snapshot refresh_once works on equals the rules in force: only this
\* loop changes them. A failed login leaves the cache of the last cycle.
LoginFails ==
    /\ loop = "login" /\ changes < MaxChanges
    /\ changes' = changes + 1 /\ loop' = "asleep"
    /\ UNCHANGED <<rulesFile, mount, vault, gone, rules, cache, next, values, before, floor, link>>

\* A secret that cannot be read is left out of the cycle.
ReadSecret ==
    LET s == rules[next].secret
    IN  /\ loop = "reading" /\ next <= Len(rules)
        /\ next' = next + 1
        /\ \/ /\ s \notin gone
              /\ values' = [values EXCEPT ![s] = vault[s]] /\ UNCHANGED changes
           \/ s \in gone /\ UNCHANGED <<values, changes>>
           \/ /\ s \notin gone /\ changes < MaxChanges
              /\ changes' = changes + 1 /\ UNCHANGED values
        /\ UNCHANGED <<rulesFile, mount, vault, gone, rules, cache, loop, before, floor, link>>

Refreshed_Merges(old, new) ==                       \* mutation: unread values stay
    [s \in Secrets |-> IF new[s] = NotInjected THEN old[s] ELSE new[s]]
Refreshed(old, new) == new

StoreCache ==
    /\ loop = "reading" /\ next > Len(rules)
    /\ cache' = Refreshed(cache, values) /\ floor' = before /\ loop' = "asleep"
    /\ next' = 1 /\ values' = Nothing /\ before' = Nothing
    /\ UNCHANGED <<ruleVars, rules, link>>

RefreshStep == ReloadRules \/ Login \/ ReadSecret \/ StoreCache

-----------------------------------------------------------------------------
(* proxy::handle_connection and its keep-alive loop.                        *)

\* The first rule whose pattern matches, in the rules in force when the
\* connection is accepted; a sequence of at most one rule.
Matching(host) ==
    LET hits == {i \in 1..Len(rules) : host \in rules[i].hosts}
    IN  IF hits = {} THEN <<>>
        ELSE <<rules[CHOOSE i \in hits : \A j \in hits : i <= j]>>

Serve(x, host) ==
    link' = [link EXCEPT ![x] = [NoLink EXCEPT !.stage = "dial", !.host = host,
                                               !.rule = Matching(host)]]

Drop(x) == link' = [link EXCEPT ![x] = NoLink]

\* What goes in a request of connection l.
Credential(l) == IF l.rule = <<>> THEN NotInjected ELSE cache[l.rule[1].secret]

SetLink(x, new) == link' = [link EXCEPT ![x] = new] /\ UNCHANGED <<ruleVars, loopVars>>

\* First request once connected; a failed connection answers 502.
IdConnect(x) ==
    /\ link[x].stage = "dial"
    /\ \/ SetLink(x, [link[x] EXCEPT !.stage = "answer", !.far = "open",
                                     !.used = Credential(link[x]), !.count = 1])
       \/ SetLink(x, NoLink)

\* An answer of known length: back to reading the next request. Otherwise the
\* rest of the connection is copied blindly.
IdAnswer(x) ==
    /\ link[x].stage = "answer" /\ link[x].far = "open"
    /\ \/ SetLink(x, [link[x] EXCEPT !.stage = "idle"])
       \/ SetLink(x, [link[x] EXCEPT !.stage = "blind"])

\* The destination closes; with a request on its way it ends the connection.
IdHangUp(x) ==
    /\ link[x].stage \in {"idle", "answer"} /\ link[x].far = "open"
    /\ \/ link[x].stage = "idle" /\ SetLink(x, [link[x] EXCEPT !.far = "closed"])
       \/ link[x].stage = "answer" /\ SetLink(x, NoLink)

\* Next request: a closed destination is dialled again before the first byte.
IdNextRequest(x) ==
    /\ link[x].stage = "idle" /\ link[x].count < MaxInjected
    /\ \/ SetLink(x, [link[x] EXCEPT !.stage = "answer", !.far = "open",
                                     !.used = Credential(link[x]), !.count = @ + 1])
       \/ link[x].far = "closed" /\ SetLink(x, NoLink)

IdServe(x) == IdConnect(x) \/ IdAnswer(x) \/ IdHangUp(x) \/ IdNextRequest(x)
=============================================================================
