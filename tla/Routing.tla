------------------------------- MODULE Routing -------------------------------
(***************************************************************************)
(* From a role to a model and its accounts (src/src/routing/resolver.ts),   *)
(* and from a model to the candidates of a call                             *)
(* (src/src/providers/router.ts).                                           *)
(*                                                                          *)
(* A spec is [provider, model], its provider AnyProvider for a bare model; an       *)
(* account reference is [provider, account], its provider AnyProvider before it is  *)
(* normalized.  Fields of a rule are sequences, <<>> where they are absent, *)
(* which an empty list stands for in the code too.                          *)
(***************************************************************************)
EXTENDS Roster, Sequences, SequencesExt

CONSTANTS AnyProvider, Unrouted

Unique(s) == FoldLeft(LAMBDA kept, x : IF Contains(kept, x) THEN kept ELSE Append(kept, x), <<>>, s)
Or(s, t) == IF s = <<>> THEN t ELSE s
Only(s, S) == SelectSeq(s, LAMBDA x : x \in S)

NoRule == [profile |-> <<>>, model |-> <<>>, auth |-> <<>>, account |-> <<>>,
           models |-> <<>>, allowedModels |-> <<>>, accounts |-> <<>>, allowedAccounts |-> <<>>]

-----------------------------------------------------------------------------
(* The rule of a role.  project is [roles, profiles, default]: a role has a *)
(* name, a spec or a rule of its own.                                       *)

NameRule(project, name) ==
  IF name \in DOMAIN project.profiles THEN [NoRule EXCEPT !.profile = <<name>>]
  ELSE [NoRule EXCEPT !.model = <<[provider |-> AnyProvider, model |-> name]>>]

RoleRule(project, role) ==
  LET key == IF role \in DOMAIN project.roles THEN role ELSE "default"
      entry == project.roles[key]
  IN CASE key \in DOMAIN project.roles /\ entry.kind = "name" -> NameRule(project, entry.name)
       [] key \in DOMAIN project.roles /\ entry.kind = "spec" -> [NoRule EXCEPT !.model = <<entry.spec>>]
       [] key \in DOMAIN project.roles /\ entry.kind = "rule" -> entry.rule
       [] key \notin DOMAIN project.roles /\ project.default \in DOMAIN project.profiles ->
            [NoRule EXCEPT !.profile = <<project.default>>]
       [] OTHER -> NoRule

\* The profile a rule names, if there is one.
Parent(project, rule) == Only(rule.profile, DOMAIN project.profiles)

\* validateProfileGraph: no profile is its own ancestor.
ProfilesAreAcyclic(project) ==
  LET Names == DOMAIN project.profiles
      Up[n \in 0 .. Cardinality(Names), p \in Names] ==
        LET parents == ToSet(Parent(project, project.profiles[p]))
        IN IF n = 0 THEN parents ELSE parents \cup UNION {Up[n - 1, q] : q \in parents}
  IN \A p \in Names : p \notin Up[Cardinality(Names), p]

RECURSIVE RuleChain(_, _)
RuleChain(project, rule) ==
  LET parent == Parent(project, rule)
  IN IF parent = <<>> THEN <<rule>> ELSE <<rule>> \o RuleChain(project, project.profiles[parent[1]])

\* mergeRuleChain: field by field, the rule nearest to the role decides.
MergedRule(project, role) ==
  FoldLeft(LAMBDA far, near : [f \in DOMAIN NoRule |-> Or(near[f], far[f])],
           NoRule, Reverse(RuleChain(project, RoleRule(project, role))))

-----------------------------------------------------------------------------
(* Models and accounts of a rule.  runtime is [models, supervisor,          *)
(* defaultAccount].                                                         *)

RuntimeModels(runtime, role) ==
  LET key == IF role \in DOMAIN ROSTER THEN ROSTER[role].modelKey ELSE role
  IN CASE role = "supervisor" -> runtime.supervisor
       [] role # "supervisor" /\ key \in DOMAIN runtime.models -> runtime.models[key]
       [] role # "supervisor" /\ key \notin DOMAIN runtime.models
            /\ "default" \in DOMAIN runtime.models -> runtime.models["default"]
       [] OTHER -> <<>>

PreferredModels(runtime, role, rule) ==
  LET wanted == Unique(rule.model \o rule.models)
  IN CASE rule.allowedModels = <<>> -> Or(wanted, RuntimeModels(runtime, role))
       [] rule.allowedModels # <<>> /\ wanted = <<>> -> rule.allowedModels
       [] OTHER -> Only(wanted, ToSet(rule.allowedModels))

Normalized(provider, refs) ==
  Unique([i \in DOMAIN refs |-> IF refs[i].provider = AnyProvider THEN [refs[i] EXCEPT !.provider = provider]
                                ELSE refs[i]])

\* What the rule prefers, then the provider's default, inside the allowed list;
\* for a bare model just what the rule prefers.
PreferredAccounts(runtime, provider, rule) ==
  LET wanted == Unique(rule.account \o rule.accounts)
      explicit == Normalized(provider, wanted)
      default == Normalized(provider, runtime.defaultAccount[provider])
      allowed == Normalized(provider, rule.allowedAccounts)
  IN CASE rule.auth # <<>> -> <<>>
       [] rule.auth = <<>> /\ provider = AnyProvider -> wanted
       [] rule.auth = <<>> /\ provider # AnyProvider /\ allowed = <<>> -> Or(explicit, default)
       [] rule.auth = <<>> /\ provider # AnyProvider /\ allowed # <<>> /\ explicit \o default = <<>> -> allowed
       [] OTHER -> Or(Only(explicit, ToSet(allowed)), Only(default, ToSet(allowed)))

\* resolve: Unrouted where it throws, no model or none that is allowed.
Resolve(project, runtime, role) ==
  LET rule == MergedRule(project, role)
      models == PreferredModels(runtime, role, rule)
      provider == models[1].provider
      accounts == PreferredAccounts(runtime, provider, rule)
      refused == /\ rule.auth = <<>> /\ provider # AnyProvider /\ rule.allowedAccounts # <<>>
                 /\ accounts = <<>>
  IN IF models = <<>> \/ refused THEN Unrouted
     ELSE [spec |-> models[1], auth |-> rule.auth,
           account |-> IF accounts = <<>> THEN <<>> ELSE <<accounts[1]>>]

-----------------------------------------------------------------------------
(* Candidates.  fleet is the router's configuration: per provider its       *)
(* accounts with their models, priority and usage, the models it is         *)
(* configured to serve, what its client lists (<<>> where only a request    *)
(* could tell), its priority, usage and default account.                    *)

\* normalizeUsageSnapshot, with ratios in percent; <<>> is a number not known.
Unused == [tokens |-> <<>>, ratio |-> <<>>]
NormalizeUsage(said) ==
  LET counted == said.total # <<>> /\ said.used # <<>>
      left == IF counted /\ said.total[1] > said.used[1] THEN <<said.total[1] - said.used[1]>> ELSE <<0>>
      tokens == Or(said.remaining, IF counted THEN left ELSE <<>>)
      share == IF said.total # <<>> /\ said.total # <<0>> /\ tokens # <<>>
               THEN <<(100 * tokens[1]) \div said.total[1]>> ELSE <<>>
  IN  [tokens |-> tokens,
       ratio |-> Or(said.ratio, [i \in DOMAIN share |-> IF share[i] > 100 THEN 100 ELSE share[i]])]

\* inspectUsageCandidate: what the provider says, else the configured quota,
\* else the rate limit it has shown.
UsageOf(provider, config, limit) ==
  LET known == SelectSeq(<<NormalizeUsage(provider), NormalizeUsage(config),
                           [Unused EXCEPT !.tokens = limit]>>, LAMBDA u : u # Unused)
  IN  IF known = <<>> THEN Unused ELSE known[1]

\* compareUsageSnapshots: who has more left; a number before none.
More(x, y) == x # <<>> /\ (y = <<>> \/ x[1] > y[1])
UsageBefore(u, v) ==
  \/ More(u.tokens, v.tokens)
  \/ ~More(v.tokens, u.tokens) /\ More(u.ratio, v.ratio)

\* listUsageCandidateKeys: a provider with accounts has no usage of its own.
ProviderUsage(fleet, p) == IF DOMAIN fleet[p].accounts = {} THEN fleet[p].usage ELSE Unused

AccountServes(fleet, p, a, model) ==
  LET own == fleet[p].accounts[a].models
  IN model \in (IF own # {} THEN own ELSE fleet[p].models) \/ (own = {} /\ fleet[p].models = {})

\* refreshModelEligibilitySnapshot: what the provider can serve, where an
\* account without a list serves everything.
ProviderServes(fleet, p, model) ==
  LET open == \E a \in DOMAIN fleet[p].accounts : fleet[p].accounts[a].models = {}
      listed == UNION {fleet[p].accounts[a].models : a \in DOMAIN fleet[p].accounts}
  IN CASE fleet[p].models # {} -> model \in fleet[p].models
       [] fleet[p].models = {} /\ fleet[p].listed # <<>> -> model \in fleet[p].listed[1]
       [] OTHER -> open \/ model \in listed

\* compareProviderOrder, compareAccountOrder
Ranked(S, usage, priority) ==
  SetToSortSeq(S, LAMBDA x, y :
    \/ UsageBefore(usage[x], usage[y])
    \/ ~UsageBefore(usage[y], usage[x]) /\ priority[x] < priority[y])

\* orderedAccountsForModel
AccountsFor(fleet, p, model, wanted) ==
  LET able == {a \in DOMAIN fleet[p].accounts : AccountServes(fleet, p, a, model)}
  IN IF wanted # <<>> THEN Only(wanted, able)
     ELSE Ranked(able, [a \in able |-> fleet[p].accounts[a].usage], [a \in able |-> fleet[p].accounts[a].priority])

\* parseMatchingAccountRef: a reference counts for its own provider.
WantedAccount(p, account) ==
  LET refs == SelectSeq(Normalized(p, account), LAMBDA ref : ref.provider = p)
  IN [i \in DOMAIN refs |-> refs[i].account]

\* expandProviderModelCandidates: one per account, or one that names none.
ProviderCandidates(fleet, p, model, account) ==
  LET accounts == AccountsFor(fleet, p, model, WantedAccount(p, account))
      spec == [provider |-> p, model |-> model]
  IN IF accounts = <<>> THEN <<[spec |-> spec, account |-> <<>>]>>
     ELSE [i \in DOMAIN accounts |-> [spec |-> spec, account |-> <<accounts[i]>>]]

\* appendCandidatesForModelSpec: a bare model goes to every provider that can
\* serve it, in their order.
SpecCandidates(fleet, spec, account) ==
  LET able == {p \in DOMAIN fleet : ProviderServes(fleet, p, spec.model)}
      order == Ranked(able, [p \in able |-> ProviderUsage(fleet, p)], [p \in able |-> fleet[p].priority])
  IN IF spec.provider # AnyProvider THEN ProviderCandidates(fleet, spec.provider, spec.model, account)
     ELSE FlattenSeq([i \in DOMAIN order |-> ProviderCandidates(fleet, order[i], spec.model, account)])

\* getForRequest, resolveRequestedAccountName: the account whose instance and
\* key a candidate is called with, <<>> for the provider's own.
CalledWith(fleet, route, candidate) ==
  LET p == candidate.spec.provider
      wanted == Or(candidate.account, WantedAccount(p, route.account))
  IN IF route.auth # <<>> THEN <<>>
     ELSE Or(wanted, Only(fleet[p].default, DOMAIN fleet[p].accounts))
-----------------------------------------------------------------------------
(* What a reader of a configuration relies on.                              *)

\* The first list, going from the role's own rule to the farthest profile,
\* that is not empty.
Nearest(project, role, field) ==
  LET said == SelectSeq(RuleChain(project, RoleRule(project, role)), LAMBDA rule : rule[field] # <<>>)
  IN IF said = <<>> THEN <<>> ELSE said[1][field]

RouteIsAllowed(project, runtime, role) ==
  LET route == Resolve(project, runtime, role)
      models == Nearest(project, role, "allowedModels")
      accounts == Normalized(route.spec.provider, Nearest(project, role, "allowedAccounts"))
  IN route # Unrouted =>
       /\ models # <<>> => Contains(models, route.spec)
       /\ accounts # <<>> /\ route.auth = <<>> /\ route.spec.provider # AnyProvider =>
            route.account # <<>> /\ Contains(accounts, route.account[1])

\* The model is the one that was asked for, and the account is one that serves
\* it, or the one the route names, never another in its place.
CandidateIsFor(fleet, route, candidate) ==
  LET p == candidate.spec.provider
      named == WantedAccount(p, route.account)
  IN /\ candidate.spec.model = route.spec.model
     /\ p = route.spec.provider \/ (route.spec.provider = AnyProvider /\ ProviderServes(fleet, p, route.spec.model))
     /\ candidate.account # <<>> => AccountServes(fleet, p, candidate.account[1], candidate.spec.model)
     /\ route.auth = <<>> /\ named # <<>> => CalledWith(fleet, route, candidate) = named

\* The order of usages is one a sort can rely on: two of them are never each
\* before the other, and "not before" carries over.  A quota that is told in
\* more words ranks like the same quota told in fewer.
UsagesAreOrdered(quotas) ==
  LET usages == {NormalizeUsage(said) : said \in quotas}
  IN /\ \A u, v, w \in usages :
          /\ ~(UsageBefore(u, v) /\ UsageBefore(v, u))
          /\ UsageBefore(u, w) => UsageBefore(u, v) \/ UsageBefore(v, w)
     /\ \A said \in quotas :
          LET u == NormalizeUsage(said)
              again == NormalizeUsage([said EXCEPT !.remaining = u.tokens, !.ratio = u.ratio])
          IN again = u

\* What is known of a usage is never lost, and it is the word of one source: a
\* provider that tells its ratio alone hides the tokens of the configuration,
\* and the rate limit shows only where both are silent.
UsageIsWhatIsKnown(quotas) ==
  LET usages == {NormalizeUsage(said) : said \in quotas}
      Shown(limit) == [Unused EXCEPT !.tokens = limit]
  IN /\ \A provider, config \in quotas, limit \in {<<>>, <<3>>} :
          LET u == UsageOf(provider, config, limit)
          IN /\ u = Unused <=> {NormalizeUsage(provider), NormalizeUsage(config), Shown(limit)} = {Unused}
             /\ u \notin usages => u = Shown(limit) /\ NormalizeUsage(config) = Unused
     /\ \E provider, config \in quotas :
          NormalizeUsage(config).tokens # <<>> /\ UsageOf(provider, config, <<3>>).tokens = <<>>
=============================================================================
