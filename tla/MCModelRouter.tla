---------------------------- MODULE MCModelRouter ----------------------------
(***************************************************************************)
(* Instance: two agents, one with a forced profile; the primary model of an *)
(* OAuth provider with two profiles, a failover with a static key whose own *)
(* failover leads back.                                                     *)
(***************************************************************************)
EXTENDS ModelRouter

CONSTANTS a1, a2, w, h, main, spare

MCPlan == [failover |-> [s \in {main, spare} |-> <<[spec |-> IF s = main THEN spare ELSE main, bare |-> FALSE]>>],
           equivalents |-> <<>>,
           candidates |-> [s \in {main, spare} |-> <<s>>]]
MCForced == [a \in {a1, a2} |-> IF a = a1 THEN w ELSE None]
MCSpecOf == [k \in {main, spare} |-> k]
MCOrder == <<h, w>>
MCCommands == {<<"login", h>>, <<"logout", w>>}

\* Every configuration of three specs with at most one failover each, any
\* group of equivalents, and two candidates of which two specs may share one.
SmallPlans ==
  LET Specs == {"s", "t", "u"}
      Lists == {<<>>} \cup {<<[spec |-> x, bare |-> b]>> : x \in Specs, b \in BOOLEAN}
  IN [failover : [Specs -> Lists],
      equivalents : {EquivalenceIndex(g) : g \in SUBSET Specs},
      candidates : {[x \in Specs |-> <<x>>], [x \in Specs |-> IF x = "s" THEN <<"s1", "s2">> ELSE <<x, "k">>]}]

R == INSTANCE Routing WITH AnyProvider <- "any", Unrouted <- None

\* A role's rule and one profile, each with any of these lists, over two models,
\* one of them bare, and two accounts; what the runtime adds to them.
SmallRules ==
  LET X == [provider |-> "x", model |-> "m"]
      Bare == [provider |-> "any", model |-> "m"]
      A == [provider |-> "any", account |-> "a"]
      B == [provider |-> "x", account |-> "b"]
  IN {[R!NoRule EXCEPT !.profile = up, !.model = m, !.auth = u, !.allowedModels = ms,
                       !.account = a, !.allowedAccounts = as] :
        up \in {<<>>, <<"far">>}, m \in {<<>>, <<X>>, <<Bare>>}, u \in {<<>>, <<"own">>},
        ms \in {<<>>, <<X>>, <<Bare, X>>}, a \in {<<>>, <<A>>, <<B>>}, as \in {<<>>, <<A>>}}

SmallProjects ==
  {[roles |-> ("coder" :> [kind |-> "rule", rule |-> near]), profiles |-> ("far" :> far), default |-> "far"] :
     near \in SmallRules, far \in {rule \in SmallRules : rule.auth = <<>> /\ rule.account = <<>>}}

SmallRuntimes ==
  {[models |-> ("default" :> <<[provider |-> "x", model |-> "m"]>>), supervisor |-> <<>>,
    defaultAccount |-> [q \in {"any", "x", "y"} |-> d]] :
     d \in {<<>>, <<[provider |-> "any", account |-> "b"]>>}}

\* Two providers, one with two accounts; what each is configured to serve.
SmallFleets ==
  LET Serves == {{}, {"m"}, {"n"}}
      Usages == {R!Unused, [tokens |-> <<7>>, ratio |-> <<>>]}
  IN {[q \in {"x", "y"} |->
         IF q = "x" THEN [accounts |-> [a |-> [models |-> ma, priority |-> 2, usage |-> ua],
                                       b |-> [models |-> mb, priority |-> 1, usage |-> R!Unused]],
                          models |-> mx, listed |-> <<>>, priority |-> 2, usage |-> ua, default |-> <<"a">>]
         ELSE [accounts |-> <<>>, models |-> {}, listed |-> <<my>>, priority |-> 1, usage |-> uy, default |-> <<>>]] :
        ma \in Serves, mb \in Serves, mx \in Serves, my \in {{"m"}, {}}, ua \in Usages, uy \in Usages}

SmallQuotas ==
  LET Numbers == {<<>>, <<0>>, <<4>>, <<9>>}
  IN [used : Numbers, total : Numbers, remaining : Numbers, ratio : {<<>>, <<50>>}]

SmallRoutes ==
  {[spec |-> [provider |-> q, model |-> "m"], auth |-> <<>>, account |-> a] :
     q \in {"any", "x", "y"},
     a \in {<<>>, <<[provider |-> "x", account |-> "a"]>>, <<[provider |-> "any", account |-> "b"]>>}}

W == INSTANCE Wire

\* What a model may answer and how a call may fail.
RawAnswers == [calls : {<<>>} \cup [1 .. 1 -> [whole : BOOLEAN]] \cup [1 .. 2 -> [whole : BOOLEAN]],
               stop : {"tools", "length", "stop"}]
RawErrors == [text : {"none", "context", "orphan"}, type : {"none", "tokens", "permission_error", "overloaded_error"},
              status : {W!NoStatus, 400, 408, 413, 429, 500}, codex : {W!NoStatus, 404, 429, 503}]

\* Every conversation of a few messages; the runs of agents keep theirs whole.
C == INSTANCE Conversation WITH Note <- {}, Threshold <- 0, Margin <- 0, Big <- 1
SmallMessages == {C!Text} \cup UNION {{C!ToolCall(r), C!ToolResult(r, 1)} : r \in 1 .. 2}
SmallConversations ==
  {ms \in UNION {[1 .. n -> SmallMessages] : n \in 0 .. 6} : C!WellFormed(ms)}

\* For every configuration and every sticky failover the chain holds each
\* candidate of every reachable spec once, the sticky's first, then the
\* requested model's own, whatever cycles the failovers and equivalents make;
\* a role gets a model its rules allow and an account of it, ranked by a proper
\* order; every client sends a well formed conversation in a form its API
\* accepts, with all it says; no client hands over a tool call that was cut
\* off; no error that may pass ends a call for good.  The configurations are
\* those a router may start with.
PlansAndAnswersAreSound ==
  RouterInit =>
    /\ \A cfg \in SmallPlans, first \in {<<>>, <<"t">>, <<"u">>} :
         IsPlanFor(BuildCandidateChain(cfg, "s", first), cfg, "s", first)
    /\ \A project \in {q \in SmallProjects : R!ProfilesAreAcyclic(q)}, runtime \in SmallRuntimes :
         R!RouteIsAllowed(project, runtime, "coder")
    /\ \A fleet \in SmallFleets, route \in SmallRoutes :
         \A i \in DOMAIN R!SpecCandidates(fleet, route.spec, route.account) :
           R!CandidateIsFor(fleet, route, R!SpecCandidates(fleet, route.spec, route.account)[i])
    /\ R!UsagesAreOrdered(SmallQuotas)
    /\ R!UsageIsWhatIsKnown(SmallQuotas)
    /\ \A ms \in SmallConversations : W!AcceptedEverywhere(W!Blocks(ms))
    /\ \A raw \in RawAnswers : W!AnswerIsWhole(raw)
    /\ \A err \in RawErrors : W!KindIsSafe(err)

-----------------------------------------------------------------------------
(* Logging in. *)
L == INSTANCE OAuthLogins

Token(account) == [parts |-> 3, plain |-> TRUE, claim |-> <<account>>]
OddToken(account) == [Token(account) EXCEPT !.plain = FALSE]

TokenResponses ==
  [ok : BOOLEAN, access : {L!Nothing, <<Token("me")>>}, refresh : {L!Nothing, <<"r">>}, expiresIn : {L!Nothing, <<60>>}]
Requests == [path : {"/auth/callback", "/favicon.ico"}, state : {L!Nothing, <<"mine">>, <<"other">>}, code : {L!Nothing, <<"good">>}]
Landing == [path |-> "/auth/callback", state |-> <<"mine">>, code |-> <<"good">>]
Inputs ==
  {[kind |-> "empty"]} \cup [kind : {"text"}, code : {<<"good">>}]
  \cup [kind : {"url", "query"}, code : {L!Nothing, <<"good">>}, state : {L!Nothing, <<"mine">>, <<"other">>}]
Logins ==
  [portFree : BOOLEAN, requests : SeqOf(Requests, 2), state : {"mine"}, input : Inputs, response : TokenResponses, now : {0}]

\* A login ends with whole tokens or an error; with its port it ends only when
\* the browser lands on it with the code, whatever else asks the port, in which
\* order, so that a refusal of the user or a browser on another machine leaves
\* it waiting; the prompt for the code is for a port in use.
ASSUME LoginsWaitForTheBrowser ==
  \A s \in Logins :
    LET result == L!CodexLogin(s)
    IN /\ (result = L!Waiting) = (s.portFree /\ Landing \notin Range(s.requests))
       /\ result \notin {L!Throws, L!Waiting} =>
            result.access = Token("me") /\ result.refresh = "r" /\ result.expires > s.now
       /\ s.portFree => \A input \in Inputs : L!CodexLogin([s EXCEPT !.input = input]) = result
       /\ \A request \in Requests : request # Landing =>
            L!CodexLogin([s EXCEPT !.requests = Append(@, request)]) = result

\* A token response that keeps the old refresh token, by not naming a new one,
\* counts as a failed refresh: the profile keeps tokens that have expired.
ASSUME RefreshesNeedANewToken ==
  \E response \in TokenResponses :
    /\ response.ok /\ response.access # L!Nothing /\ response.expiresIn # L!Nothing
    /\ L!CodexRefresh(response, 0) = L!Throws /\ L!AnthropicRefresh(response, 0) = L!Throws
    /\ LET tokens == L!CodexRefresh([response EXCEPT !.refresh = <<"r">>], 0)
       IN L!KeepRefreshed(tokens, L!CodexRefresh(response, 0)) = tokens

Granted(access) ==
  [portFree |-> TRUE, requests |-> <<Landing>>, state |-> "mine", input |-> [kind |-> "empty"], now |-> 0,
   response |-> [ok |-> TRUE, access |-> <<access>>, refresh |-> <<"r">>, expiresIn |-> <<60>>]]
SavedBy(tokens) ==
  FoldLeft(LAMBDA profiles, t : L!SaveLogin(profiles, "codex", L!Nothing, L!CodexLogin(Granted(t))), <<>>, tokens)

\* Two accounts whose tokens name them get a profile each.  A token whose claims
\* have a character of the URL alphabet is not read, and the logins of two such
\* accounts, like all of a provider without claims, replace one another.
ASSUME AccountsNeedTheirClaims ==
  /\ Cardinality(DOMAIN SavedBy(<<Token("me"), Token("you")>>)) = 2
  /\ Cardinality(DOMAIN SavedBy(<<OddToken("me"), OddToken("you")>>)) = 1
  /\ SavedBy(<<OddToken("me"), OddToken("you")>>)[<<"codex", "default">>].tokens.access = OddToken("you")

\* The Anthropic flow is the same at its own path, but its profile has no
\* account whatever the token says.
ASSUME AnthropicHasNoAccount ==
  \A s \in Logins :
    LET Moved(request) == [request EXCEPT !.path = IF @ = "/auth/callback" THEN "/callback" ELSE @]
        moved == [s EXCEPT !.requests = [i \in DOMAIN @ |-> Moved(@[i])]]
        mine == L!AnthropicLogin(moved)
        theirs == L!CodexLogin(s)
    IN /\ \A i \in DOMAIN s.requests :
            s.requests[i].path = "/auth/callback" =>
              (L!AnthropicCallback(moved.requests[i], s.state) = 200) = (s.requests[i] = Landing)
       /\ mine \in {L!Throws, L!Waiting} => mine = theirs
       /\ mine \notin {L!Throws, L!Waiting} => mine = [theirs EXCEPT !.account = L!Nothing]

\* Logging out of a provider leaves every profile of the others.
ASSUME LogoutsAreAimed ==
  \A key \in {L!Nothing, <<"codex", "me">>}, provider \in {L!Nothing, <<"codex">>} :
    LET both == L!SaveLogin(SavedBy(<<Token("me"), Token("you")>>), "copilot", L!Nothing,
                            L!CopilotRefresh("g", [ok |-> TRUE, token |-> <<"t">>, expiresAt |-> <<900>>]))
        left == L!Logout(both, key, provider)
    IN DOMAIN both \ DOMAIN left =
         {k \in DOMAIN both : (key # L!Nothing => k = key) /\ (key = L!Nothing /\ provider # L!Nothing => k[1] = "codex")}

Replies ==
  {[kind |-> "token", token |-> "g"], [kind |-> "pending"], [kind |-> "http"], [kind |-> "slow_down", interval |-> L!Nothing],
   [kind |-> "slow_down", interval |-> <<1>>]}
Device == [interval |-> 5, expiresIn |-> 20]
Gap(polled, i) == polled.at[i] - IF i = 1 THEN 0 ELSE polled.at[i - 1]

\* The device grant keeps at least the server's interval between two requests,
\* all but the last, which the end of the code's life may bring nearer; it ends
\* by then; and a slow_down with an interval may make it quicker.
ASSUME PollsKeepTheirDistance ==
  /\ \A replies \in SeqOf(Replies, 4) :
       LET polled == L!PollForAccessToken(Device, replies)
           slow == [kind |-> "slow_down", interval |-> <<1>>]
       IN /\ \A i \in DOMAIN polled.at :
               /\ polled.at[i] <= 1000 * Device.expiresIn
               /\ (slow \notin Range(replies) /\ polled.at[i] < 1000 * Device.expiresIn) =>
                    Gap(polled, i) >= 1000 * Device.interval
          /\ (Len(replies) = 4 /\ slow \notin Range(replies)) => polled.result # L!Waiting
  /\ Gap(L!PollForAccessToken(Device, <<[kind |-> "slow_down", interval |-> <<1>>], [kind |-> "pending"]>>), 2)
       < 1000 * Device.interval

\* One request that fails ends the login, though the code would still be good
\* and the user may just be about to enter it.
ASSUME OneFailureEndsTheLogin ==
  \A before \in SeqOf({[kind |-> "pending"]}, 1), after \in SeqOf(Replies, 1) :
    L!PollForAccessToken(Device, before \o <<[kind |-> "http"]>> \o after).result = L!Throws

\* A device login that ends well keeps GitHub's own token for the refreshes; its
\* copilot token counts as expired before it is.
ASSUME CopilotKeepsTheDeviceToken ==
  \A replies \in SeqOf(Replies, 2), ok \in BOOLEAN, expiresAt \in {L!Nothing, <<900>>} :
    LET started == [ok |-> TRUE, whole |-> TRUE, device |-> Device]
        tokens == L!CopilotLogin(started, replies, [ok |-> ok, token |-> <<"t">>, expiresAt |-> expiresAt])
    IN tokens \notin {L!Throws, L!Waiting} =>
         /\ ok /\ expiresAt # L!Nothing /\ [kind |-> "token", token |-> "g"] \in Range(replies)
         /\ tokens.refresh = "g" /\ tokens.expires < 1000 * expiresAt[1]

\* The API is at the host the token names, wherever the account belongs; the
\* client asks without the enterprise's domain (src/src/providers/copilot.ts).
ASSUME TokensNameTheHost ==
  \A host \in {"p", "q"}, enterprise \in {L!Nothing, <<"corp">>} :
    /\ L!BaseUrl(<<[proxy |-> <<host>>]>>, enterprise) = <<"proxy", host>>
    /\ L!BaseUrl(<<[proxy |-> L!Nothing]>>, enterprise) = L!BaseUrl(L!Nothing, enterprise)
=============================================================================
