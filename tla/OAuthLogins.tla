------------------------------ MODULE OAuthLogins ------------------------------
(***************************************************************************)
(* How `saivage login` comes by the tokens that AuthStore keeps, and what a *)
(* refresh makes of them: the code grant of src/src/auth/openai-codex.ts    *)
(* and src/src/auth/anthropic.ts, with a server on a local port that the    *)
(* browser is sent back to, and the device grant of                         *)
(* src/src/auth/github-copilot.ts, which polls.                             *)
(*                                                                          *)
(* Times are milliseconds.  A field that may be absent is <<>> or <<x>>, an *)
(* empty text being an absent one.  The time of a request is left out.      *)
(***************************************************************************)
EXTENDS Integers, SequencesExt

Nothing == <<>>
Throws == [throws |-> TRUE]
Waiting == [waiting |-> TRUE]  \* still running, until someone stops it

MinOf(a, b) == IF a <= b THEN a ELSE b

---------------------------------------------------------------------------
(* The code grant. *)

\* parseAuthorizationInput: a URL or a query gives its fields, other text is
\* the code.
ParseInput(input) ==
  CASE input.kind = "empty" -> [code |-> Nothing, state |-> Nothing]
    [] input.kind \in {"url", "query"} -> [code |-> input.code, state |-> input.state]
    [] input.kind = "text" -> [code |-> input.code, state |-> Nothing]

\* The callback server's answer to one request of a browser.
Callback(request, path, state) ==
  IF request.path # path THEN 404
  ELSE IF request.state # <<state>> \/ request.code = Nothing THEN 400 ELSE 200

\* startCallbackServer, waitForCode: the first code that arrives, in its time;
\* none at once when the port is taken.
WaitForCode(s, path) ==
  LET landed == SelectSeq(s.requests, LAMBDA request : Callback(request, path, s.state) = 200)
  IN IF ~s.portFree THEN [code |-> Nothing]
     ELSE IF landed = <<>> THEN Waiting ELSE [code |-> landed[1].code]

\* exchangeCode and refreshAccessToken
Tokens(response, now) ==
  IF ~response.ok \/ response.access = Nothing \/ response.refresh = Nothing \/ response.expiresIn = Nothing THEN Throws
  ELSE [access |-> response.access[1], refresh |-> response.refresh[1],
        expires |-> now + 1000 * response.expiresIn[1], account |-> Nothing]

\* s: a login, with what its user's browser and the token server do.
LoginWithCode(s, path) ==
  LET waited == WaitForCode(s, path)
      typed == ParseInput(s.input)
      Exchange(code) == IF code = Nothing THEN Throws ELSE Tokens(s.response, s.now)
  IN IF waited = Waiting THEN Waiting
     ELSE IF waited.code # Nothing THEN Exchange(waited.code)
     ELSE IF typed.state \notin {Nothing, <<s.state>>} THEN Throws
     ELSE Exchange(typed.code)

\* decodeJwt and the claim in it; atob reads the plain alphabet only.
AccountOf(token) == IF token.parts = 3 /\ token.plain THEN token.claim ELSE Nothing

WithAccount(result) ==
  IF result \in {Throws, Waiting} THEN result
  ELSE [result EXCEPT !.account = AccountOf(result.access)]

CodexLogin(s) == WithAccount(LoginWithCode(s, "/auth/callback"))
CodexRefresh(response, now) == WithAccount(Tokens(response, now))

AnthropicCallback(request, state) == Callback(request, "/callback", state)
AnthropicLogin(s) == LoginWithCode(s, "/callback")
AnthropicRefresh(response, now) == Tokens(response, now)

---------------------------------------------------------------------------
(* The device grant. *)

\* startDeviceFlow
StartDeviceFlow(response) == IF response.ok /\ response.whole THEN response.device ELSE Throws

\* slow_down: the server's new interval, or five seconds more.
Slower(every, interval) ==
  IF interval # Nothing /\ interval[1] > 0 THEN 1000 * interval[1] ELSE every + 5000

\* pollForAccessToken over the replies it gets, in order; `at` are the times of
\* its requests, the waits 1.2 or 1.4 times the interval.
PollForAccessToken(device, replies) ==
  LET deadline == 1000 * device.expiresIn
      begin == [now |-> 0, at |-> <<>>, result |-> Waiting, tenths |-> 12,
                every |-> IF device.interval > 1 THEN 1000 * device.interval ELSE 1000]
      Poll(acc, reply) ==
        LET now == MinOf(acc.now + (acc.every * acc.tenths) \div 10, deadline)
            polled == [acc EXCEPT !.now = now, !.at = Append(@, now)]
        IN IF acc.result # Waiting \/ acc.now >= deadline THEN acc
           ELSE CASE reply.kind = "token" -> [polled EXCEPT !.result = [token |-> reply.token]]
                  [] reply.kind \in {"error", "http"} -> [polled EXCEPT !.result = Throws]
                  [] reply.kind = "slow_down" -> [polled EXCEPT !.every = Slower(@, reply.interval), !.tenths = 14]
                  [] reply.kind \in {"pending", "other"} -> polled
      end == FoldLeft(Poll, begin, replies)
  IN [at |-> end.at, result |-> IF end.result = Waiting /\ end.now >= deadline THEN Throws ELSE end.result]

\* refreshGitHubCopilotToken: GitHub's token is the refresh token; the copilot
\* token counts as expired five minutes early.
CopilotRefresh(github, response) ==
  IF ~response.ok \/ response.token = Nothing \/ response.expiresAt = Nothing THEN Throws
  ELSE [access |-> response.token[1], refresh |-> github,
        expires |-> 1000 * response.expiresAt[1] - 300000, account |-> Nothing]

CopilotLogin(started, replies, response) ==
  LET device == StartDeviceFlow(started)
      polled == PollForAccessToken(device, replies).result
  IN IF device = Throws THEN Throws
     ELSE IF polled \in {Throws, Waiting} THEN polled
     ELSE CopilotRefresh(polled.token, response)

\* getGitHubCopilotBaseUrl: the host the token names, the enterprise's, the usual.
BaseUrl(token, enterprise) ==
  IF token # Nothing /\ token[1].proxy # Nothing THEN <<"proxy", token[1].proxy[1]>>
  ELSE IF enterprise # Nothing THEN <<"enterprise", enterprise[1]>> ELSE <<"individual">>

---------------------------------------------------------------------------
(* The command. *)

\* login: the profile it saves, under the key asked for or one of its own.
ProfileKey(provider, asked, tokens) ==
  IF asked # Nothing THEN asked
  ELSE <<provider, IF tokens.account = Nothing THEN "default" ELSE tokens.account[1]>>

SaveLogin(profiles, provider, asked, result) ==
  IF result \in {Throws, Waiting} THEN profiles
  ELSE (ProfileKey(provider, asked, result) :> [provider |-> provider, tokens |-> result]) @@ profiles

\* logout: one profile, those of a provider, or all.
Logout(profiles, key, provider) ==
  LET gone == IF key # Nothing THEN {key}
              ELSE IF provider # Nothing THEN {k \in DOMAIN profiles : profiles[k].provider = provider[1]}
              ELSE DOMAIN profiles
  IN [k \in DOMAIN profiles \ gone |-> profiles[k]]

\* What getOAuthApiKey keeps of a refresh: the account stays that of the login.
KeepRefreshed(tokens, result) ==
  IF result = Throws THEN tokens
  ELSE [tokens EXCEPT !.access = result.access, !.refresh = result.refresh, !.expires = result.expires]
===============================================================================
