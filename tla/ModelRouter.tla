----------------------------- MODULE ModelRouter -----------------------------
(***************************************************************************)
(* Model calls (src/src/providers/router.ts): agents share one router, its  *)
(* provider instances, its health records and its sticky failover, and each *)
(* call walks a chain of candidates.  The key of a candidate is resolved    *)
(* through AuthStore.  A step runs from one await to the next, so that the  *)
(* walk from a failed candidate to the next fit one is part of one step.    *)
(***************************************************************************)
EXTENDS CandidatePlan, AuthStore

CONSTANTS
  ModelSpec, Key,  \* model specs and health keys
  Primary,         \* the spec the agents' roles are assigned
  Plan,            \* the configuration of the router, see CandidatePlan
  SpecOf,          \* SpecOf[k]: the spec of candidate k
  Instance,        \* Instance[k]: the provider instance that serves k
  OAuth,           \* the instances whose keys come from the profiles; the others' are static
  Blind,           \* the instances without image input
  Images,          \* the agents whose messages hold images
  Late,            \* the instances that await before they use the key they were given
  Forced,          \* Forced[a]: the auth profile agent a's route names, or None
  Window           \* bound: ticks for which a sticky failover hides the primary

ASSUME WindowAssumption == Window \in Nat
ASSUME SpecAssumption == SpecOf \in [Key -> ModelSpec]
ASSUME ForcedAssumption == Forced \in [Task -> Profile \cup {None}]
\* The planner returns a list of candidates, whatever the configuration.
ASSUME ChainAssumption ==
  \A first \in {<<>>} \cup {<<s>> : s \in ModelSpec} : BuildCandidateChain(Plan, Primary, first) \in Seq(Key)

VARIABLES
  chat,            \* what each agent's call does
  keyIn,           \* keyIn[i]: the profile whose key instance i was given last
  disabled,        \* the health keys in cooldown
  sticky           \* None, or the failover of Primary and the ticks until the primary is retried

routerVars == <<chat, keyIn, disabled, sticky>>
callVars == <<authVars, routerVars>>

Agent == Task
Quiet == [pc |-> "idle", chain |-> <<>>, tried |-> FALSE, mine |-> FALSE, sources |-> <<>>]

RouterTypeOK ==
  /\ AuthTypeOK
  /\ \A a \in Agent :
       /\ chat[a].pc \in {"idle", "resolve", "prepare", "call", "failed"}
       /\ chat[a].chain \in Seq(Key) /\ chat[a].sources \in Seq(Profile \cup {None})
       /\ {chat[a].tried, chat[a].mine} \subseteq BOOLEAN
       /\ chat[a].pc \in {"resolve", "prepare", "call"} => chat[a].chain # <<>>
  /\ keyIn \in [OAuth -> Profile \cup {None}]
  /\ disabled \subseteq Key
  /\ sticky = None \/ sticky \in [spec : ModelSpec, left : 0 .. Window]

RouterInit ==
  /\ AuthInit
  /\ chat = [a \in Agent |-> Quiet]
  /\ keyIn = [i \in OAuth |-> None]
  /\ disabled = {}   \* no health record yet
  /\ sticky = None

Current(a) == Head(chat[a].chain)

\* getForRequest: the provider's instance for the account of the candidate.
CalledInstance(a) == Instance[Current(a)]

StickyFirst == IF sticky # None /\ sticky.left > 0 THEN <<sticky.spec>> ELSE <<>>

\* getHealth: the record of k in the table, made if there is none.
Fetched(c) == [c EXCEPT !.mine = TRUE]

\* Passed over before a key is looked up: in cooldown, or images it cannot take.
Unfit(a, k, cooling) == k \in cooling \/ (a \in Images /\ Instance[k] \in Blind)

\* credential-resolver.ts: the forced profile, then the provider's first one.
Sources(a) == IF Forced[a] = None THEN <<None>> ELSE <<Forced[a], None>>

Attempted(c, k) == [c EXCEPT !.tried = @ \/ SpecOf[k] = Primary]

\* The call goes on to the first fit candidate of what is left of its chain,
\* fetches the candidate's health record, and waits for its key; an instance
\* with a static key is called at once.
GoOn(a, c, cooling) ==
  LET fit == {i \in DOMAIN c.chain : ~Unfit(a, c.chain[i], cooling)}
      reset == [c EXCEPT !.sources = <<>>, !.mine = FALSE]
  IN IF fit = {} THEN [reset EXCEPT !.pc = "failed", !.chain = <<>>]
     ELSE LET chain == SubSeq(c.chain, CHOOSE i \in fit : \A j \in fit : i <= j, Len(c.chain))
              k == Head(chain)
              there == Fetched([reset EXCEPT !.chain = chain])
          IN IF Instance[k] \in OAuth THEN [there EXCEPT !.pc = "resolve", !.sources = Tail(Sources(a))]
             ELSE [Attempted(there, k) EXCEPT !.pc = IF Instance[k] \in Late THEN "prepare" ELSE "call"]

Pass(c) == [c EXCEPT !.chain = Tail(@)]

\* chat' is known: what agent a's task with the profiles is then.
AskIfNeeded(a) ==
  IF chat'[a].pc = "resolve" THEN Request(a, Head(Sources(a))) ELSE TakeAnswer(a)

StartChat(a) ==
  /\ chat[a].pc = "idle"
  /\ LET chain == BuildCandidateChain(Plan, Primary, StickyFirst)
     IN chat' = [chat EXCEPT ![a] = GoOn(a, [Quiet EXCEPT !.chain = chain], disabled)]
  /\ AskIfNeeded(a)
  /\ UNCHANGED <<fileVars, keyIn, disabled, sticky>>

\* No key from this source: the next one.
NextSource(a) ==
  /\ chat[a].pc = "resolve" /\ At(a, "answered")
  /\ task[a].p = None /\ chat[a].sources # <<>>
  /\ Request(a, Head(chat[a].sources))
  /\ chat' = [chat EXCEPT ![a].sources = Tail(@)]
  /\ UNCHANGED <<fileVars, keyIn, disabled, sticky>>

\* Mutation: a client that has a key keeps it.
GiveKeyOnce(a, i) == IF keyIn[i] = None THEN task[a].p ELSE keyIn[i]

\* The shared instance is given the key, if there is one, and called.
GiveKey(a, i) == IF task[a].p = None THEN keyIn[i] ELSE task[a].p

Resolved(a) == chat[a].pc = "resolve" /\ At(a, "answered") /\ (task[a].p # None \/ chat[a].sources = <<>>)

Call(a) ==
  /\ Resolved(a)
  /\ LET i == CalledInstance(a)
         c == Attempted(chat[a], Current(a))
     IN /\ keyIn' = [keyIn EXCEPT ![i] = GiveKey(a, i)]
        /\ chat' = [chat EXCEPT ![a] = IF i \in Late THEN [c EXCEPT !.pc = "prepare"]
                                       ELSE [c EXCEPT !.pc = "call", !.sources = <<>>]]
  /\ TakeAnswer(a)
  /\ UNCHANGED <<fileVars, disabled, sticky>>

\* An instance that has seen a rate limit is passed over.
RateLimited(a) ==
  /\ Resolved(a)
  /\ LET i == CalledInstance(a) IN keyIn' = [keyIn EXCEPT ![i] = GiveKey(a, i)]
  /\ chat' = [chat EXCEPT ![a] = GoOn(a, Pass(@), disabled)]
  /\ AskIfNeeded(a)
  /\ UNCHANGED <<fileVars, disabled, sticky>>

\* Copilot fetches its model list first, then uses the key it has by then.
Dispatch(a) ==
  /\ chat[a].pc = "prepare"
  /\ chat' = [chat EXCEPT ![a].pc = "call", ![a].sources = <<>>]
  /\ UNCHANGED <<authVars, keyIn, disabled, sticky>>

\* Mutation: every answer of another spec starts the window again.
StickyAfterAlways(c, k) ==
  IF SpecOf[k] = Primary THEN None ELSE [spec |-> SpecOf[k], left |-> Window]

\* What an answer does to the sticky failover: the primary ends it, another
\* spec makes one if the primary was tried or there is none.
StickyAfter(c, k) ==
  CASE SpecOf[k] = Primary -> None
    [] SpecOf[k] # Primary /\ (c.tried \/ sticky = None) -> [spec |-> SpecOf[k], left |-> Window]
    [] OTHER -> sticky

\* Deleted health records: the calls that hold them go on with orphans.
Forget(keys, chats) ==
  [b \in Agent |-> [chats[b] EXCEPT !.mine = @ /\ Head(chats[b].chain) \notin keys]]

Success(a) ==
  /\ chat[a].pc = "call"
  /\ sticky' = StickyAfter(chat[a], Current(a))
  /\ disabled' = disabled \ {Current(a)}
  /\ chat' = Forget({Current(a)}, [chat EXCEPT ![a] = Quiet])
  /\ UNCHANGED <<authVars, keyIn>>

\* non_retryable and context_overflow leave the health alone.
NonRetryable(a) ==
  /\ chat[a].pc = "call"
  /\ chat' = [chat EXCEPT ![a] = Quiet]
  /\ UNCHANGED <<authVars, keyIn, disabled, sticky>>

\* Any other error and the timeout: the record fetched before the call takes
\* the failure.
Failure(a) ==
  /\ chat[a].pc = "call"
  /\ disabled' = IF chat[a].mine THEN disabled \cup {Current(a)} ELSE disabled
  /\ chat' = [chat EXCEPT ![a] = GoOn(a, Pass(@), disabled')]
  /\ AskIfNeeded(a)
  /\ UNCHANGED <<fileVars, keyIn, sticky>>

\* All candidates failed.  The agent's retry may clear the health of the
\* chain before it calls again (agents/base.ts).
Retry(a) ==
  /\ chat[a].pc = "failed"
  /\ \E reset \in BOOLEAN :
       LET keys == IF reset THEN ToSet(BuildCandidateChain(Plan, Primary, StickyFirst)) ELSE {}
       IN /\ disabled' = disabled \ keys
          /\ chat' = Forget(keys, [chat EXCEPT ![a] = Quiet])
  /\ UNCHANGED <<authVars, keyIn, sticky>>

\* Time: cooldowns end, the sticky window closes.
Cool(k) ==
  /\ k \in disabled
  /\ disabled' = disabled \ {k}
  /\ UNCHANGED <<authVars, chat, keyIn, sticky>>

Tick ==
  /\ sticky # None /\ sticky.left > 0
  /\ sticky' = [sticky EXCEPT !.left = @ - 1]
  /\ UNCHANGED <<authVars, chat, keyIn, disabled>>

Proceed(a) ==
  \/ NextSource(a) \/ Call(a) \/ RateLimited(a) \/ Dispatch(a)
  \/ Success(a) \/ NonRetryable(a) \/ Failure(a) \/ Retry(a)

KeyStep(a) == TaskStep(a) /\ UNCHANGED routerVars

RouterNext ==
  \/ \E a \in Agent : StartChat(a) \/ Proceed(a) \/ KeyStep(a)
  \/ Outside /\ UNCHANGED routerVars
  \/ (\E k \in Key : Cool(k)) \/ Tick

\* Model calls are bounded by the request timeout, files and locks by theirs;
\* cooldowns and windows are times.
RouterFairness ==
  /\ \A a \in Agent : WF_callVars(Proceed(a)) /\ WF_callVars(KeyStep(a))
  /\ \A k \in Key : WF_callVars(Cool(k))
  /\ WF_callVars(Tick)

RouterSpec == RouterInit /\ [][RouterNext]_callVars /\ RouterFairness
-----------------------------------------------------------------------------
\* A request goes out with the key its instance holds: that of the forced
\* profile whenever there is one, whoever used the instance in between.  An
\* instance of Late, as Copilot's, is excepted: others may give it their keys
\* while it awaits (Dispatch).
ForcedProfileIsUsed ==
  [][\A a \in Agent :
       /\ chat[a].pc = "resolve" /\ Len(chat[a].sources) = 1 /\ CalledInstance(a) \notin Late
       /\ chat'[a].pc = "call" /\ chat'[a].chain = chat[a].chain
       => keyIn'[CalledInstance(a)] = Forced[a]]_callVars

\* An agent that keeps calling comes back to its primary model, however well
\* the sticky failover serves it.
PrimaryComesUpAgain ==
  \A a \in Agent :
    []<>(chat[a].pc = "idle") /\ []<>(chat[a].pc # "idle")
    => []<>(\E b \in Agent : chat[b].pc \in {"resolve", "call"} /\ SpecOf[Current(b)] = Primary)

=============================================================================
