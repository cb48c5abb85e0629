--------------------------------- MODULE Chat ---------------------------------
(***************************************************************************)
(* Chat sessions: the agent of a channel with its queue of user messages    *)
(* (src/src/agents/chat.ts), the sessions of the web server and of the      *)
(* Telegram bot (server/chat-command-service.ts, server/telegram-bot.ts),   *)
(* the channels' buffers (channels) and the event bus (events/bus.ts).      *)
(* A behaviour has either web sockets or one Telegram chat.  A step is what *)
(* runs between two awaits.                                                 *)
(***************************************************************************)
EXTENDS Naturals, Sequences, Functions

CONSTANTS
  Agent,       \* chat agents alive at one time
  Msg,         \* user messages under way at one time
  NoSession,   \* the bot has no session of the chat
  MaxPending   \* MAX_PENDING_MESSAGES

ASSUME MaxPendingAssumption == MaxPending \in Nat \ {0}
ASSUME SessionAssumption == NoSession \notin Agent

VARIABLES
  channel,  \* "web" or "telegram"
  agent,    \* agent[a]: a ChatAgent, its channel and its promise chain
  bus,      \* the agents behind the subscriptions of the event bus
  pub,      \* the publication its publisher awaits, and the handlers it awaits
  bot,      \* what the Telegram bot does, and the update it does it for
  session,  \* the bot's session of the chat
  stored,   \* is the chat in the file of subscriptions?
  unheard   \* has the chat's session failed to start, and none been made since?

telegram == <<bot, session, stored, unheard>>
chatVars == <<channel, agent, bus, pub, telegram>>

Phases == {"none", "creating", "starting", "listening", "ended"}
Steps == {"idle", "working", "replying"}
Commands == {"subscribe", "unsubscribe"}

NoAgent == [phase |-> "none", open |-> FALSE, early |-> <<>>, queue |-> <<>>, step |-> "idle"]
Bot(at, on) == [at |-> at, on |-> on]
NoPub == [out |-> FALSE, awaits |-> {}]

ChatInit ==
  /\ channel \in {"web", "telegram"}
  /\ agent = [a \in Agent |-> NoAgent]
  /\ bus = {} /\ pub = NoPub
  /\ bot = Bot("off", "none") /\ session = NoSession /\ stored = FALSE /\ unheard = FALSE

-----------------------------------------------------------------------------
(* The agent *)

Least(i, j) == IF i < j THEN i ELSE j

\* A message finds the chain full and is refused, or joins it.
Accept(x, m) == IF Len(x.queue) >= MaxPending THEN x ELSE [x EXCEPT !.queue = Append(@, m)]

Unused(m) ==
  /\ bot.on # m
  /\ \A a \in Agent : m \notin Range(agent[a].early) \cup Range(agent[a].queue)

\* The constructor subscribes.  A Telegram chat has one subscription id for all
\* its sessions: the newest takes it over.
Subscribe(a) == bus' = IF channel = "web" THEN bus \cup {a} ELSE {a}

\* The closing of a channel: once `run` listens, the agent unsubscribes, by id,
\* and ends; its chain goes on.
Closed(x) ==
  IF x.phase # "listening" THEN [x EXCEPT !.open = FALSE]
  ELSE IF x.queue = <<>> THEN NoAgent
  ELSE [x EXCEPT !.phase = "ended", !.open = FALSE]

Unsubscribe(a) ==
  bus' = IF agent[a].phase # "listening" THEN bus
         ELSE IF channel = "web" THEN bus \ {a} ELSE {}

\* `run` has its directory and registers its handlers; a Telegram channel hands
\* over what it has buffered, and what the queue has no room for is refused.
Listen(a) ==
  /\ agent[a].phase = "starting"
  /\ agent' = [agent EXCEPT ![a] =
       [@ EXCEPT !.phase = "listening", !.early = <<>>,
                 !.queue = SubSeq(agent[a].early, 1, Least(MaxPending, Len(agent[a].early)))]]
  /\ UNCHANGED <<channel, bus, pub, telegram>>

\* `run` has no directory: it unsubscribes, by id, and ends before it registers
\* a handler.  The bot then drops the session of the chat, whichever it is; the
\* chat stays in the file of subscriptions.
RunFails(a) ==
  /\ agent[a].phase = "starting"
  /\ agent' = [agent EXCEPT ![a] = NoAgent]
  /\ bus' = IF channel = "web" THEN bus \ {a} ELSE {}
  /\ session' = NoSession
  /\ unheard' = (unheard \/ (stored /\ session # NoSession))
  /\ UNCHANGED <<channel, pub, bot, stored>>

\* The head of the chain has been handled.
Handled(x) ==
  IF x.phase = "ended" /\ Len(x.queue) = 1 THEN NoAgent
  ELSE [x EXCEPT !.queue = Tail(@), !.step = "idle"]

\* Mutation: a closed channel stops the chain.
HandleWhileOpen(a) ==
  LET x == agent[a]
      Goes(step) == [x EXCEPT !.step = step]
  IN /\ x.queue # <<>> /\ x.open
     /\ agent' = [agent EXCEPT ![a] = CASE x.step = "idle" -> Goes("working")
                                        [] x.step = "working" -> Goes("replying")
                                        [] OTHER -> Handled(x)]
     /\ UNCHANGED <<channel, bus, pub, telegram>>

\* handleUserMessage: a command or the model's turn, the reply, the log.
Handle(a) ==
  LET x == agent[a]
      Goes(step) == [x EXCEPT !.step = step]
  IN /\ x.queue # <<>>
     /\ agent' = [agent EXCEPT ![a] = CASE x.step = "idle" -> Goes("working")
                                        [] x.step = "working" -> Goes("replying")
                                        [] OTHER -> Handled(x)]
     /\ UNCHANGED <<channel, bus, pub, telegram>>

\* A failure is logged, and the chain goes on.
HandlingFails(a) ==
  /\ agent[a].step \in {"working", "replying"}
  /\ agent' = [agent EXCEPT ![a] = Handled(agent[a])]
  /\ UNCHANGED <<channel, bus, pub, telegram>>

-----------------------------------------------------------------------------
(* The event bus *)

\* Those whose filter lets the event pass get it at once and side by side.
Publish ==
  /\ ~pub.out
  /\ \E awaits \in SUBSET bus : pub' = [out |-> TRUE, awaits |-> awaits]
  /\ UNCHANGED <<channel, agent, bus, telegram>>

\* handleEvent has sent and saved, or failed.
Delivered(a) ==
  /\ a \in pub.awaits
  /\ pub' = [pub EXCEPT !.awaits = @ \ {a}]
  /\ UNCHANGED <<channel, agent, bus, telegram>>

\* Mutation: deliveries are awaited without a limit.
DeliveryTimesOutNever(a) == FALSE /\ UNCHANGED chatVars

DeliveryTimesOut(a) ==
  /\ a \in pub.awaits
  /\ pub' = [pub EXCEPT !.awaits = @ \ {a}]
  /\ UNCHANGED <<channel, agent, bus, telegram>>

PublishReturns ==
  /\ pub.out /\ pub.awaits = {}
  /\ pub' = NoPub
  /\ UNCHANGED <<channel, agent, bus, telegram>>

-----------------------------------------------------------------------------
(* Web sockets *)

Connect(a) ==
  /\ channel = "web" /\ agent[a].phase = "none"
  /\ agent' = [agent EXCEPT ![a] = [NoAgent EXCEPT !.phase = "creating", !.open = TRUE]]
  /\ UNCHANGED <<channel, bus, pub, telegram>>

\* ChatAgent.create returns, also after the socket has closed.
StartWebSocketChat(a) ==
  /\ agent[a].phase = "creating"
  /\ agent' = [agent EXCEPT ![a].phase = "starting"]
  /\ Subscribe(a)
  /\ UNCHANGED <<channel, pub, telegram>>

WebSocketChatFails(a) ==
  /\ agent[a].phase = "creating"
  /\ agent' = [agent EXCEPT ![a] = NoAgent]
  /\ UNCHANGED <<channel, bus, pub, telegram>>

\* A frame that finds no handler is dropped.
FrameArrives(a, m) ==
  /\ channel = "web" /\ agent[a].phase = "listening" /\ agent[a].open
  /\ Unused(m)
  /\ agent' = [agent EXCEPT ![a] = Accept(@, m)]
  /\ UNCHANGED <<channel, bus, pub, telegram>>

\* Mutation: closing one socket drops the subscriptions of all.
SocketClosesForAll(a) ==
  /\ channel = "web" /\ agent[a].open
  /\ agent' = [agent EXCEPT ![a] = Closed(@)]
  /\ bus' = IF agent[a].phase = "listening" THEN {} ELSE bus
  /\ UNCHANGED <<channel, pub, telegram>>

SocketCloses(a) ==
  /\ channel = "web" /\ agent[a].open
  /\ agent' = [agent EXCEPT ![a] = Closed(@)]
  /\ Unsubscribe(a)
  /\ UNCHANGED <<channel, pub, telegram>>

-----------------------------------------------------------------------------
(* The Telegram bot: updates are handled one after the other. *)

BotGoes(at) == bot' = [bot EXCEPT !.at = at]
BotIdles == bot' = Bot("idle", "none")

\* A text goes to the session there is, or waits for a new one.
TextArrives(m) ==
  /\ bot.at = "idle" /\ Unused(m)
  /\ IF session = NoSession
       THEN bot' = Bot("creating", m) /\ UNCHANGED agent
       ELSE /\ agent' = IF agent[session].phase = "starting"
                       THEN [agent EXCEPT ![session].early = Append(@, m)]
                       ELSE [agent EXCEPT ![session] = Accept(@, m)]
            /\ UNCHANGED bot
  /\ UNCHANGED <<channel, bus, pub, session, stored, unheard>>

CommandArrives(u) ==
  /\ bot.at = "idle"
  /\ bot' = Bot("reading", u)
  /\ UNCHANGED <<channel, agent, bus, pub, session, stored, unheard>>

\* At boot a stored chat whose user is still allowed gets its session back.
ReadSubs ==
  /\ bot.at = "reading"
  /\ \/ bot.on = "subscribe" /\ BotGoes(IF stored THEN "replying" ELSE "writing")
     \/ bot.on = "unsubscribe" /\ BotGoes(IF stored THEN "writing" ELSE "replying")
     \/ bot.on = "boot" /\ stored /\ BotGoes("creating")
     \/ bot.on = "boot" /\ stored /\ BotGoes("writing")
     \/ bot.on = "boot" /\ ~stored /\ BotIdles
  /\ UNCHANGED <<channel, agent, bus, pub, session, stored, unheard>>

CloseSession ==
  IF session = NoSession THEN UNCHANGED <<agent, bus>>
  ELSE agent' = [agent EXCEPT ![session] = Closed(@)] /\ Unsubscribe(session)

WriteSubs ==
  /\ bot.at = "writing"
  /\ stored' = (bot.on = "subscribe")
  /\ \/ /\ bot.on = "subscribe"
        /\ BotGoes(IF session = NoSession THEN "creating" ELSE "replying")
        /\ UNCHANGED <<agent, bus, session, unheard>>
     \/ /\ bot.on = "unsubscribe"
        /\ BotGoes("replying") /\ CloseSession
        /\ session' = NoSession /\ unheard' = FALSE
     \/ /\ bot.on = "boot"
        /\ BotIdles
        /\ UNCHANGED <<agent, bus, session, unheard>>
  /\ UNCHANGED <<channel, pub>>

\* The bot's catch logs the failure of an update; at boot the bot does not start.
WriteSubsFails ==
  /\ bot.at = "writing"
  /\ bot' = IF bot.on = "boot" THEN Bot("failed", "none") ELSE Bot("idle", "none")
  /\ UNCHANGED <<channel, agent, bus, pub, session, stored, unheard>>

\* getOrCreateSession: the agent is made, subscribed and run.
CreateSession(a) ==
  /\ bot.at = "creating" /\ agent[a].phase = "none"
  /\ agent' = [agent EXCEPT ![a] =
       [NoAgent EXCEPT !.phase = "starting", !.open = TRUE,
                       !.early = IF bot.on \in Msg THEN <<bot.on>> ELSE <<>>]]
  /\ Subscribe(a)
  /\ session' = a /\ unheard' = FALSE
  /\ IF bot.on = "subscribe" THEN BotGoes("replying") ELSE BotIdles
  /\ UNCHANGED <<channel, pub, stored>>

CreationFails ==
  /\ bot.at = "creating"
  /\ bot' = IF bot.on = "boot" THEN Bot("failed", "none") ELSE Bot("idle", "none")
  /\ unheard' = (unheard \/ bot.on = "subscribe")
  /\ UNCHANGED <<channel, agent, bus, pub, session, stored>>

\* The reply is sent, or that fails.
Reply ==
  /\ bot.at = "replying"
  /\ BotIdles
  /\ UNCHANGED <<channel, agent, bus, pub, session, stored, unheard>>

\* `stop` closes every session.
StopBot ==
  /\ bot.at = "idle"
  /\ bot' = Bot("stopped", "none") /\ CloseSession /\ session' = NoSession
  /\ UNCHANGED <<channel, pub, stored, unheard>>

-----------------------------------------------------------------------------
(* The process *)

StartTelegramBot ==
  /\ channel = "telegram" /\ bot.at = "off"
  /\ bot' = Bot("reading", "boot")
  /\ UNCHANGED <<channel, agent, bus, pub, session, stored, unheard>>

\* The process ends: by a signal, a kill or an exit.
Exit ==
  /\ agent' = [a \in Agent |-> NoAgent]
  /\ bus' = {} /\ pub' = NoPub
  /\ bot' = Bot("off", "none") /\ session' = NoSession /\ unheard' = FALSE
  /\ UNCHANGED <<channel, stored>>

-----------------------------------------------------------------------------
AgentStep(a) == Listen(a) \/ Handle(a)

WebStep(a) ==
  \/ Connect(a) \/ StartWebSocketChat(a) \/ WebSocketChatFails(a) \/ SocketCloses(a)
  \/ \E m \in Msg : FrameArrives(a, m)

BotStep ==
  \/ \E m \in Msg : TextArrives(m)
  \/ \E u \in Commands : CommandArrives(u)
  \/ ReadSubs \/ WriteSubs \/ WriteSubsFails \/ CreationFails \/ Reply \/ StopBot
  \/ \E a \in Agent : CreateSession(a)

ChatNext ==
  \/ \E a \in Agent : AgentStep(a) \/ RunFails(a) \/ HandlingFails(a) \/ WebStep(a)
                      \/ Delivered(a) \/ DeliveryTimesOut(a)
  \/ Publish \/ PublishReturns \/ BotStep \/ StartTelegramBot \/ Exit

\* Awaited operations of a message settle: the model call has its own timeouts
\* and a send or a write fails or succeeds.  Of an event's delivery only the
\* bus's timer is relied on.
Fairness ==
  /\ \A a \in Agent : WF_chatVars(AgentStep(a)) /\ WF_chatVars(DeliveryTimesOut(a))
  /\ WF_chatVars(PublishReturns)

ChatSpec == ChatInit /\ [][ChatNext]_chatVars /\ Fairness

-----------------------------------------------------------------------------
(* Properties *)

\* Types, and the shape of a session.
ChatTypeOK ==
  /\ channel \in {"web", "telegram"}
  /\ \A a \in Agent :
       /\ agent[a].phase \in Phases /\ agent[a].open \in BOOLEAN /\ agent[a].step \in Steps
       /\ agent[a].queue \in Seq(Msg) /\ agent[a].early \in Seq(Msg)
  /\ bus \subseteq Agent /\ pub.out \in BOOLEAN /\ pub.awaits \subseteq Agent
  /\ bot.on \in Msg \cup Commands \cup {"none", "boot"}
  /\ session \in Agent \cup {NoSession} /\ stored \in BOOLEAN /\ unheard \in BOOLEAN

\* Whoever has asked for notifications gets them: an open web session and the
\* session of a Telegram chat are behind a subscription of the bus, the bus
\* holds no agent that has ended, and a chat in the file of subscriptions has a
\* session whenever the bot waits for updates, after restarts and failed
\* writes too.  Excepted is a chat whose session failed to start, in its making
\* or in its run: though in the file, and told so, it hears nothing until a text
\* of its user or a restart makes it a session ("Already subscribed." does not).
ChatsHearEvents ==
  /\ \A a \in bus : agent[a].phase \in {"starting", "listening"}
  /\ \A a \in Agent : channel = "web" /\ agent[a].phase = "listening" => a \in bus
  /\ session # NoSession => session \in bus /\ agent[session].open
  /\ bot.at = "idle" /\ stored /\ ~unheard => session # NoSession

Waits(m) == \E a \in Agent : m \in Range(agent[a].queue)

\* A message taken into the queue is handled, whatever became of those before
\* it and of its channel, unless the process ends.
AcceptedAreHandled ==
  \A m \in Msg : Waits(m) ~> ~Waits(m)

\* A subscriber that never answers does not hold up who publishes.
PublishersGoOn == pub.out ~> ~pub.out
=============================================================================
