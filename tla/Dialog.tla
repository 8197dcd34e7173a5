------------------------------- MODULE Dialog -------------------------------
(***************************************************************************)
(* How one chat fills in a support request: the service, the questions of  *)
(* its script and the confirmation (bot/fsm.go and the dialog of           *)
(* bot/handlers.go), with Telegram delivering the client's messages and    *)
(* button presses in order until it gets a 200, the deduplication of       *)
(* redelivered updates, and the chat lock.  What happens once the request  *)
(* is confirmed is TicketLifecycle's.                                      *)
(*                                                                         *)
(* A text is the prompt its author had on the screen, an option its index; *)
(* QuestionIndex is one less than the next question, that is the number of *)
(* answers: the code changes the two together.                             *)
(***************************************************************************)
EXTENDS Naturals, Sequences, FiniteSets

CONSTANTS
    Handlers,       \* goroutines of the webhook
    Services,
    Script,         \* of each service: how many options each question has
    MaxStrays,      \* how often the client presses an old button, or sends /start (a bound)
    MaxFaults,      \* how many kinds of Env happen in a behaviour (a bound)
    Env,            \* what may happen, each once: a subset of EnvEvents
    Yes, Restart,   \* the buttons of the confirmation
    NoService, NoConversation, Nobody

\* redelivery: an update comes again while it is being handled
\* crash:      the process stops and starts again
\* redis:      a command fails;  telegram: a prompt is not sent
\* expiry:     the 24h of the conversation run out
\* hurry:      the client writes without waiting, or presses an old option
EnvEvents == {"redelivery", "crash", "redis", "telegram", "expiry", "hurry"}

ASSUME NullAssumption == NoService \notin Services /\ Nobody \notin Handlers
ASSUME ScriptAssumption == Script \in [Services -> Seq(Nat)]
ASSUME BoundsAssumption == MaxStrays \in Nat /\ MaxFaults \in Nat /\ Env \subseteq EnvEvents

Asking(a, s, i) == [ask |-> a, service |-> s, index |-> i]
Nothing  == Asking("nothing", NoService, 0)
ChooseService == Asking("service", NoService, 0)
Confirmation  == Asking("confirm", NoService, 0)
Question(s, i) == Asking("question", s, i)
Questions == UNION {{Question(s, i) : i \in DOMAIN Script[s]} : s \in Services}
Prompts   == {Nothing, ChooseService, Confirmation} \cup Questions

OptionsOf(p) == IF p \in Questions THEN Script[p.service][p.index] ELSE 0

Ids == 1..3     \* update ids, used again once an update is forgotten

VARIABLES
    saved,      \* fsm:{chat}
    marked,     \* tg_update:{id}
    open,       \* the chat has a request or a ticket on its way
    inbox,      \* the updates Telegram has no 200 for
    pc, update, conv, \* each handler's place, update and Conversation
    lock,       \* the holder of the chat lock
    shown,      \* the last prompt the client has got
    buttons,    \* the prompts with a keyboard on the client's screen
    \* bounds and history
    strays, happened,
    used,       \* how many answers each update has become
    request     \* the answers of the last request

client  == <<shown, buttons, strays>>
handler == <<pc, update, conv, lock>>
vars    == <<saved, marked, open, inbox, handler, client, happened, used, request>>

NoUpdate == [id |-> 0, kind |-> "none", on |-> Nothing, choice |-> 0, file |-> FALSE]
Updates  == [id : Ids, kind : {"text", "start", "press"}, on : Prompts,
             choice : Nat \cup Services \cup {Yes, Restart}, file : BOOLEAN]
States   == {"idle", "awaiting_service", "asking_questions", "confirming", "ticket_open"}
Answer   == [meant : Prompts, file : BOOLEAN]

Conversation(state, service, answers, files) ==
    [state |-> state, service |-> service, answers |-> answers, files |-> files]
Idle == Conversation("idle", NoService, <<>>, 0)

IsConversation(c) ==
    /\ c.state \in States
    /\ c.service \in Services \cup {NoService}
    /\ c.answers \in Seq(Answer)
    /\ c.service \in Services => Len(c.answers) <= Len(Script[c.service])
    /\ c.files \in Nat

TypeOK ==
    /\ saved = NoConversation \/ IsConversation(saved)
    /\ marked \subseteq Ids
    /\ open \in BOOLEAN
    /\ \A k \in DOMAIN inbox : inbox[k] \in Updates
    /\ pc \in [Handlers -> {"free", "mark", "lock", "decide", "save_last", "save", "send",
                            "save_open", "create"}]
    /\ \A h \in Handlers : update[h] \in Updates \cup {NoUpdate} /\ IsConversation(conv[h])
    /\ lock \in Handlers \cup {Nobody}
    /\ shown \in Prompts /\ buttons \subseteq Prompts
    /\ strays \in 0..MaxStrays /\ happened \subseteq EnvEvents \cup {"overtaking"}
    /\ used \in [Ids -> Nat]
    /\ request = NoConversation \/ IsConversation(request)

Init ==
    /\ saved = NoConversation /\ marked = {} /\ open = FALSE
    /\ inbox = <<>>
    /\ pc = [h \in Handlers |-> "free"]
    /\ update = [h \in Handlers |-> NoUpdate]
    /\ conv = [h \in Handlers |-> Idle]
    /\ lock = Nobody
    /\ shown = Nothing /\ buttons = {} /\ strays = 0
    /\ happened = {}
    /\ used = [i \in Ids |-> 0]
    /\ request = NoConversation

Event(e) ==
    /\ e \in Env \ happened
    /\ Cardinality(happened) < MaxFaults
    /\ happened' = happened \cup {e}

Goto(h, place) == pc' = [pc EXCEPT ![h] = place]

-----------------------------------------------------------------------------
(* The client *)

InUse == {inbox[k].id : k \in DOMAIN inbox} \cup {update[h].id : h \in Handlers}
FreeId == CHOOSE i \in Ids \ InUse : TRUE

Post(kind, on, choice, file) ==
    /\ Len(inbox) < 2 /\ Ids \ InUse # {}
    /\ inbox' = Append(inbox, [id |-> FreeId, kind |-> kind, on |-> on,
                               choice |-> choice, file |-> file])
    /\ marked' = marked \ {FreeId}
    /\ used' = [used EXCEPT ![FreeId] = 0]
    /\ UNCHANGED <<saved, open, handler, shown, buttons, request>>

Choices(p) ==
    CASE p = ChooseService -> Services
      [] p = Confirmation  -> {Yes, Restart}
      [] OTHER             -> 1..OptionsOf(p)

\* The client waits for the bot before the next answer.
Quiet == inbox = <<>> /\ \A h \in Handlers : pc[h] = "free"

Type ==
    /\ Quiet
    /\ \E file \in BOOLEAN : Post("text", shown, 0, file)
    /\ UNCHANGED <<strays, happened>>

Press ==
    /\ Quiet
    /\ \E choice \in Choices(shown) \ {Restart} : Post("press", shown, choice, FALSE)
    /\ UNCHANGED <<strays, happened>>

Stray ==
    /\ strays < MaxStrays
    /\ strays' = strays + 1
    /\ \/ Post("start", Nothing, 0, FALSE)
       \/ \E p \in buttons \ Questions : \E choice \in Choices(p) : Post("press", p, choice, FALSE)
    /\ UNCHANGED happened

Hurry ==
    /\ Event("hurry")
    /\ \/ Post("text", shown, 0, FALSE)
       \/ \E p \in buttons \cap Questions : \E choice \in Choices(p) : Post("press", p, choice, FALSE)
    /\ UNCHANGED strays

-----------------------------------------------------------------------------
(* handleUpdate, up to the chat lock *)

\* Telegram sends the oldest update, and after a while sends it again.
Deliver(h) ==
    /\ pc[h] = "free" /\ inbox # <<>>
    /\ IF \E g \in Handlers : update[g].id = Head(inbox).id
       THEN Event("redelivery")
       ELSE UNCHANGED happened
    /\ update' = [update EXCEPT ![h] = Head(inbox)]
    /\ Goto(h, "mark")
    /\ UNCHANGED <<saved, marked, open, inbox, conv, lock, client, used, request>>

\* The handler returns: its deferred unlock, and the 200.
Return(h) ==
    /\ Goto(h, "free")
    /\ update' = [update EXCEPT ![h] = NoUpdate]
    /\ conv' = [conv EXCEPT ![h] = Idle]
    /\ lock' = IF lock = h THEN Nobody ELSE lock
    /\ inbox' = IF inbox # <<>> /\ Head(inbox).id = update[h].id THEN Tail(inbox) ELSE inbox

\* MarkUpdateProcessed; an update whose check fails is taken for a new one.
MarkNever(h) ==
    /\ pc[h] = "mark"
    /\ Goto(h, "lock")
    /\ UNCHANGED <<marked, update, conv, lock, inbox, happened, saved, open, client, used, request>>
Mark(h) ==
    /\ pc[h] = "mark"
    /\ \/ /\ update[h].id \notin marked
          /\ marked' = marked \cup {update[h].id}
          /\ Goto(h, "lock")
          /\ UNCHANGED <<update, conv, lock, inbox, happened>>
       \/ /\ update[h].id \in marked
          /\ Return(h)
          /\ UNCHANGED <<marked, happened>>
       \/ /\ Event("redis")
          /\ marked' \in {marked, marked \cup {update[h].id}}
          /\ Goto(h, "lock")
          /\ UNCHANGED <<update, conv, lock, inbox>>
    /\ UNCHANGED <<saved, open, client, used, request>>

\* An earlier update is still waiting: its 200 was that of a redelivery.
Overtakes(h) ==
    \E g \in Handlers : /\ pc[g] = "lock" /\ update[g].id # update[h].id
                        /\ \A k \in DOMAIN inbox : inbox[k].id # update[g].id

\* loadConversation under the chat lock (Authorize, before it, is Registry's).
Load(h) ==
    /\ pc[h] = "lock" /\ lock = Nobody
    /\ lock' = h
    /\ conv' = [conv EXCEPT ![h] =
                  IF saved # NoConversation THEN saved
                  ELSE [Idle EXCEPT !.state = IF open THEN "ticket_open" ELSE "idle"]]
    /\ Goto(h, "decide")
    /\ happened' = IF Overtakes(h) THEN happened \cup {"overtaking"} ELSE happened
    /\ UNCHANGED <<saved, marked, open, inbox, update, client, used, request>>

LoadFails(h) ==
    /\ pc[h] = "lock" /\ lock = Nobody
    /\ Event("redis")
    /\ Return(h)
    /\ UNCHANGED <<saved, marked, open, client, used, request>>

-----------------------------------------------------------------------------
(* handleMessage and handleCallback *)

State(h) == conv[h].state
Script_(h) == Script[conv[h].service]

\* currentQuestion
Current(h) == Question(conv[h].service, Len(conv[h].answers) + 1)
HasOneMore(h) == Len(conv[h].answers) <= Len(Script_(h))
HasCurrent(h) == Len(conv[h].answers) < Len(Script_(h))

IsText(h) == pc[h] = "decide" /\ update[h].kind = "text"
Pressed(h, ask) == pc[h] = "decide" /\ update[h].kind = "press" /\ update[h].on.ask = ask

Decide(h, c, place) ==
    /\ conv' = [conv EXCEPT ![h] = c]
    /\ Goto(h, place)
    /\ UNCHANGED <<saved, marked, open, inbox, update, lock, client, happened, request>>

\* startFlow: at /start, a first message, or Restart.
Starts(h) ==
    \/ pc[h] = "decide" /\ update[h].kind = "start" /\ State(h) # "ticket_open"
    \/ IsText(h) /\ State(h) = "idle"
    \/ Pressed(h, "confirm") /\ State(h) = "confirming" /\ update[h].choice = Restart

StartFlow(h) ==
    /\ Starts(h)
    /\ Decide(h, Conversation("awaiting_service", NoService, <<>>, 0), "save")
    /\ UNCHANGED used

Selects(h) == Pressed(h, "service") /\ State(h) = "awaiting_service"

SelectService(h) ==
    /\ Selects(h)
    /\ Decide(h, Conversation("asking_questions", update[h].choice, <<>>, 0), "save")
    /\ UNCHANGED used

\* recordAnswer and advanceAfterAnswer: the answer is saved, and again with
\* the next state after the last one.  Past the last question, where a stop
\* between the two saves leaves the chat, any text leads on.
RecordWhenAsked(h, file) ==
    LET with == [conv[h] EXCEPT !.answers = Append(@, [meant |-> update[h].on, file |-> file]),
                                !.files = IF file THEN @ + 1 ELSE @]
    IN  IF HasCurrent(h)
        THEN /\ Decide(h, with, IF Len(with.answers) < Len(Script_(h)) THEN "save" ELSE "save_last")
             /\ used' = [used EXCEPT ![update[h].id] = @ + 1]
        ELSE Decide(h, conv[h], "send") /\ UNCHANGED used
Record(h, file) ==
    LET c == [conv[h] EXCEPT !.files = IF file THEN @ + 1 ELSE @]
        with == [c EXCEPT !.answers = Append(@, [meant |-> update[h].on, file |-> file])]
    IN  IF HasCurrent(h)
        THEN /\ Decide(h, with, IF Len(with.answers) < Len(Script_(h)) THEN "save" ELSE "save_last")
             /\ used' = [used EXCEPT ![update[h].id] = @ + 1]
        ELSE Decide(h, c, "save_last") /\ UNCHANGED used

AnswersText(h) == IsText(h) /\ State(h) = "asking_questions"

AnswerText(h) == AnswersText(h) /\ Record(h, update[h].file)

\* The button names an option, not its question.
AnswersOption(h) ==
    /\ Pressed(h, "question") /\ State(h) = "asking_questions"
    /\ HasCurrent(h) /\ update[h].choice <= OptionsOf(Current(h))

AnswerOption(h) == AnswersOption(h) /\ Record(h, FALSE)

ConfirmsAnyTime(h) == Pressed(h, "confirm") /\ update[h].choice = Yes
Confirms(h) == Pressed(h, "confirm") /\ State(h) = "confirming" /\ update[h].choice = Yes

Confirm(h) ==
    /\ Confirms(h)
    /\ Decide(h, [conv[h] EXCEPT !.state = "ticket_open"], "save_open")
    /\ UNCHANGED used

Reprompts(h) == IsText(h) /\ State(h) \in {"awaiting_service", "confirming"}

Reprompt(h) == Reprompts(h) /\ Decide(h, conv[h], "send") /\ UNCHANGED used

\* Stale buttons, and what is said while a ticket is open.
Ignore(h) ==
    /\ pc[h] = "decide"
    /\ ~(Starts(h) \/ Selects(h) \/ AnswersText(h) \/ AnswersOption(h) \/ Confirms(h) \/ Reprompts(h))
    /\ Return(h)
    /\ UNCHANGED <<saved, marked, open, client, happened, used, request>>

-----------------------------------------------------------------------------
(* Saving, submitting and prompting *)

\* SetFSM, whose error is only logged.
SetFSM(h) ==
    \/ saved' = conv[h] /\ UNCHANGED happened
    \/ Event("redis") /\ UNCHANGED saved

SaveLast(h) ==
    /\ pc[h] = "save_last"
    /\ SetFSM(h)
    /\ conv' = [conv EXCEPT ![h].state = "confirming"]
    /\ Goto(h, "save")
    /\ UNCHANGED <<marked, open, inbox, update, lock, client, used, request>>

Save(h) ==
    /\ pc[h] \in {"save", "save_open"}
    /\ SetFSM(h)
    /\ Goto(h, IF pc[h] = "save" THEN "send" ELSE "create")
    /\ UNCHANGED <<marked, open, inbox, update, conv, lock, client, used, request>>

\* finalizeTicket creates the ticket or queues the request; if neither can be
\* done the chat goes back to the confirmation.
Create(h) ==
    /\ pc[h] = "create"
    /\ open' = TRUE
    /\ request' = conv[h]
    /\ Return(h)
    /\ UNCHANGED <<saved, marked, client, happened, used>>

CreateFails(h) ==
    /\ pc[h] = "create"
    /\ Event("redis")
    /\ conv' = [conv EXCEPT ![h].state = "confirming"]
    /\ Goto(h, "save")
    /\ UNCHANGED <<saved, marked, open, inbox, update, lock, client, used, request>>

\* serviceKeyboard, askCurrentQuestion or confirmationSummary.
PromptOf(h) ==
    CASE State(h) = "awaiting_service" -> ChooseService
      [] State(h) = "confirming" -> Confirmation
      [] State(h) = "asking_questions" -> IF HasCurrent(h) THEN Current(h) ELSE Nothing

Send(h) ==
    /\ pc[h] = "send"
    /\ \/ /\ PromptOf(h) # Nothing
          /\ shown' = PromptOf(h)
          /\ buttons' = IF Choices(PromptOf(h)) = {} THEN buttons ELSE buttons \cup {PromptOf(h)}
          /\ UNCHANGED happened
       \/ PromptOf(h) = Nothing /\ UNCHANGED <<shown, buttons, happened>>
       \/ Event("telegram") /\ UNCHANGED <<shown, buttons>>
    /\ Return(h)
    /\ UNCHANGED <<saved, marked, open, strays, used, request>>

-----------------------------------------------------------------------------
(* The environment *)

CrashForgets ==
    /\ Event("crash")
    /\ pc' = [h \in Handlers |-> "free"]
    /\ update' = [h \in Handlers |-> NoUpdate]
    /\ conv' = [h \in Handlers |-> Idle]
    /\ lock' = Nobody
    /\ marked' = {}
    /\ UNCHANGED <<saved, open, inbox, client, used, request>>
Crash ==
    /\ Event("crash")
    /\ pc' = [h \in Handlers |-> "free"]
    /\ update' = [h \in Handlers |-> NoUpdate]
    /\ conv' = [h \in Handlers |-> Idle]
    /\ lock' = Nobody
    /\ UNCHANGED <<saved, marked, open, inbox, client, used, request>>

Expire ==
    /\ saved # NoConversation
    /\ Event("expiry")
    /\ saved' = NoConversation
    /\ UNCHANGED <<marked, open, inbox, handler, client, used, request>>

\* The ticket is closed: the poller, which takes no chat lock, resets the chat.
Close ==
    /\ open
    /\ open' = FALSE /\ saved' = NoConversation /\ request' = NoConversation
    /\ UNCHANGED <<marked, inbox, handler, client, happened, used>>

-----------------------------------------------------------------------------
Step(h) ==
    \/ Mark(h) \/ Load(h) \/ LoadFails(h)
    \/ StartFlow(h) \/ SelectService(h) \/ AnswerText(h) \/ AnswerOption(h)
    \/ Confirm(h) \/ Reprompt(h) \/ Ignore(h)
    \/ SaveLast(h) \/ Save(h) \/ Create(h) \/ CreateFails(h) \/ Send(h)

Next ==
    \/ Type \/ Press \/ Stray \/ Hurry
    \/ \E h \in Handlers : Deliver(h) \/ Step(h)
    \/ Crash \/ Expire \/ Close

Spec == Init /\ [][Next]_vars

\* Telegram delivers, handlers go on, and the client keeps answering, by text
\* and by the buttons of the last prompt.
Fairness ==
    /\ WF_vars(\E h \in Handlers : Deliver(h))
    /\ \A h \in Handlers : WF_vars(Step(h))
    /\ SF_vars(Type) /\ SF_vars(Press)

FairSpec == Spec /\ Fairness

-----------------------------------------------------------------------------
(* Properties *)

Fits(c) == \A i \in DOMAIN c.answers : c.answers[i].meant = Question(c.service, i)

\* Every answer is recorded for the question it answers, when updates come
\* again, and old service or confirmation buttons are pressed in between.
AnswersFit ==
    happened \subseteq {"redelivery"} => saved = NoConversation \/ Fits(saved)

\* An update becomes one answer, however often it is delivered and wherever
\* the process stops (unless Redis fails, and the check with it).
RecordedOnce == "redis" \notin happened => \A i \in Ids : used[i] <= 1

\* A request has an answer to every question of its script and the files sent
\* with them, whatever fails or comes again on the way, and whichever buttons
\* are pressed.
RequestComplete ==
    request # NoConversation =>
        /\ request.service \in Services
        /\ Len(request.answers) = Len(Script[request.service])
        /\ request.files >= Cardinality({i \in DOMAIN request.answers : request.answers[i].file})

\* A client who keeps answering gets to the end of the script and through the
\* confirmation, also after a stop between the two saves of a last answer, or a
\* prompt or a save that failed.  (A stop right after the confirmation is
\* TicketLifecycle's.)
Filling == saved # NoConversation /\ saved.state # "ticket_open"

CanFinish == Filling ~> ~Filling
=============================================================================
