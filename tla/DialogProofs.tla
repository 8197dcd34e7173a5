---------------------------- MODULE DialogProofs ----------------------------
(***************************************************************************)
(* Theorems about Dialog, for all services and scripts, any number of      *)
(* handlers and every choice of faults.                                    *)
(***************************************************************************)
EXTENDS Dialog, SequenceTheorems, FiniteSetTheorems, TLAPS

-----------------------------------------------------------------------------
(* Conversations and updates *)

Conversations ==
    {c \in [state : States, service : Services \cup {NoService},
            answers : Seq(Answer), files : Nat] :
        c.service \in Services => Len(c.answers) <= Len(Script[c.service])}

LEMMA ConversationFields ==
    ASSUME NEW c \in Conversations
    PROVE  /\ c.state \in States
           /\ c.service \in Services \cup {NoService}
           /\ c.answers \in Seq(Answer)
           /\ c.service \in Services => Len(c.answers) <= Len(Script[c.service])
           /\ c.files \in Nat
           /\ IsConversation(c)
BY DEF Conversations, IsConversation

LEMMA NewConversation ==
    ASSUME NEW s \in States, NEW v \in Services \cup {NoService}
    PROVE  /\ Conversation(s, v, <<>>, 0) \in Conversations
           /\ Conversation(s, v, <<>>, 0).state = s
           /\ Conversation(s, v, <<>>, 0).service = v
           /\ Conversation(s, v, <<>>, 0).answers = <<>>
           /\ Conversation(s, v, <<>>, 0).files = 0
<1>1. v \in Services => Len(Script[v]) \in Nat
  BY ScriptAssumption, LenProperties
<1>2. <<>> \in Seq(Answer) /\ Len(<<>>) = 0
  OBVIOUS
<1> QED
  BY <1>1, <1>2 DEF Conversation, Conversations

\* The conversation in another state, with a file more, with an answer more.
LEMMA WithState ==
    ASSUME NEW c \in Conversations, NEW s \in States
    PROVE  /\ [c EXCEPT !.state = s] \in Conversations
           /\ [c EXCEPT !.state = s].state = s
           /\ [c EXCEPT !.state = s].service = c.service
           /\ [c EXCEPT !.state = s].answers = c.answers
           /\ [c EXCEPT !.state = s].files = c.files
BY DEF Conversations

LEMMA WithFile ==
    ASSUME NEW c \in Conversations, NEW file \in BOOLEAN
    PROVE  /\ [c EXCEPT !.files = IF file THEN @ + 1 ELSE @] \in Conversations
           /\ [c EXCEPT !.files = IF file THEN @ + 1 ELSE @].state = c.state
           /\ [c EXCEPT !.files = IF file THEN @ + 1 ELSE @].service = c.service
           /\ [c EXCEPT !.files = IF file THEN @ + 1 ELSE @].answers = c.answers
           /\ [c EXCEPT !.files = IF file THEN @ + 1 ELSE @].files =
                 IF file THEN c.files + 1 ELSE c.files
BY DEF Conversations

LEMMA WithAnswer ==
    ASSUME NEW c \in Conversations, NEW a \in Answer,
           c.service \in Services, Len(c.answers) < Len(Script[c.service])
    PROVE  /\ [c EXCEPT !.answers = Append(@, a)] \in Conversations
           /\ [c EXCEPT !.answers = Append(@, a)].state = c.state
           /\ [c EXCEPT !.answers = Append(@, a)].service = c.service
           /\ [c EXCEPT !.answers = Append(@, a)].answers = Append(c.answers, a)
           /\ [c EXCEPT !.answers = Append(@, a)].files = c.files
<1>1. /\ c.answers \in Seq(Answer)
      /\ Append(c.answers, a) \in Seq(Answer)
      /\ Len(Append(c.answers, a)) = Len(c.answers) + 1
  BY AppendProperties DEF Conversations
<1>2. Len(Script[c.service]) \in Nat /\ Len(c.answers) \in Nat
  BY <1>1, ScriptAssumption, LenProperties
<1>3. [c EXCEPT !.answers = Append(@, a)] = [c EXCEPT !.answers = Append(c.answers, a)]
  OBVIOUS
<1>4. Len(Append(c.answers, a)) <= Len(Script[c.service])
  BY <1>1, <1>2
<1> QED
  BY <1>1, <1>3, <1>4 DEF Conversations

LEMMA UpdateFields ==
    ASSUME NEW u \in Updates
    PROVE  /\ u.id \in Ids /\ u.id # 0
           /\ u.kind \in {"text", "start", "press"}
           /\ u.on \in Prompts /\ u.file \in BOOLEAN
           /\ u # NoUpdate
BY DEF Updates, Ids, NoUpdate

LEMMA NoUpdateFields ==
    NoUpdate.id = 0 /\ NoUpdate.kind = "none" /\ NoUpdate.on = Nothing
BY DEF NoUpdate

\* The prompts by what they ask.
LEMMA PromptAsks ==
    ASSUME NEW p \in Prompts
    PROVE  /\ p.ask \in {"nothing", "service", "confirm", "question"}
           /\ p.ask = "question" <=> p \in Questions
           /\ p.ask = "service" <=> p = ChooseService
           /\ p.ask = "confirm" <=> p = Confirmation
BY DEF Prompts, Questions, Question, Asking, Nothing, ChooseService, Confirmation

LEMMA QuestionFields ==
    ASSUME NEW s, NEW i
    PROVE  Question(s, i).ask = "question" /\ Question(s, i).service = s /\ Question(s, i).index = i
BY DEF Question, Asking

LEMMA QuestionIsPrompt ==
    ASSUME NEW s \in Services, NEW i \in DOMAIN Script[s]
    PROVE  Question(s, i) \in Questions /\ Question(s, i) \in Prompts
BY DEF Questions, Prompts

\* What a button of a prompt names.
LEMMA ChoiceTypes ==
    ASSUME NEW p \in Prompts, NEW x \in Choices(p)
    PROVE  /\ x \in Nat \cup Services \cup {Yes, Restart}
           /\ p.ask = "service" => x \in Services
<1>0. ChooseService # Confirmation
  BY DEF ChooseService, Confirmation, Asking
<1>1. CASE p = ChooseService
  BY <1>0, <1>1 DEF Choices
<1>2. CASE p # ChooseService /\ p = Confirmation
  BY <1>2, PromptAsks DEF Choices
<1>3. CASE p # ChooseService /\ p # Confirmation
  <2>1. OptionsOf(p) \in Nat
    <3>1. CASE p \in Questions
      <4>1. PICK s \in Services : \E i \in DOMAIN Script[s] : p = Question(s, i)
        BY <3>1 DEF Questions
      <4>2. PICK i \in DOMAIN Script[s] : p = Question(s, i)
        BY <4>1
      <4>3. Script[s] \in Seq(Nat)
        BY ScriptAssumption
      <4>4. Script[s][i] \in Nat
        BY <4>3, ElementOfSeq
      <4> QED
        BY <3>1, <4>2, <4>4, QuestionFields DEF OptionsOf
    <3>2. CASE p \notin Questions
      BY <3>2 DEF OptionsOf
    <3> QED
      BY <3>1, <3>2
  <2>2. x \in 1..OptionsOf(p)
    BY <1>3 DEF Choices
  <2> QED
    BY <1>3, <2>1, <2>2, PromptAsks
<1> QED
  BY <1>1, <1>2, <1>3

-----------------------------------------------------------------------------
(* Types, and what a handler holds in each place *)

Places == {"free", "mark", "lock", "decide", "save_last", "save", "send", "save_open", "create"}

\* The places under the chat lock.
Handling == {"decide", "save_last", "save", "send", "save_open", "create"}

\* The states of a conversation with a prompt to send.
Prompting == {"awaiting_service", "confirming", "asking_questions"}

Shapes ==
    /\ saved \in Conversations \cup {NoConversation}
    /\ marked \subseteq Ids
    /\ open \in BOOLEAN
    /\ inbox \in Seq(Updates)
    /\ pc \in [Handlers -> Places]
    /\ update \in [Handlers -> Updates \cup {NoUpdate}]
    /\ conv \in [Handlers -> Conversations]
    /\ lock \in Handlers \cup {Nobody}
    /\ shown \in Prompts /\ buttons \subseteq Prompts
    /\ strays \in 0..MaxStrays /\ happened \subseteq EnvEvents \cup {"overtaking"}
    /\ used \in [Ids -> Nat]
    /\ request \in Conversations \cup {NoConversation}

\* A button of the services keyboard names a service.
Named(u) == u.kind = "press" /\ u.on.ask = "service" => u.choice \in Services

Holds(h) ==
    /\ lock = h <=> pc[h] \in Handling
    /\ pc[h] = "free" <=> update[h] = NoUpdate
    /\ Named(update[h])
    /\ pc[h] \in {"save", "send"} => conv[h].state \in Prompting
    /\ pc[h] \in {"save_open", "create"} =>
          conv[h].state = "ticket_open" /\ conv[h].service \in Services
    /\ pc[h] = "save_last" => conv[h].state = "asking_questions"

\* Whoever is asked questions, or for a confirmation, has chosen a service.
Served(c) == c.state \in {"asking_questions", "confirming"} => c.service \in Services

Held ==
    /\ \A k \in DOMAIN inbox : Named(inbox[k])
    /\ \A h \in Handlers : Holds(h) /\ Served(conv[h])
    /\ saved # NoConversation => Served(saved)

TypeInv == Shapes /\ Held

LEMMA InitType == Init => TypeInv
<1> SUFFICES ASSUME Init PROVE TypeInv
  OBVIOUS
<1>1. Idle \in Conversations /\ Idle.state = "idle"
  BY NewConversation DEF Idle, States
<1>2. /\ inbox \in Seq(Updates) /\ DOMAIN inbox = {}
      /\ pc \in [Handlers -> Places]
      /\ update \in [Handlers -> Updates \cup {NoUpdate}]
      /\ marked \subseteq Ids /\ open \in BOOLEAN
      /\ lock \in Handlers \cup {Nobody}
  <2>1. inbox = <<>>
    BY DEF Init
  <2>2. <<>> \in Seq(Updates) /\ DOMAIN <<>> = {}
    OBVIOUS
  <2>3. pc = [h \in Handlers |-> "free"] /\ "free" \in Places
    BY DEF Init, Places
  <2>4. update = [h \in Handlers |-> NoUpdate]
    BY DEF Init
  <2>5. marked \subseteq Ids /\ open \in BOOLEAN /\ lock \in Handlers \cup {Nobody}
    BY DEF Init
  <2>6. pc \in [Handlers -> Places]
    BY <2>3
  <2>7. update \in [Handlers -> Updates \cup {NoUpdate}]
    BY <2>4
  <2> QED
    BY <2>1, <2>2, <2>5, <2>6, <2>7
<1>3. /\ conv \in [Handlers -> Conversations]
      /\ \A h \in Handlers : conv[h].state = "idle"
  BY <1>1 DEF Init
<1>4. /\ shown \in Prompts /\ buttons \subseteq Prompts
      /\ happened \subseteq EnvEvents \cup {"overtaking"}
      /\ used \in [Ids -> Nat]
      /\ request \in Conversations \cup {NoConversation}
  BY DEF Init, Prompts
<1>5. strays \in 0..MaxStrays
  BY BoundsAssumption DEF Init
<1>6. ASSUME NEW h \in Handlers PROVE Holds(h) /\ Served(conv[h])
  <2>1. pc[h] = "free" /\ update[h] = NoUpdate /\ lock # h
    BY NullAssumption DEF Init
  <2> QED
    BY <1>3, <2>1, NoUpdateFields DEF Holds, Served, Named, Handling
<1>7. saved = NoConversation
  BY DEF Init
<1> QED
  BY <1>2, <1>3, <1>4, <1>5, <1>6, <1>7 DEF TypeInv, Shapes, Held

LEMMA EventHappens ==
    ASSUME Shapes, NEW e, Event(e)
    PROVE  happened' \subseteq EnvEvents \cup {"overtaking"} /\ e \in happened'
BY BoundsAssumption DEF Shapes, Event

\* The handler decides, and goes on to save or to prompt.
LEMMA DecideType ==
    ASSUME TypeInv, NEW h \in Handlers, NEW c \in Conversations,
           NEW place \in {"save_last", "save", "send", "save_open"},
           pc[h] = "decide", Decide(h, c, place), Served(c),
           place \in {"save", "send"} => c.state \in Prompting,
           place = "save_open" => c.state = "ticket_open" /\ c.service \in Services,
           place = "save_last" => c.state = "asking_questions",
           used' \in [Ids -> Nat]
    PROVE  TypeInv'
<1>1. /\ conv' \in [Handlers -> Conversations] /\ conv'[h] = c
      /\ \A g \in Handlers \ {h} : conv'[g] = conv[g]
      /\ pc' \in [Handlers -> Places] /\ pc'[h] = place
      /\ \A g \in Handlers \ {h} : pc'[g] = pc[g]
  BY DEF TypeInv, Shapes, Decide, Goto, Places
<1>2. UNCHANGED <<saved, marked, open, inbox, update, lock, client, happened, request>>
  BY DEF Decide
<1>3. Shapes'
  BY <1>1, <1>2 DEF TypeInv, Shapes, client
<1>4. Holds(h)' /\ Served(conv[h])'
  BY <1>1, <1>2 DEF TypeInv, Held, Holds, Handling
<1>5. \A g \in Handlers \ {h} : Holds(g)' /\ Served(conv[g])'
  BY <1>1, <1>2 DEF TypeInv, Held, Holds
<1>6. /\ (\A k \in DOMAIN inbox : Named(inbox[k]))'
      /\ (saved # NoConversation => Served(saved))'
  BY <1>2 DEF TypeInv, Held
<1> QED
  BY <1>3, <1>4, <1>5, <1>6 DEF TypeInv, Held

\* What the inbox loses when a handler returns is its head.
LEMMA Shorter ==
    ASSUME NEW S, NEW q \in Seq(S), q # <<>>
    PROVE  /\ Tail(q) \in Seq(S)
           /\ Head(q) = q[1] /\ 1 \in DOMAIN q
           /\ \A k \in DOMAIN Tail(q) : k + 1 \in DOMAIN q /\ Tail(q)[k] = q[k + 1]
           /\ \A k \in DOMAIN q : k = 1 \/ (k - 1 \in DOMAIN Tail(q) /\ Tail(q)[k - 1] = q[k])
BY HeadTailProperties, LenProperties

LEMMA Longer ==
    ASSUME NEW S, NEW q \in Seq(S), NEW u \in S
    PROVE  /\ Append(q, u) \in Seq(S)
           /\ Len(Append(q, u)) = Len(q) + 1
           /\ DOMAIN Append(q, u) = DOMAIN q \cup {Len(q) + 1}
           /\ Append(q, u)[Len(q) + 1] = u
           /\ \A k \in DOMAIN q : Append(q, u)[k] = q[k]
BY AppendProperties, LenProperties

LEMMA ReturnType ==
    ASSUME TypeInv, NEW h \in Handlers, Return(h), saved' \in Conversations \cup {NoConversation},
           saved' # NoConversation => Served(saved'),
           marked' \subseteq Ids, open' \in BOOLEAN, shown' \in Prompts,
           buttons' \subseteq Prompts, strays' \in 0..MaxStrays,
           happened' \subseteq EnvEvents \cup {"overtaking"}, used' \in [Ids -> Nat],
           request' \in Conversations \cup {NoConversation}
    PROVE  TypeInv'
<1>1. /\ pc' \in [Handlers -> Places] /\ pc'[h] = "free"
      /\ \A g \in Handlers \ {h} : pc'[g] = pc[g]
      /\ update' \in [Handlers -> Updates \cup {NoUpdate}] /\ update'[h] = NoUpdate
      /\ \A g \in Handlers \ {h} : update'[g] = update[g]
  BY DEF TypeInv, Shapes, Return, Goto, Places
<1>2. Idle \in Conversations /\ Idle.state = "idle"
  BY NewConversation DEF Idle, States
<1>3. /\ conv' \in [Handlers -> Conversations] /\ conv'[h] = Idle
      /\ \A g \in Handlers \ {h} : conv'[g] = conv[g]
  BY <1>2 DEF TypeInv, Shapes, Return
<1>4. lock' \in Handlers \cup {Nobody} /\ lock' = IF lock = h THEN Nobody ELSE lock
  BY DEF TypeInv, Shapes, Return
<1>5. inbox' \in Seq(Updates) /\ \A k \in DOMAIN inbox' : Named(inbox'[k])
  <2>1. CASE inbox' = inbox
    BY <2>1 DEF TypeInv, Shapes, Held
  <2>2. CASE inbox # <<>> /\ inbox' = Tail(inbox)
    BY <2>2, Shorter DEF TypeInv, Shapes, Held
  <2> QED
    BY <2>1, <2>2 DEF Return
<1>6. Shapes'
  BY <1>1, <1>3, <1>4, <1>5 DEF Shapes
<1>7. Holds(h)' /\ Served(conv[h])'
  BY <1>1, <1>2, <1>3, <1>4, NullAssumption, NoUpdateFields
  DEF TypeInv, Held, Holds, Served, Named, Handling
<1>8. \A g \in Handlers \ {h} : Holds(g)' /\ Served(conv[g])'
  BY <1>1, <1>3, <1>4, NullAssumption DEF TypeInv, Held, Holds
<1> QED
  BY <1>5, <1>6, <1>7, <1>8 DEF TypeInv, Held

\* A handler moves on with its update, holding what its new place calls for.
LEMMA GotoType ==
    ASSUME TypeInv, NEW h \in Handlers, NEW place \in Places, NEW c \in Conversations,
           Goto(h, place), conv' = [conv EXCEPT ![h] = c], UNCHANGED <<update, inbox>>,
           lock' \in {lock, h}, lock' = h <=> place \in Handling,
           lock' # lock => lock = Nobody,
           place # "free", pc[h] # "free", Served(c),
           place \in {"save", "send"} => c.state \in Prompting,
           place \in {"save_open", "create"} =>
              c.state = "ticket_open" /\ c.service \in Services,
           place = "save_last" => c.state = "asking_questions",
           saved' \in Conversations \cup {NoConversation},
           saved' # NoConversation => Served(saved'),
           marked' \subseteq Ids, open' \in BOOLEAN, shown' \in Prompts,
           buttons' \subseteq Prompts, strays' \in 0..MaxStrays,
           happened' \subseteq EnvEvents \cup {"overtaking"}, used' \in [Ids -> Nat],
           request' \in Conversations \cup {NoConversation}
    PROVE  TypeInv'
<1>1. /\ pc' \in [Handlers -> Places] /\ pc'[h] = place
      /\ \A g \in Handlers \ {h} : pc'[g] = pc[g]
      /\ conv' \in [Handlers -> Conversations] /\ conv'[h] = c
      /\ \A g \in Handlers \ {h} : conv'[g] = conv[g]
  BY DEF TypeInv, Shapes, Goto
<1>2. lock' \in Handlers \cup {Nobody}
  BY DEF TypeInv, Shapes
<1>3. Shapes'
  BY <1>1, <1>2 DEF TypeInv, Shapes
<1>4. Holds(h)' /\ Served(conv[h])'
  BY <1>1 DEF TypeInv, Held, Holds
<1>5. \A g \in Handlers \ {h} : Holds(g)' /\ Served(conv[g])'
  BY <1>1, NullAssumption DEF TypeInv, Held, Holds
<1>6. (\A k \in DOMAIN inbox : Named(inbox[k]))'
  BY DEF TypeInv, Held
<1> QED
  BY <1>3, <1>4, <1>5, <1>6 DEF TypeInv, Held

\* The client posts an update with a free id.
LEMMA FreeIdIsFree ==
    ASSUME Ids \ InUse # {}
    PROVE  FreeId \in Ids \ InUse
BY DEF FreeId

LEMMA PostType ==
    ASSUME TypeInv, NEW kind \in {"text", "start", "press"}, NEW on \in Prompts,
           NEW choice \in Nat \cup Services \cup {Yes, Restart}, NEW file \in BOOLEAN,
           Post(kind, on, choice, file),
           kind = "press" /\ on.ask = "service" => choice \in Services,
           strays' \in 0..MaxStrays, happened' \subseteq EnvEvents \cup {"overtaking"}
    PROVE  TypeInv'
<1> DEFINE u == [id |-> FreeId, kind |-> kind, on |-> on, choice |-> choice, file |-> file]
<1>1. FreeId \in Ids
  BY FreeIdIsFree DEF Post
<1>2. u \in Updates /\ Named(u)
  BY <1>1 DEF Updates, Named
<1>3. /\ inbox \in Seq(Updates) /\ inbox' = Append(inbox, u)
      /\ marked' = marked \ {FreeId}
      /\ used' = [used EXCEPT ![FreeId] = 0]
      /\ UNCHANGED <<saved, open, handler, shown, buttons, request>>
  BY DEF Post, TypeInv, Shapes
<1> HIDE DEF u
<1>4. inbox' \in Seq(Updates) /\ \A k \in DOMAIN inbox' : Named(inbox'[k])
  BY <1>2, <1>3, Longer DEF TypeInv, Held
<1>5. Shapes'
  BY <1>3, <1>4 DEF TypeInv, Shapes, handler
<1> QED
  BY <1>3, <1>4, <1>5 DEF TypeInv, Held, Holds, handler

LEMMA ClientType ==
    ASSUME TypeInv, Type \/ Press \/ Stray \/ Hurry
    PROVE  TypeInv'
<1>1. shown \in Prompts /\ Nothing \in Prompts /\ buttons \subseteq Prompts
      /\ strays \in 0..MaxStrays /\ happened \subseteq EnvEvents \cup {"overtaking"}
  BY DEF TypeInv, Shapes, Prompts
<1>2. CASE Type
  BY <1>1, <1>2, PostType DEF Type
<1>3. CASE Press
  <2>1. PICK choice \in Choices(shown) : Post("press", shown, choice, FALSE)
    BY <1>3 DEF Press
  <2>2. UNCHANGED <<strays, happened>>
    BY <1>3 DEF Press
  <2> QED
    BY <1>1, <2>1, <2>2, ChoiceTypes, PostType
<1>4. CASE Stray
  <2>1. strays' \in 0..MaxStrays /\ UNCHANGED happened
    BY <1>1, <1>4, BoundsAssumption DEF Stray
  <2>2. CASE Post("start", Nothing, 0, FALSE)
    BY <1>1, <2>1, <2>2, PostType
  <2>3. CASE \E p \in buttons \ Questions : \E choice \in Choices(p) : Post("press", p, choice, FALSE)
    BY <1>1, <2>1, <2>3, ChoiceTypes, PostType
  <2> QED
    BY <1>4, <2>2, <2>3 DEF Stray
<1>5. CASE Hurry
  <2>1. happened' \subseteq EnvEvents \cup {"overtaking"} /\ UNCHANGED strays
    BY <1>5, EventHappens DEF Hurry, TypeInv
  <2>2. CASE Post("text", shown, 0, FALSE)
    BY <1>1, <2>1, <2>2, PostType
  <2>3. CASE \E p \in buttons \cap Questions : \E choice \in Choices(p) : Post("press", p, choice, FALSE)
    BY <1>1, <2>1, <2>3, ChoiceTypes, PostType
  <2> QED
    BY <1>5, <2>2, <2>3 DEF Hurry
<1> QED
  BY <1>2, <1>3, <1>4, <1>5

LEMMA DeliverType ==
    ASSUME TypeInv, NEW h \in Handlers, Deliver(h)
    PROVE  TypeInv'
<1>1. Head(inbox) \in Updates /\ Named(Head(inbox)) /\ Head(inbox) # NoUpdate
  BY Shorter, UpdateFields, HeadTailProperties DEF Deliver, TypeInv, Shapes, Held
<1>2. happened' \subseteq EnvEvents \cup {"overtaking"}
  BY EventHappens DEF Deliver, TypeInv, Shapes
<1>3. /\ pc' = [pc EXCEPT ![h] = "mark"] /\ pc[h] = "free"
      /\ update' = [update EXCEPT ![h] = Head(inbox)]
      /\ UNCHANGED <<saved, marked, open, inbox, conv, lock, client, used, request>>
  BY DEF Deliver, Goto
<1>4. Shapes'
  BY <1>1, <1>2, <1>3 DEF TypeInv, Shapes, Places, client
<1>5. \A g \in Handlers : Holds(g)' /\ Served(conv[g])'
  BY <1>1, <1>3 DEF TypeInv, Shapes, Held, Holds, Handling
<1> QED
  BY <1>3, <1>4, <1>5 DEF TypeInv, Held

\* What the last two types rest on: the texts, buttons and scripts at hand.
LEMMA Decides ==
    ASSUME TypeInv, NEW h \in Handlers, pc[h] = "decide"
    PROVE  /\ update[h] \in Updates /\ conv[h] \in Conversations
           /\ used \in [Ids -> Nat]
           /\ [used EXCEPT ![update[h].id] = @ + 1] \in [Ids -> Nat]
<1>1. update[h] \in Updates
  BY DEF TypeInv, Shapes, Held, Holds
<1> QED
  BY <1>1, UpdateFields DEF TypeInv, Shapes

\* What recordAnswer makes of a conversation, whichever file comes with it.
Filed(c, file) == [c EXCEPT !.files = IF file THEN @ + 1 ELSE @]
Answered(c, u, file) == [Filed(c, file) EXCEPT !.answers = Append(@, [meant |-> u.on, file |-> file])]

LEMMA FiledType ==
    ASSUME NEW c \in Conversations, NEW u \in Updates, NEW file \in BOOLEAN
    PROVE  /\ Filed(c, file) \in Conversations
           /\ Filed(c, file).state = c.state /\ Filed(c, file).service = c.service
           /\ Filed(c, file).answers = c.answers
           /\ Filed(c, file).files = IF file THEN c.files + 1 ELSE c.files
           /\ [meant |-> u.on, file |-> file] \in Answer
           /\ c.service \in Services /\ Len(c.answers) < Len(Script[c.service]) =>
                /\ Answered(c, u, file) \in Conversations
                /\ Answered(c, u, file).state = c.state
                /\ Answered(c, u, file).service = c.service
                /\ Answered(c, u, file).answers =
                      Append(c.answers, [meant |-> u.on, file |-> file])
                /\ Answered(c, u, file).files = IF file THEN c.files + 1 ELSE c.files
<1>1. [meant |-> u.on, file |-> file] \in Answer
  BY UpdateFields DEF Answer
<1>2. /\ Filed(c, file) \in Conversations
      /\ Filed(c, file).state = c.state /\ Filed(c, file).service = c.service
      /\ Filed(c, file).answers = c.answers
      /\ Filed(c, file).files = IF file THEN c.files + 1 ELSE c.files
  BY WithFile DEF Filed
<1>3. ASSUME c.service \in Services, Len(c.answers) < Len(Script[c.service])
      PROVE  /\ Answered(c, u, file) \in Conversations
             /\ Answered(c, u, file).state = c.state
             /\ Answered(c, u, file).service = c.service
             /\ Answered(c, u, file).answers = Append(c.answers, [meant |-> u.on, file |-> file])
             /\ Answered(c, u, file).files = IF file THEN c.files + 1 ELSE c.files
  <2>1. PICK d \in Conversations : d = Filed(c, file)
    BY <1>2
  <2>2. d.service \in Services /\ Len(d.answers) < Len(Script[d.service])
    BY <1>2, <1>3, <2>1
  <2> QED
    BY <1>1, <1>2, <2>1, <2>2, WithAnswer DEF Answered
<1> QED
  BY <1>1, <1>2, <1>3

\* Record files the answer, or, past the last question, the file alone.
LEMMA RecordCases ==
    ASSUME TypeInv, NEW h \in Handlers, pc[h] = "decide", NEW file \in BOOLEAN,
           State(h) = "asking_questions", Record(h, file)
    PROVE  /\ conv[h].service \in Services
           /\ \/ /\ Len(conv[h].answers) < Len(Script[conv[h].service])
                 /\ \E place \in {"save", "save_last"} :
                       /\ Decide(h, Answered(conv[h], update[h], file), place)
                       /\ place = "save" <=>
                            Len(conv[h].answers) + 1 < Len(Script[conv[h].service])
                 /\ used' = [used EXCEPT ![update[h].id] = @ + 1]
              \/ /\ Len(conv[h].answers) = Len(Script[conv[h].service])
                 /\ Decide(h, Filed(conv[h], file), "save_last")
                 /\ UNCHANGED used
<1>1. conv[h] \in Conversations /\ conv[h].service \in Services
  BY DEF TypeInv, Shapes, Held, Served, State
<1>2. update[h] \in Updates
  BY Decides
<1>3. /\ Len(conv[h].answers) \in Nat /\ Len(Script[conv[h].service]) \in Nat
      /\ Len(conv[h].answers) <= Len(Script[conv[h].service])
      /\ conv[h].answers \in Seq(Answer)
  BY <1>1, ConversationFields, ScriptAssumption, LenProperties
<1>4. [meant |-> update[h].on, file |-> file] \in Answer
  BY <1>1, <1>2, FiledType
<1>5. CASE HasCurrent(h)
  <2>1. Len(conv[h].answers) < Len(Script[conv[h].service])
    BY <1>5 DEF HasCurrent, Script_
  <2>2. Len(Answered(conv[h], update[h], file).answers) = Len(conv[h].answers) + 1
    BY <1>1, <1>2, <1>3, <1>4, <2>1, FiledType, AppendProperties, SMTT(30)
  <2>3. /\ Decide(h, Answered(conv[h], update[h], file),
                  IF Len(Answered(conv[h], update[h], file).answers) < Len(Script_(h))
                  THEN "save" ELSE "save_last")
        /\ used' = [used EXCEPT ![update[h].id] = @ + 1]
    BY <1>5 DEF Record, Answered, Filed
  <2> QED
    BY <1>1, <2>1, <2>2, <2>3 DEF Script_
<1>6. CASE ~HasCurrent(h)
  <2>1. Len(conv[h].answers) = Len(Script[conv[h].service])
    BY <1>3, <1>6 DEF HasCurrent, Script_
  <2> QED
    BY <1>1, <1>6, <2>1 DEF Record, Filed
<1> QED
  BY <1>5, <1>6

-----------------------------------------------------------------------------
(* The types hold after every step *)

LEMMA MarkType ==
    ASSUME TypeInv, NEW h \in Handlers, Mark(h)
    PROVE  TypeInv'
<1>1. /\ pc[h] = "mark" /\ update[h] \in Updates /\ conv[h] \in Conversations
      /\ Served(conv[h]) /\ lock # h
      /\ UNCHANGED <<saved, open, client, used, request>>
  BY DEF Mark, TypeInv, Shapes, Held, Holds, Handling
<1>2. happened' \subseteq EnvEvents \cup {"overtaking"}
  BY EventHappens DEF Mark, TypeInv, Shapes
<1>3. marked' \subseteq Ids
  BY <1>1, UpdateFields DEF Mark, TypeInv, Shapes
<1>4. CASE Return(h)
  BY <1>1, <1>2, <1>3, <1>4, ReturnType DEF TypeInv, Shapes, Held, client
<1>5. CASE Goto(h, "lock") /\ UNCHANGED <<update, conv, lock, inbox>>
  <2>1. conv' = [conv EXCEPT ![h] = conv[h]]
    BY <1>5 DEF TypeInv, Shapes
  <2>2. /\ saved' \in Conversations \cup {NoConversation}
        /\ saved' # NoConversation => Served(saved')
        /\ open' \in BOOLEAN /\ shown' \in Prompts /\ buttons' \subseteq Prompts
        /\ strays' \in 0..MaxStrays /\ used' \in [Ids -> Nat]
        /\ request' \in Conversations \cup {NoConversation}
    BY <1>1 DEF TypeInv, Shapes, Held, client
  <2> QED
    BY <1>1, <1>2, <1>3, <1>5, <2>1, <2>2, GotoType DEF Places, Handling
<1> QED
  BY <1>4, <1>5 DEF Mark

\* A chat without a saved conversation is idle, or has its ticket.
LEMMA NothingSaved ==
    ASSUME NEW s \in {"idle", "ticket_open"}
    PROVE  /\ [Idle EXCEPT !.state = s] \in Conversations
           /\ [Idle EXCEPT !.state = s].state = s
           /\ [Idle EXCEPT !.state = s].answers = <<>>
           /\ [Idle EXCEPT !.state = s].files = 0
<1>1. Idle \in Conversations /\ Idle.answers = <<>> /\ Idle.files = 0
  BY NewConversation DEF Idle, States
<1>2. s \in States
  BY DEF States
<1> QED
  BY <1>1, <1>2, WithState

LEMMA LoadType ==
    ASSUME TypeInv, NEW h \in Handlers, Load(h)
    PROVE  TypeInv'
<1> DEFINE c == IF saved # NoConversation THEN saved
                ELSE [Idle EXCEPT !.state = IF open THEN "ticket_open" ELSE "idle"]
<1>2. c \in Conversations /\ Served(c)
  <2>1. CASE saved # NoConversation
    BY <2>1 DEF TypeInv, Shapes, Held
  <2>2. CASE saved = NoConversation
    <3>1. PICK s \in {"idle", "ticket_open"} : s = IF open THEN "ticket_open" ELSE "idle"
      OBVIOUS
    <3>2. c = [Idle EXCEPT !.state = s]
      BY <2>2, <3>1
    <3> HIDE DEF c
    <3> QED
      BY <3>2, NothingSaved DEF Served
  <2> QED
    BY <2>1, <2>2
<1>3. /\ conv' = [conv EXCEPT ![h] = c] /\ Goto(h, "decide") /\ lock' = h /\ lock = Nobody
      /\ pc[h] = "lock"
      /\ UNCHANGED <<saved, marked, open, inbox, update, client, used, request>>
  BY DEF Load
<1> HIDE DEF c
<1>4. happened' \subseteq EnvEvents \cup {"overtaking"}
  BY DEF Load, TypeInv, Shapes
<1>5. /\ saved' \in Conversations \cup {NoConversation}
      /\ saved' # NoConversation => Served(saved')
      /\ marked' \subseteq Ids
      /\ open' \in BOOLEAN /\ shown' \in Prompts /\ buttons' \subseteq Prompts
      /\ strays' \in 0..MaxStrays /\ used' \in [Ids -> Nat]
      /\ request' \in Conversations \cup {NoConversation}
  BY <1>3 DEF TypeInv, Shapes, Held, client
<1> QED
  BY <1>2, <1>3, <1>4, <1>5, GotoType DEF Places, Handling

LEMMA ReturningType ==
    ASSUME TypeInv, NEW h \in Handlers, LoadFails(h) \/ Ignore(h) \/ Create(h)
    PROVE  TypeInv'
<1>1. happened' \subseteq EnvEvents \cup {"overtaking"}
  BY EventHappens DEF LoadFails, Ignore, Create, TypeInv, Shapes
<1>2. request' \in Conversations \cup {NoConversation} /\ open' \in BOOLEAN
  BY DEF LoadFails, Ignore, Create, TypeInv, Shapes
<1>3. Return(h) /\ UNCHANGED <<saved, marked, client, used>>
  BY DEF LoadFails, Ignore, Create
<1> QED
  BY <1>1, <1>2, <1>3, ReturnType DEF TypeInv, Shapes, Held, client

LEMMA DecidingType ==
    ASSUME TypeInv, NEW h \in Handlers,
           \/ StartFlow(h) \/ SelectService(h) \/ AnswerText(h) \/ AnswerOption(h)
           \/ Confirm(h) \/ Reprompt(h)
    PROVE  TypeInv'
<1>1. CASE StartFlow(h)
  <2>1. pc[h] = "decide" /\ used' \in [Ids -> Nat]
    BY <1>1 DEF StartFlow, Starts, IsText, Pressed, TypeInv, Shapes
  <2>2. /\ Conversation("awaiting_service", NoService, <<>>, 0) \in Conversations
        /\ Conversation("awaiting_service", NoService, <<>>, 0).state = "awaiting_service"
    BY NewConversation DEF States
  <2> QED
    BY <1>1, <2>1, <2>2, DecideType DEF StartFlow, Served, Prompting
<1>2. CASE SelectService(h)
  <2>1. pc[h] = "decide" /\ used' \in [Ids -> Nat] /\ update[h].choice \in Services
    BY <1>2 DEF SelectService, Selects, Pressed, TypeInv, Shapes, Held, Holds, Named
  <2>2. PICK s \in Services : s = update[h].choice
    BY <2>1
  <2>3. /\ Conversation("asking_questions", s, <<>>, 0) \in Conversations
        /\ Conversation("asking_questions", s, <<>>, 0).state = "asking_questions"
        /\ Conversation("asking_questions", s, <<>>, 0).service = s
    BY NewConversation DEF States
  <2>4. Decide(h, Conversation("asking_questions", s, <<>>, 0), "save")
    BY <1>2, <2>2 DEF SelectService
  <2> QED
    BY <2>1, <2>3, <2>4, DecideType DEF Served, Prompting
<1>3. ASSUME NEW file \in BOOLEAN, pc[h] = "decide", State(h) = "asking_questions", Record(h, file)
      PROVE  TypeInv'
  <2>1. /\ conv[h] \in Conversations /\ update[h] \in Updates
        /\ used \in [Ids -> Nat]
        /\ [used EXCEPT ![update[h].id] = @ + 1] \in [Ids -> Nat]
    BY <1>3, Decides
  <2>2. conv[h].service \in Services /\ conv[h].state = "asking_questions"
    BY <1>3, RecordCases DEF State
  <2>3. CASE /\ Len(conv[h].answers) < Len(Script[conv[h].service])
             /\ \E place \in {"save", "save_last"} : Decide(h, Answered(conv[h], update[h], file), place)
             /\ used' = [used EXCEPT ![update[h].id] = @ + 1]
    <3>1. /\ Answered(conv[h], update[h], file) \in Conversations
          /\ Answered(conv[h], update[h], file).state = "asking_questions"
          /\ Answered(conv[h], update[h], file).service \in Services
      BY <2>1, <2>2, <2>3, FiledType, ZenonT(40)
    <3> QED
      BY <1>3, <2>1, <2>3, <3>1, DecideType DEF Served, Prompting
  <2>4. CASE Decide(h, Filed(conv[h], file), "save_last") /\ UNCHANGED used
    <3>1. /\ Filed(conv[h], file) \in Conversations
          /\ Filed(conv[h], file).state = "asking_questions"
          /\ Filed(conv[h], file).service \in Services
      BY <2>1, <2>2, FiledType
    <3> QED
      BY <1>3, <2>1, <2>4, <3>1, DecideType DEF Served
  <2> QED
    BY <1>3, <2>3, <2>4, RecordCases
<1>4. CASE AnswerText(h)
  <2>1. pc[h] = "decide" /\ State(h) = "asking_questions" /\ Record(h, update[h].file)
    BY <1>4 DEF AnswerText, AnswersText, IsText
  <2>2. update[h].file \in BOOLEAN
    BY <2>1, Decides, UpdateFields
  <2> QED
    BY <1>3, <2>1, <2>2
<1>5. CASE AnswerOption(h)
  <2>1. pc[h] = "decide" /\ State(h) = "asking_questions" /\ Record(h, FALSE)
    BY <1>5 DEF AnswerOption, AnswersOption, Pressed
  <2> QED
    BY <1>3, <2>1
<1>6. CASE Confirm(h)
  <2>1. pc[h] = "decide" /\ used' \in [Ids -> Nat] /\ conv[h] \in Conversations
    BY <1>6 DEF Confirm, Confirms, Pressed, TypeInv, Shapes
  <2>2. /\ [conv[h] EXCEPT !.state = "ticket_open"] \in Conversations
        /\ [conv[h] EXCEPT !.state = "ticket_open"].state = "ticket_open"
        /\ [conv[h] EXCEPT !.state = "ticket_open"].service = conv[h].service
    BY <2>1, WithState DEF States
  <2>3. conv[h].service \in Services
    BY <1>6 DEF Confirm, Confirms, State, TypeInv, Held, Served
  <2> QED
    BY <1>6, <2>1, <2>2, <2>3, DecideType DEF Confirm, Served
<1>7. CASE Reprompt(h)
  <2>1. /\ pc[h] = "decide" /\ used' \in [Ids -> Nat] /\ conv[h] \in Conversations
        /\ conv[h].state \in Prompting /\ Served(conv[h])
    BY <1>7 DEF Reprompt, Reprompts, IsText, State, Prompting, TypeInv, Shapes, Held
  <2> QED
    BY <1>7, <2>1, DecideType DEF Reprompt
<1> QED
  BY <1>1, <1>2, <1>4, <1>5, <1>6, <1>7

LEMMA SetFSMType ==
    ASSUME TypeInv, NEW h \in Handlers, SetFSM(h)
    PROVE  /\ saved' \in Conversations \cup {NoConversation}
           /\ saved' # NoConversation => Served(saved')
           /\ happened' \subseteq EnvEvents \cup {"overtaking"}
<1>1. conv[h] \in Conversations /\ Served(conv[h])
  BY DEF TypeInv, Shapes, Held
<1> QED
  BY <1>1, EventHappens DEF SetFSM, TypeInv, Shapes, Held

\* SaveLast, and Create when it fails, go on to the confirmation.
LEMMA ConfirmingType ==
    ASSUME TypeInv, NEW h \in Handlers, SaveLast(h) \/ CreateFails(h)
    PROVE  TypeInv'
<1>1. /\ conv[h] \in Conversations /\ lock = h /\ conv[h].service \in Services
      /\ conv' = [conv EXCEPT ![h].state = "confirming"] /\ Goto(h, "save")
      /\ UNCHANGED <<marked, open, inbox, update, lock, client, used, request>>
      /\ pc[h] # "free"
  BY DEF SaveLast, CreateFails, TypeInv, Shapes, Held, Holds, Served, Handling
<1>2. PICK c \in Conversations : c = [conv[h] EXCEPT !.state = "confirming"]
                                 /\ c.state = "confirming" /\ c.service \in Services
  BY <1>1, WithState DEF States
<1>3. conv' = [conv EXCEPT ![h] = c]
  BY <1>1, <1>2
<1>4. /\ saved' \in Conversations \cup {NoConversation}
      /\ saved' # NoConversation => Served(saved')
      /\ happened' \subseteq EnvEvents \cup {"overtaking"}
  BY SetFSMType, EventHappens DEF SaveLast, CreateFails, TypeInv, Shapes, Held
<1>5. Served(c)
  BY <1>2 DEF Served
<1>6. /\ marked' \subseteq Ids /\ open' \in BOOLEAN /\ shown' \in Prompts
      /\ buttons' \subseteq Prompts
      /\ strays' \in 0..MaxStrays /\ used' \in [Ids -> Nat]
      /\ request' \in Conversations \cup {NoConversation}
  BY <1>1 DEF TypeInv, Shapes, client
<1> QED
  BY <1>1, <1>2, <1>3, <1>4, <1>5, <1>6, GotoType DEF Places, Handling, Prompting

LEMMA SaveType ==
    ASSUME TypeInv, NEW h \in Handlers, Save(h)
    PROVE  TypeInv'
<1>1. /\ conv[h] \in Conversations /\ lock = h /\ Served(conv[h])
      /\ UNCHANGED <<marked, open, inbox, update, conv, lock, client, used, request>>
      /\ pc[h] # "free"
  BY DEF Save, TypeInv, Shapes, Held, Holds, Handling
<1>2. PICK place \in {"send", "create"} :
         /\ Goto(h, place)
         /\ place = "send" => conv[h].state \in Prompting
         /\ place = "create" => conv[h].state = "ticket_open" /\ conv[h].service \in Services
  BY DEF Save, TypeInv, Held, Holds
<1>3. conv' = [conv EXCEPT ![h] = conv[h]]
  BY <1>1 DEF TypeInv, Shapes
<1>4. /\ saved' \in Conversations \cup {NoConversation}
      /\ saved' # NoConversation => Served(saved')
      /\ happened' \subseteq EnvEvents \cup {"overtaking"}
  BY SetFSMType DEF Save
<1>6. /\ marked' \subseteq Ids /\ open' \in BOOLEAN /\ shown' \in Prompts
      /\ buttons' \subseteq Prompts
      /\ strays' \in 0..MaxStrays /\ used' \in [Ids -> Nat]
      /\ request' \in Conversations \cup {NoConversation}
  BY <1>1 DEF TypeInv, Shapes, client
<1> QED
  BY <1>1, <1>2, <1>3, <1>4, <1>6, GotoType DEF Places, Handling

\* A prompt that is sent is the one of the state: of a question, the current one.
LEMMA PromptSent ==
    ASSUME TypeInv, NEW h \in Handlers, pc[h] = "send"
    PROVE  /\ PromptOf(h) \in Prompts
           /\ conv[h].state = "asking_questions" /\ HasCurrent(h) =>
                 PromptOf(h) = Current(h) /\ PromptOf(h) # Nothing
<1>1. /\ conv[h] \in Conversations /\ conv[h].state \in Prompting
      /\ conv[h].state = "asking_questions" => conv[h].service \in Services
  BY DEF TypeInv, Shapes, Held, Holds, Served
<1>2. ASSUME conv[h].state = "asking_questions", HasCurrent(h)
      PROVE  Current(h) \in Prompts /\ Current(h) # Nothing
  <2>1. PICK s \in Services : s = conv[h].service
    BY <1>1, <1>2
  <2>2. Len(conv[h].answers) \in Nat /\ Script[s] \in Seq(Nat)
    BY <1>1, <2>1, ConversationFields, ScriptAssumption, LenProperties
  <2>3. Len(conv[h].answers) + 1 \in DOMAIN Script[s]
    BY <1>2, <2>1, <2>2, LenProperties DEF HasCurrent, Script_
  <2> QED
    BY <2>1, <2>3, QuestionIsPrompt, QuestionFields DEF Current, Nothing, Asking
<1>3. Nothing \in Prompts /\ ChooseService \in Prompts /\ Confirmation \in Prompts
  BY DEF Prompts
<1> QED
  BY <1>1, <1>2, <1>3 DEF PromptOf, State, Prompting

LEMMA SendType ==
    ASSUME TypeInv, NEW h \in Handlers, Send(h)
    PROVE  TypeInv'
<1>1. PromptOf(h) \in Prompts
  BY PromptSent DEF Send
<1>2. Return(h) /\ UNCHANGED <<saved, marked, open, strays, used, request>>
  BY DEF Send
<1>3. shown' \in Prompts /\ buttons' \subseteq Prompts
  BY <1>1 DEF Send, TypeInv, Shapes
<1>4. happened' \subseteq EnvEvents \cup {"overtaking"}
  BY EventHappens DEF Send, TypeInv, Shapes
<1> QED
  BY <1>2, <1>3, <1>4, ReturnType DEF TypeInv, Shapes, Held

LEMMA EnvType ==
    ASSUME TypeInv, Crash \/ Expire \/ Close
    PROVE  TypeInv'
<1>1. CASE Crash
  <2>1. Idle \in Conversations /\ Idle.state = "idle"
    BY NewConversation DEF Idle, States
  <2>2. /\ pc' = [h \in Handlers |-> "free"] /\ update' = [h \in Handlers |-> NoUpdate]
        /\ conv' = [h \in Handlers |-> Idle] /\ lock' = Nobody
        /\ UNCHANGED <<saved, marked, open, inbox, client, used, request>>
        /\ happened' \subseteq EnvEvents \cup {"overtaking"}
    BY <1>1, EventHappens DEF Crash, TypeInv
  <2>3. Shapes'
    BY <2>1, <2>2 DEF TypeInv, Shapes, Places, client
  <2>4. \A h \in Handlers : Holds(h)' /\ Served(conv[h])'
    BY <2>1, <2>2, NullAssumption, NoUpdateFields DEF Holds, Served, Named, Handling
  <2> QED
    BY <2>2, <2>3, <2>4 DEF TypeInv, Held
<1>2. CASE Expire
  <2>1. happened' \subseteq EnvEvents \cup {"overtaking"}
    BY <1>2, EventHappens DEF Expire, TypeInv
  <2>2. /\ saved' = NoConversation
        /\ UNCHANGED <<marked, open, inbox, handler, client, used, request>>
    BY <1>2 DEF Expire
  <2> QED
    BY <2>1, <2>2 DEF TypeInv, Shapes, Held, Holds, handler, client
<1>3. CASE Close
  BY <1>3 DEF Close, TypeInv, Shapes, Held, Holds, handler, client
<1> QED
  BY <1>1, <1>2, <1>3

LEMMA StepType ==
    ASSUME TypeInv, [Next]_vars
    PROVE  TypeInv'
<1>1. CASE UNCHANGED vars
  BY <1>1 DEF vars, handler, client, TypeInv, Shapes, Held, Holds
<1>2. CASE \E h \in Handlers : Deliver(h) \/ Step(h)
  BY <1>2, DeliverType, MarkType, LoadType, ReturningType, DecidingType, ConfirmingType,
     SaveType, SendType DEF Step
<1> QED
  BY <1>1, <1>2, ClientType, EnvType DEF Next

LEMMA TypeInvType == TypeInv => TypeOK
<1> SUFFICES ASSUME TypeInv PROVE TypeOK
  OBVIOUS
<1>1. \A k \in DOMAIN inbox : inbox[k] \in Updates
  BY LenProperties DEF TypeInv, Shapes
<1>2. saved = NoConversation \/ IsConversation(saved)
  BY ConversationFields DEF TypeInv, Shapes
<1>3. request = NoConversation \/ IsConversation(request)
  BY ConversationFields DEF TypeInv, Shapes
<1>4. \A h \in Handlers : update[h] \in Updates \cup {NoUpdate} /\ IsConversation(conv[h])
  BY ConversationFields DEF TypeInv, Shapes
<1> QED
  BY <1>1, <1>2, <1>3, <1>4 DEF TypeOK, TypeInv, Shapes, Places

\* The conversation, the updates and the handlers stay well formed for every
\* set of scripts: in particular no answer is filed past the end of a script
\* (the index of recordAnswer), which rests on every conversation that asks
\* questions having a service, also one saved before a crash.
THEOREM TypeCorrect == Spec => []TypeOK
<1>1. Spec => []TypeInv
  BY InitType, StepType, PTL DEF Spec
<1> QED
  BY <1>1, TypeInvType, PTL

-----------------------------------------------------------------------------
(* A request is complete *)

Whole(c) == c.service \in Services /\ Len(c.answers) = Len(Script[c.service])

WithFiles(answers) == {i \in DOMAIN answers : answers[i].file}
Kept(c) == c.files >= Cardinality(WithFiles(c.answers))

\* Whoever is asked for a confirmation has answered the whole script: what is
\* saved, what a handler has loaded and what it submits are alike in this.
Sound(c) == Kept(c) /\ (c.state = "confirming" => Whole(c))

Submitted ==
    /\ saved # NoConversation => Sound(saved)
    /\ \A h \in Handlers :
          /\ Sound(conv[h])
          /\ pc[h] \in {"save_last", "save_open", "create"} => Whole(conv[h])
    /\ request # NoConversation => Whole(request) /\ Kept(request)

LEMMA NothingKept ==
    ASSUME NEW c, c.answers = <<>>, c.files = 0
    PROVE  Kept(c)
<1>1. WithFiles(c.answers) = {}
  BY DEF WithFiles
<1> QED
  BY <1>1, FS_EmptySet DEF Kept

LEMMA FilesCounted ==
    ASSUME NEW q \in Seq(Answer)
    PROVE  IsFiniteSet(WithFiles(q)) /\ Cardinality(WithFiles(q)) \in Nat
<1>1. Len(q) \in Nat /\ WithFiles(q) \subseteq 1..Len(q)
  BY LenProperties DEF WithFiles
<1>2. IsFiniteSet(1..Len(q))
  BY <1>1, FS_Interval
<1>3. IsFiniteSet(WithFiles(q))
  BY <1>1, <1>2, FS_Subset
<1> QED
  BY <1>3, FS_CardinalityType

\* A file more, and an answer that brings it or none.
LEMMA KeptFiled ==
    ASSUME NEW c \in Conversations, NEW u \in Updates, NEW file \in BOOLEAN, Kept(c)
    PROVE  /\ Kept(Filed(c, file))
           /\ c.service \in Services /\ Len(c.answers) < Len(Script[c.service]) =>
                 Kept(Answered(c, u, file))
<1> DEFINE a == [meant |-> u.on, file |-> file]
           n == Cardinality(WithFiles(c.answers))
<1>1. /\ c.answers \in Seq(Answer) /\ c.files \in Nat /\ Len(c.answers) \in Nat
      /\ n \in Nat /\ IsFiniteSet(WithFiles(c.answers)) /\ c.files >= n
  BY ConversationFields, FilesCounted, LenProperties DEF Kept
<1>2. Kept(Filed(c, file))
  <2>1. Filed(c, file).answers = c.answers
    BY FiledType
  <2>2. Filed(c, file).files = IF file THEN c.files + 1 ELSE c.files
    BY FiledType
  <2>3. Filed(c, file).files >= n
    BY <1>1, <2>2
  <2> QED
    BY <2>1, <2>3 DEF Kept
<1>3. ASSUME c.service \in Services, Len(c.answers) < Len(Script[c.service])
      PROVE  Kept(Answered(c, u, file))
  <2>1. a \in Answer /\ a.file = file
    BY FiledType
  <2> HIDE DEF a
  <2>2. /\ DOMAIN Append(c.answers, a) = DOMAIN c.answers \cup {Len(c.answers) + 1}
        /\ Append(c.answers, a)[Len(c.answers) + 1] = a
        /\ \A k \in DOMAIN c.answers : Append(c.answers, a)[k] = c.answers[k]
    BY <1>1, <2>1, Longer
  <2>3. Len(c.answers) + 1 \notin WithFiles(c.answers)
    BY <1>1, LenProperties DEF WithFiles
  <2>4. WithFiles(Append(c.answers, a)) =
          IF file THEN WithFiles(c.answers) \cup {Len(c.answers) + 1} ELSE WithFiles(c.answers)
    <3>1. CASE file
      BY <1>1, <2>1, <2>2, <3>1, LenProperties DEF WithFiles
    <3>2. CASE ~file
      BY <1>1, <2>1, <2>2, <3>2, LenProperties DEF WithFiles
    <3> QED
      BY <3>1, <3>2
  <2>5. Cardinality(WithFiles(Append(c.answers, a))) = IF file THEN n + 1 ELSE n
    BY <1>1, <2>3, <2>4, FS_AddElement
  <2>6. /\ Answered(c, u, file).answers = Append(c.answers, a)
        /\ Answered(c, u, file).files = IF file THEN c.files + 1 ELSE c.files
    BY <1>3, FiledType DEF a
  <2> QED
    BY <1>1, <2>5, <2>6 DEF Kept
<1> QED
  BY <1>2, <1>3

\* A conversation in another state keeps its answers and files.
LEMMA StateKeeps ==
    ASSUME NEW c \in Conversations, NEW s \in States
    PROVE  /\ Kept(c) => Kept([c EXCEPT !.state = s])
           /\ Whole(c) => Whole([c EXCEPT !.state = s])
BY WithState DEF Kept, Whole

\* Of a handler's conversation the others do not depend on.
LEMMA ConvSubmitted ==
    ASSUME Submitted, TypeInv, NEW h \in Handlers, NEW c,
           conv' = [conv EXCEPT ![h] = c], Sound(c),
           \A g \in Handlers \ {h} : pc'[g] = pc[g],
           pc'[h] \in {"save_last", "save_open", "create"} => Whole(c),
           saved' # NoConversation => Sound(saved'),
           request' # NoConversation => Whole(request') /\ Kept(request')
    PROVE  Submitted'
<1>1. conv'[h] = c /\ \A g \in Handlers \ {h} : conv'[g] = conv[g]
  BY DEF TypeInv, Shapes
<1>2. Sound(conv[h])' /\ (pc'[h] \in {"save_last", "save_open", "create"} => Whole(conv[h])')
  BY <1>1 DEF Sound, Kept, Whole
<1>3. ASSUME NEW g \in Handlers \ {h}
      PROVE  /\ Sound(conv[g])'
             /\ pc'[g] \in {"save_last", "save_open", "create"} => Whole(conv[g])'
  BY <1>1 DEF Submitted, Sound, Kept, Whole
<1>4. (saved # NoConversation => Sound(saved))'
  BY DEF Sound, Kept, Whole
<1>5. (request # NoConversation => Whole(request) /\ Kept(request))'
  BY DEF Kept, Whole
<1> QED
  BY <1>2, <1>3, <1>4, <1>5 DEF Submitted

\* An idle conversation is sound, and so is the one of a chat with a ticket.
LEMMA IdleSound ==
    ASSUME NEW s \in {"idle", "ticket_open"}
    PROVE  Sound(Idle) /\ Sound([Idle EXCEPT !.state = s])
<1>1. Idle.state = "idle" /\ Idle.answers = <<>> /\ Idle.files = 0
  BY NewConversation DEF Idle, States
<1> QED
  BY <1>1, NothingSaved, NothingKept DEF Sound

LEMMA InitSubmitted == Init => Submitted
<1> SUFFICES ASSUME Init PROVE Submitted
  OBVIOUS
<1>1. saved = NoConversation /\ request = NoConversation
  BY DEF Init
<1>2. \A h \in Handlers : conv[h] = Idle /\ pc[h] = "free"
  BY DEF Init
<1> QED
  BY <1>1, <1>2, IdleSound DEF Submitted

LEMMA ReturnSubmitted ==
    ASSUME Submitted, TypeInv, NEW h \in Handlers, Return(h),
           saved' # NoConversation => Sound(saved'),
           request' # NoConversation => Whole(request') /\ Kept(request')
    PROVE  Submitted'
<1>1. conv' = [conv EXCEPT ![h] = Idle]
  BY DEF Return
<1>2. pc'[h] = "free" /\ \A g \in Handlers \ {h} : pc'[g] = pc[g]
  BY DEF Return, Goto, TypeInv, Shapes
<1> QED
  BY <1>1, <1>2, IdleSound, ConvSubmitted

LEMMA DecideSubmitted ==
    ASSUME Submitted, TypeInv, NEW h \in Handlers, NEW c, NEW place,
           Decide(h, c, place), Sound(c),
           place \in {"save_last", "save_open", "create"} => Whole(c)
    PROVE  Submitted'
<1>1. conv' = [conv EXCEPT ![h] = c] /\ UNCHANGED <<saved, request>>
  BY DEF Decide
<1>2. pc'[h] = place /\ \A g \in Handlers \ {h} : pc'[g] = pc[g]
  BY DEF Decide, Goto, TypeInv, Shapes
<1>3. /\ saved' # NoConversation => Sound(saved')
      /\ request' # NoConversation => Whole(request') /\ Kept(request')
  BY <1>1 DEF Submitted
<1> QED
  BY <1>1, <1>2, <1>3, ConvSubmitted

\* Steps that leave what is saved, loaded and submitted alone.
LEMMA AwaySubmitted ==
    ASSUME Submitted, TypeInv,
           saved' \in {saved, NoConversation}, request' \in {request, NoConversation},
           UNCHANGED conv,
           \A h \in Handlers : pc'[h] \in {"save_last", "save_open", "create"} => pc'[h] = pc[h]
    PROVE  Submitted'
<1>1. (saved # NoConversation => Sound(saved))'
  BY DEF Submitted, Sound, Kept, Whole
<1>2. (request # NoConversation => Whole(request) /\ Kept(request))'
  BY DEF Submitted, Kept, Whole
<1>3. ASSUME NEW h \in Handlers
      PROVE  /\ Sound(conv[h])'
             /\ pc'[h] \in {"save_last", "save_open", "create"} => Whole(conv[h])'
  BY DEF Submitted, Sound, Kept, Whole
<1> QED
  BY <1>1, <1>2, <1>3 DEF Submitted

LEMMA RecordSubmitted ==
    ASSUME Submitted, TypeInv, NEW h \in Handlers, NEW file \in BOOLEAN,
           pc[h] = "decide", State(h) = "asking_questions", Record(h, file)
    PROVE  Submitted'
<1>1. /\ conv[h] \in Conversations /\ update[h] \in Updates /\ Kept(conv[h])
      /\ conv[h].service \in Services /\ conv[h].state = "asking_questions"
  BY Decides, RecordCases DEF Submitted, Sound, State
<1>2. /\ conv[h].answers \in Seq(Answer) /\ Len(conv[h].answers) \in Nat
      /\ Len(Script[conv[h].service]) \in Nat
  BY <1>1, ConversationFields, ScriptAssumption, LenProperties
<1>3. CASE /\ Len(conv[h].answers) < Len(Script[conv[h].service])
           /\ \E place \in {"save", "save_last"} :
                 /\ Decide(h, Answered(conv[h], update[h], file), place)
                 /\ place = "save" <=> Len(conv[h].answers) + 1 < Len(Script[conv[h].service])
  <2>1. PICK place \in {"save", "save_last"} :
           /\ Decide(h, Answered(conv[h], update[h], file), place)
           /\ place = "save" <=> Len(conv[h].answers) + 1 < Len(Script[conv[h].service])
    BY <1>3
  <2> DEFINE c == Answered(conv[h], update[h], file)
             a == [meant |-> update[h].on, file |-> file]
  <2>2. /\ c.state = "asking_questions" /\ c.service = conv[h].service
        /\ c.answers = Append(conv[h].answers, a) /\ a \in Answer
    BY <1>1, <1>3, FiledType
  <2>3. Kept(c)
    BY <1>1, <1>3, KeptFiled
  <2>4. Len(c.answers) = Len(conv[h].answers) + 1
    BY <1>2, <2>2, AppendProperties
  <2>5. Decide(h, c, place)
    BY <2>1
  <2> HIDE DEF c, a
  <2>6. place = "save_last" => Whole(c)
    BY <1>1, <1>2, <1>3, <2>1, <2>2, <2>4 DEF Whole
  <2> QED
    BY <2>1, <2>2, <2>3, <2>5, <2>6, DecideSubmitted DEF Sound
<1>4. CASE /\ Len(conv[h].answers) = Len(Script[conv[h].service])
           /\ Decide(h, Filed(conv[h], file), "save_last")
  <2> DEFINE c == Filed(conv[h], file)
  <2>1. c.state = "asking_questions" /\ c.service = conv[h].service /\ c.answers = conv[h].answers
    BY <1>1, FiledType
  <2>2. Kept(c) /\ Decide(h, c, "save_last")
    BY <1>1, <1>4, KeptFiled
  <2> HIDE DEF c
  <2>3. Whole(c)
    BY <1>1, <1>4, <2>1 DEF Whole
  <2> QED
    BY <2>1, <2>2, <2>3, DecideSubmitted DEF Sound
<1> QED
  BY <1>3, <1>4, RecordCases

LEMMA DecidingSubmitted ==
    ASSUME Submitted, TypeInv, NEW h \in Handlers,
           \/ StartFlow(h) \/ SelectService(h) \/ AnswerText(h) \/ AnswerOption(h)
           \/ Confirm(h) \/ Reprompt(h)
    PROVE  Submitted'
<1>1. CASE StartFlow(h)
  <2>1. Sound(Conversation("awaiting_service", NoService, <<>>, 0))
    BY NothingKept DEF Sound, Conversation
  <2> QED
    BY <1>1, <2>1, DecideSubmitted DEF StartFlow
<1>2. CASE SelectService(h)
  <2>1. Sound(Conversation("asking_questions", update[h].choice, <<>>, 0))
    BY NothingKept DEF Sound, Conversation
  <2> QED
    BY <1>2, <2>1, DecideSubmitted DEF SelectService
<1>3. CASE AnswerText(h)
  <2>1. pc[h] = "decide" /\ State(h) = "asking_questions" /\ Record(h, update[h].file)
    BY <1>3 DEF AnswerText, AnswersText, IsText
  <2>2. update[h].file \in BOOLEAN
    BY <2>1, Decides, UpdateFields
  <2> QED
    BY <2>1, <2>2, RecordSubmitted
<1>4. CASE AnswerOption(h)
  BY <1>4, RecordSubmitted DEF AnswerOption, AnswersOption, Pressed
<1>5. CASE Confirm(h)
  <2>1. /\ conv[h] \in Conversations /\ conv[h].state = "confirming"
        /\ Decide(h, [conv[h] EXCEPT !.state = "ticket_open"], "save_open")
    BY <1>5 DEF Confirm, Confirms, State, TypeInv, Shapes
  <2>2. Kept(conv[h]) /\ Whole(conv[h])
    BY <2>1 DEF Submitted, Sound
  <2>3. PICK c \in Conversations : /\ c = [conv[h] EXCEPT !.state = "ticket_open"]
                                   /\ c.state = "ticket_open" /\ Kept(c) /\ Whole(c)
    BY <2>1, <2>2, WithState, StateKeeps DEF States
  <2> QED
    BY <2>1, <2>3, DecideSubmitted DEF Sound
<1>6. CASE Reprompt(h)
  BY <1>6, DecideSubmitted DEF Reprompt, Submitted
<1> QED
  BY <1>1, <1>2, <1>3, <1>4, <1>5, <1>6

LEMMA HandlerSubmitted ==
    ASSUME Submitted, TypeInv, NEW h \in Handlers, Deliver(h) \/ Step(h)
    PROVE  Submitted'
<1>0. /\ (saved # NoConversation => Sound(saved))
      /\ (request # NoConversation => Whole(request) /\ Kept(request))
      /\ conv[h] \in Conversations /\ Sound(conv[h])
  BY DEF Submitted, TypeInv, Shapes
<1>1. CASE Deliver(h)
  BY <1>1, AwaySubmitted DEF Deliver, Goto, TypeInv, Shapes
<1>2. CASE Mark(h)
  <2>1. UNCHANGED <<saved, request>>
    BY <1>2 DEF Mark
  <2>2. CASE Return(h)
    BY <1>0, <2>1, <2>2, ReturnSubmitted
  <2>3. CASE Goto(h, "lock") /\ UNCHANGED conv
    BY <2>1, <2>3, AwaySubmitted DEF Goto, TypeInv, Shapes
  <2> QED
    BY <1>2, <2>2, <2>3 DEF Mark
<1>3. CASE Load(h)
  <2> DEFINE c == IF saved # NoConversation THEN saved
                  ELSE [Idle EXCEPT !.state = IF open THEN "ticket_open" ELSE "idle"]
  <2>1. Sound(c)
    <3>1. CASE saved # NoConversation
      BY <1>0, <3>1
    <3>2. CASE saved = NoConversation
      <4>1. PICK s \in {"idle", "ticket_open"} : s = IF open THEN "ticket_open" ELSE "idle"
        OBVIOUS
      <4>2. c = [Idle EXCEPT !.state = s]
        BY <3>2, <4>1
      <4> HIDE DEF c
      <4> QED
        BY <4>2, IdleSound
    <3> QED
      BY <3>1, <3>2
  <2>2. /\ conv' = [conv EXCEPT ![h] = c]
        /\ pc'[h] = "decide" /\ \A g \in Handlers \ {h} : pc'[g] = pc[g]
        /\ UNCHANGED <<saved, request>>
    BY <1>3 DEF Load, Goto, TypeInv, Shapes
  <2> HIDE DEF c
  <2> QED
    BY <1>0, <2>1, <2>2, ConvSubmitted
<1>4. CASE LoadFails(h) \/ Ignore(h)
  BY <1>0, <1>4, ReturnSubmitted DEF LoadFails, Ignore
<1>5. CASE Create(h)
  <2>1. Return(h) /\ request' = conv[h] /\ UNCHANGED saved /\ pc[h] = "create"
    BY <1>5 DEF Create
  <2>2. Whole(conv[h]) /\ Kept(conv[h])
    BY <2>1 DEF Submitted, Sound
  <2> QED
    BY <1>0, <2>1, <2>2, ReturnSubmitted
<1>6. CASE Send(h)
  BY <1>0, <1>6, ReturnSubmitted DEF Send
<1>7. CASE SaveLast(h) \/ CreateFails(h)
  <2>1. /\ pc[h] \in {"save_last", "create"} /\ UNCHANGED request
        /\ conv' = [conv EXCEPT ![h].state = "confirming"]
        /\ saved' \in {saved, conv[h]}
        /\ pc'[h] = "save" /\ \A g \in Handlers \ {h} : pc'[g] = pc[g]
    BY <1>7 DEF SaveLast, CreateFails, SetFSM, Goto, TypeInv, Shapes
  <2>2. Kept(conv[h]) /\ Whole(conv[h])
    BY <2>1 DEF Submitted, Sound
  <2>3. PICK c \in Conversations : /\ c = [conv[h] EXCEPT !.state = "confirming"]
                                   /\ c.state = "confirming" /\ Kept(c) /\ Whole(c)
    BY <1>0, <2>2, WithState, StateKeeps DEF States
  <2>4. conv' = [conv EXCEPT ![h] = c]
    BY <2>1, <2>3
  <2>5. Sound(c) /\ (saved' # NoConversation => Sound(saved'))
    BY <1>0, <2>1, <2>3 DEF Sound
  <2> QED
    BY <1>0, <2>1, <2>4, <2>5, ConvSubmitted
<1>8. CASE Save(h)
  <2>1. /\ UNCHANGED <<conv, request>> /\ saved' \in {saved, conv[h]}
        /\ pc[h] \in {"save", "save_open"}
        /\ pc'[h] = IF pc[h] = "save" THEN "send" ELSE "create"
        /\ \A g \in Handlers \ {h} : pc'[g] = pc[g]
    BY <1>8 DEF Save, SetFSM, Goto, TypeInv, Shapes
  <2>2. pc'[h] \in {"save_last", "save_open", "create"} => Whole(conv[h])
    BY <2>1 DEF Submitted
  <2>3. conv' = [conv EXCEPT ![h] = conv[h]]
    BY <2>1 DEF TypeInv, Shapes
  <2> QED
    BY <1>0, <2>1, <2>2, <2>3, ConvSubmitted
<1>9. CASE \/ StartFlow(h) \/ SelectService(h) \/ AnswerText(h) \/ AnswerOption(h)
           \/ Confirm(h) \/ Reprompt(h)
  BY <1>9, DecidingSubmitted
<1> QED
  BY <1>1, <1>2, <1>3, <1>4, <1>5, <1>6, <1>7, <1>8, <1>9 DEF Step

LEMMA StepSubmitted ==
    ASSUME Submitted, TypeInv, [Next]_vars
    PROVE  Submitted'
<1>1. CASE UNCHANGED vars
  BY <1>1, AwaySubmitted DEF vars, handler
<1>2. CASE Type \/ Press \/ Stray \/ Hurry
  BY <1>2, AwaySubmitted DEF Type, Press, Stray, Hurry, Post, handler
<1>3. CASE Expire \/ Close
  BY <1>3, AwaySubmitted DEF Expire, Close, handler
<1>4. CASE Crash
  <2>1. UNCHANGED <<saved, request>> /\ \A h \in Handlers : conv'[h] = Idle /\ pc'[h] = "free"
    BY <1>4 DEF Crash
  <2> QED
    BY <2>1, IdleSound DEF Submitted, Sound, Kept, Whole
<1> QED
  BY <1>1, <1>2, <1>3, <1>4, HandlerSubmitted DEF Next

LEMMA SubmittedComplete == Submitted => RequestComplete
BY DEF Submitted, RequestComplete, Whole, Kept, WithFiles

\* A request has an answer to every question of its script and the files sent
\* with them, for every script and whatever fails: the confirmation is only
\* reached with the script answered, by the path of the last answer or, past
\* it, of any text, and a crash, a lost save or an expired conversation leaves
\* in Redis nothing that is confirming and not whole.
THEOREM RequestsComplete == Spec => []RequestComplete
<1>1. Spec => [](TypeInv /\ Submitted)
  BY InitType, StepType, InitSubmitted, StepSubmitted, PTL DEF Spec
<1> QED
  BY <1>1, SubmittedComplete, PTL

-----------------------------------------------------------------------------
(* An update becomes one answer *)

PastMark(h) == pc[h] \notin {"free", "mark"}

\* The deduplication at work: past the check, an update is marked and in no
\* other handler's hands, and until the decision it has become no answer.
Alone(h) ==
    /\ PastMark(h) => update[h].id \in marked
    /\ pc[h] \in {"lock", "decide"} => used[update[h].id] = 0
    /\ \A g \in Handlers \ {h} : PastMark(h) /\ PastMark(g) => update[g].id # update[h].id

Counted(i) == used[i] <= 1 /\ (i \notin marked => used[i] = 0)

Once == (\A h \in Handlers : Alone(h)) /\ (\A i \in Ids : Counted(i))

OnceUnlessRedis == "redis" \notin happened => Once

LEMMA InitOnce == Init => OnceUnlessRedis
BY DEF Init, OnceUnlessRedis, Once, Alone, PastMark, Counted, Ids

\* A handler that returns, or goes on without recording, changes nothing.
LEMMA OnwardOnce ==
    ASSUME Once, TypeInv, NEW h \in Handlers, UNCHANGED <<marked, used>>,
           \A g \in Handlers \ {h} : pc'[g] = pc[g] /\ update'[g] = update[g],
           \/ pc'[h] \in {"free", "mark"}
           \/ PastMark(h) /\ update'[h] = update[h] /\ (pc'[h] = "lock" => pc[h] = "lock")
                          /\ (pc'[h] = "decide" => pc[h] = "lock")
    PROVE  Once'
<1>1. Alone(h)'
  BY DEF Once, Alone, PastMark
<1>2. ASSUME NEW g \in Handlers \ {h} PROVE Alone(g)'
  BY DEF Once, Alone, PastMark
<1>3. ASSUME NEW i \in Ids PROVE Counted(i)'
  BY DEF Once, Counted
<1> QED
  BY <1>1, <1>2, <1>3 DEF Once

LEMMA ReturnMoves ==
    ASSUME TypeInv, NEW h \in Handlers, Return(h)
    PROVE  /\ pc'[h] = "free" /\ update'[h] = NoUpdate
           /\ \A g \in Handlers \ {h} : pc'[g] = pc[g] /\ update'[g] = update[g]
BY DEF Return, Goto, TypeInv, Shapes

LEMMA GotoMoves ==
    ASSUME TypeInv, NEW h \in Handlers, NEW place, Goto(h, place)
    PROVE  pc'[h] = place /\ \A g \in Handlers \ {h} : pc'[g] = pc[g]
BY DEF Goto, TypeInv, Shapes

\* An answer: the only step that counts.
LEMMA AnswerOnce ==
    ASSUME Once, TypeInv, NEW h \in Handlers, pc[h] = "decide",
           NEW place \in {"save", "save_last"}, Goto(h, place), UNCHANGED <<marked, update>>,
           used' = [used EXCEPT ![update[h].id] = @ + 1]
    PROVE  Once'
<1>1. /\ pc'[h] = place /\ \A g \in Handlers \ {h} : pc'[g] = pc[g]
      /\ update[h].id \in Ids /\ used \in [Ids -> Nat]
  BY GotoMoves, Decides, UpdateFields
<1>2. used'[update[h].id] = 1 /\ \A i \in Ids \ {update[h].id} : used'[i] = used[i]
  BY <1>1 DEF Once, Alone
<1>3. Alone(h)'
  BY <1>1 DEF Once, Alone, PastMark
<1>4. ASSUME NEW g \in Handlers \ {h} PROVE Alone(g)'
  <2>1. PastMark(g) => update[g].id # update[h].id
    BY <1>1 DEF Once, Alone, PastMark
  <2>2. pc[g] # "free" => update[g].id \in Ids
    BY UpdateFields DEF TypeInv, Shapes, Held, Holds
  <2> QED
    BY <1>1, <1>2, <2>1, <2>2 DEF Once, Alone, PastMark
<1>5. ASSUME NEW i \in Ids PROVE Counted(i)'
  BY <1>1, <1>2 DEF Once, Alone, Counted, PastMark
<1> QED
  BY <1>3, <1>4, <1>5 DEF Once

LEMMA RecordOnce ==
    ASSUME Once, TypeInv, NEW h \in Handlers, NEW file \in BOOLEAN,
           pc[h] = "decide", State(h) = "asking_questions", Record(h, file)
    PROVE  Once'
<1>1. CASE /\ \E place \in {"save", "save_last"} : Decide(h, Answered(conv[h], update[h], file), place)
           /\ used' = [used EXCEPT ![update[h].id] = @ + 1]
  BY <1>1, AnswerOnce DEF Decide
<1>2. CASE Decide(h, Filed(conv[h], file), "save_last") /\ UNCHANGED used
  <2>1. pc'[h] = "save_last" /\ \A g \in Handlers \ {h} : pc'[g] = pc[g]
    BY <1>2, GotoMoves DEF Decide
  <2> QED
    BY <1>2, <2>1, OnwardOnce DEF Decide, PastMark
<1> QED
  BY <1>1, <1>2, RecordCases

LEMMA MarkOnce ==
    ASSUME Once, TypeInv, NEW h \in Handlers, Mark(h), "redis" \notin happened'
    PROVE  Once'
<1>1. /\ pc[h] = "mark" /\ update[h].id \in Ids /\ UNCHANGED used
  BY UpdateFields DEF Mark, TypeInv, Shapes, Held, Holds
<1>2. CASE Return(h) /\ UNCHANGED marked
  BY <1>1, <1>2, ReturnMoves, OnwardOnce
<1>3. CASE /\ update[h].id \notin marked
           /\ marked' = marked \cup {update[h].id}
           /\ Goto(h, "lock")
           /\ UNCHANGED update
  <2>1. pc'[h] = "lock" /\ \A g \in Handlers \ {h} : pc'[g] = pc[g]
    BY <1>3, GotoMoves
  <2>2. used[update[h].id] = 0
    BY <1>1, <1>3 DEF Once, Counted
  <2>3. ASSUME NEW g \in Handlers \ {h}, PastMark(g) PROVE update[g].id # update[h].id
    BY <1>3, <2>3 DEF Once, Alone
  <2>4. Alone(h)'
    BY <1>1, <1>3, <2>1, <2>2, <2>3 DEF Alone, PastMark
  <2>5. ASSUME NEW g \in Handlers \ {h} PROVE Alone(g)'
    <3>1. \A f \in Handlers \ {g} : PastMark(g)' /\ PastMark(f)' => update'[f].id # update'[g].id
      BY <1>3, <2>1, <2>3 DEF Once, Alone, PastMark
    <3>2. PastMark(g)' => update'[g].id \in marked'
      BY <1>3, <2>1 DEF Once, Alone, PastMark
    <3>3. pc'[g] \in {"lock", "decide"} => used'[update'[g].id] = 0
      BY <1>1, <1>3, <2>1 DEF Once, Alone
    <3> QED
      BY <3>1, <3>2, <3>3 DEF Alone
  <2>6. ASSUME NEW i \in Ids PROVE Counted(i)'
    BY <1>1, <1>3 DEF Once, Counted
  <2> QED
    BY <2>4, <2>5, <2>6 DEF Once
<1>4. CASE Event("redis")
  BY <1>4, EventHappens DEF TypeInv
<1> QED
  BY <1>2, <1>3, <1>4 DEF Mark

LEMMA HandlerOnce ==
    ASSUME OnceUnlessRedis, TypeInv, NEW h \in Handlers, Deliver(h) \/ Step(h)
    PROVE  OnceUnlessRedis'
<1> SUFFICES ASSUME "redis" \notin happened' PROVE Once'
  BY DEF OnceUnlessRedis
<1>0. Once
  BY DEF OnceUnlessRedis, Deliver, Step, Mark, Load, LoadFails, StartFlow, SelectService,
         AnswerText, AnswerOption, Record, Confirm, Reprompt, Decide, Ignore, SaveLast, Save,
         SetFSM, Create, CreateFails, Send, Event
<1>1. CASE Deliver(h)
  <2>1. /\ UNCHANGED <<marked, used>> /\ pc'[h] = "mark"
        /\ \A g \in Handlers \ {h} : pc'[g] = pc[g] /\ update'[g] = update[g]
    BY <1>1, GotoMoves DEF Deliver, TypeInv, Shapes
  <2> QED
    BY <1>0, <2>1, OnwardOnce
<1>2. CASE Mark(h)
  BY <1>0, <1>2, MarkOnce
<1>3. CASE LoadFails(h) \/ Ignore(h) \/ Create(h) \/ Send(h)
  <2>1. Return(h) /\ UNCHANGED <<marked, used>>
    BY <1>3 DEF LoadFails, Ignore, Create, Send
  <2> QED
    BY <1>0, <2>1, ReturnMoves, OnwardOnce
<1>4. CASE Load(h) \/ SaveLast(h) \/ Save(h) \/ CreateFails(h)
  <2>1. PICK place \in Handling :
           /\ Goto(h, place) /\ UNCHANGED <<marked, update, used>>
           /\ PastMark(h) /\ (place = "decide" => pc[h] = "lock")
    BY <1>4 DEF Load, SaveLast, Save, CreateFails, PastMark, Handling
  <2>2. pc'[h] = place /\ \A g \in Handlers \ {h} : pc'[g] = pc[g]
    BY <2>1, GotoMoves
  <2> QED
    BY <1>0, <2>1, <2>2, OnwardOnce DEF Handling
<1>5. CASE StartFlow(h) \/ SelectService(h) \/ Confirm(h) \/ Reprompt(h)
  <2>1. PICK place \in {"save", "save_open", "send"} :
           Goto(h, place) /\ UNCHANGED <<marked, update, used>> /\ pc[h] = "decide"
    BY <1>5 DEF StartFlow, Starts, SelectService, Selects, Confirm, Confirms, Reprompt, Reprompts,
                IsText, Pressed, Decide
  <2>2. pc'[h] = place /\ \A g \in Handlers \ {h} : pc'[g] = pc[g]
    BY <2>1, GotoMoves
  <2> QED
    BY <1>0, <2>1, <2>2, OnwardOnce DEF PastMark
<1>6. CASE AnswerText(h)
  <2>1. pc[h] = "decide" /\ State(h) = "asking_questions" /\ Record(h, update[h].file)
    BY <1>6 DEF AnswerText, AnswersText, IsText
  <2>2. update[h].file \in BOOLEAN
    BY <2>1, Decides, UpdateFields
  <2> QED
    BY <1>0, <2>1, <2>2, RecordOnce
<1>7. CASE AnswerOption(h)
  BY <1>0, <1>7, RecordOnce DEF AnswerOption, AnswersOption, Pressed
<1> QED
  BY <1>1, <1>2, <1>3, <1>4, <1>5, <1>6, <1>7 DEF Step

\* A new update has an id that no handler holds, and starts from nothing.
LEMMA PostOnce ==
    ASSUME Once, TypeInv, NEW kind, NEW on, NEW choice, NEW file, Post(kind, on, choice, file)
    PROVE  Once'
<1>1. /\ FreeId \in Ids \ InUse
      /\ marked' = marked \ {FreeId} /\ used' = [used EXCEPT ![FreeId] = 0]
      /\ UNCHANGED <<pc, update>>
  BY FreeIdIsFree DEF Post, handler
<1>2. \A h \in Handlers : update[h].id # FreeId
  BY <1>1 DEF InUse
<1>3. ASSUME NEW h \in Handlers PROVE Alone(h)'
  <2>1. pc[h] # "free" => update[h].id \in Ids
    BY UpdateFields DEF TypeInv, Shapes, Held, Holds
  <2>2. pc[h] \in {"lock", "decide"} => used'[update[h].id] = 0
    BY <1>1, <1>2, <2>1 DEF Once, Alone, TypeInv, Shapes
  <2> QED
    BY <1>1, <1>2, <2>1, <2>2 DEF Once, Alone, PastMark
<1>4. ASSUME NEW i \in Ids PROVE Counted(i)'
  BY <1>1 DEF Once, Counted, TypeInv, Shapes
<1> QED
  BY <1>3, <1>4 DEF Once

LEMMA StepOnce ==
    ASSUME OnceUnlessRedis, TypeInv, [Next]_vars
    PROVE  OnceUnlessRedis'
<1>1. CASE UNCHANGED vars
  BY <1>1 DEF vars, handler, OnceUnlessRedis, Once, Alone, PastMark, Counted
<1>2. CASE Type \/ Press \/ Stray \/ Hurry
  <2> SUFFICES ASSUME "redis" \notin happened' PROVE Once'
    BY DEF OnceUnlessRedis
  <2>1. Once
    BY <1>2 DEF OnceUnlessRedis, Type, Press, Stray, Hurry, Event
  <2> QED
    BY <1>2, <2>1, PostOnce DEF Type, Press, Stray, Hurry
<1>3. CASE Expire \/ Close
  BY <1>3 DEF Expire, Close, Event, handler, OnceUnlessRedis, Once, Alone, PastMark, Counted
<1>4. CASE Crash
  BY <1>4 DEF Crash, Event, OnceUnlessRedis, Once, Alone, PastMark, Counted
<1> QED
  BY <1>1, <1>2, <1>3, <1>4, HandlerOnce DEF Next

\* Unless Redis fails, and the check with it, an update becomes one answer:
\* the mark of MarkUpdateProcessed is set before the update is handled and
\* outlives the handler and the process, so that a redelivery is dropped
\* whether it comes beside the first, after it or after a crash.
THEOREM RecordsOnce == Spec => []RecordedOnce
<1>1. Spec => [](TypeInv /\ OnceUnlessRedis)
  BY InitType, StepType, InitOnce, StepOnce, PTL DEF Spec
<1>2. OnceUnlessRedis => RecordedOnce
  BY DEF OnceUnlessRedis, Once, Counted, RecordedOnce
<1> QED
  BY <1>1, <1>2, PTL

-----------------------------------------------------------------------------
(* Answers fit their questions *)

\* An update that can become an answer.
Real(u) == u.kind = "text" \/ (u.kind = "press" /\ u.on.ask = "question")

NextOf(c) == Question(c.service, Len(c.answers) + 1)
More(c) == c.state = "asking_questions" /\ Len(c.answers) < Len(Script[c.service])

\* The client sees the question that its conversation is at.
Synced == saved # NoConversation /\ More(saved) => shown = NextOf(saved)

\* An answer that no handler has come to decide on: it waits for the first
\* delivery, or for the chat lock.
Waiting(u) ==
    /\ Real(u)
    /\ \/ u.id \notin marked /\ \E k \in DOMAIN inbox : inbox[k] = u
       \/ \E h \in Handlers : pc[h] = "lock" /\ update[h] = u

\* Meanwhile nobody handles anything, the client's screen is the one it was
\* given to, and until its 200 only it is delivered.
FirstInLine(u) ==
    /\ lock = Nobody /\ u.on = shown
    /\ \A k \in DOMAIN inbox : inbox[k].id = u.id =>
          k = 1 /\ \A g \in Handlers : update[g].id \in {0, u.id}

First == \A u \in Updates : Waiting(u) => FirstInLine(u)

\* What is delivered is the head of the inbox, which stays until it is marked.
Line ==
    /\ \A k, l \in DOMAIN inbox : inbox[k].id = inbox[l].id => k = l
    /\ \A k \in DOMAIN inbox, h \in Handlers :
          inbox[k].id = update[h].id => inbox[k] = update[h] /\ k = 1
    /\ \A h \in Handlers : pc[h] = "mark" /\ update[h].id \notin marked =>
          \E k \in DOMAIN inbox : inbox[k] = update[h]

\* A handler decides on the conversation that the client has been shown, and
\* prompts for, or submits, the one it has saved.
Follows(h) ==
    /\ Fits(conv[h])
    /\ pc[h] \in Handling \ {"decide"} => ~open
    /\ pc[h] = "decide" =>
          /\ open => conv[h].state = "ticket_open"
          /\ Synced
          /\ saved = conv[h] \/ conv[h].state \in {"idle", "ticket_open"}
          /\ Real(update[h]) /\ More(conv[h]) => update[h].on = NextOf(conv[h])
    /\ pc[h] \in {"send", "create"} => saved = conv[h]

Following ==
    /\ open => saved = NoConversation \/ saved.state = "ticket_open"
    /\ (\A h \in Handlers : pc[h] \notin Handling) => Synced
    /\ saved # NoConversation => Fits(saved)
    /\ \A h \in Handlers : Follows(h)

InOrder == Line /\ First /\ Following

InOrderUnlessFaults == happened \subseteq {"redelivery"} => InOrder

LEMMA IdsInUse ==
    ASSUME TypeInv
    PROVE  /\ 0 \notin Ids /\ NoUpdate.id = 0
           /\ \A k \in DOMAIN inbox : inbox[k] \in Updates /\ inbox[k].id \in Ids
           /\ \A h \in Handlers : pc[h] = "free" <=> update[h].id = 0
           /\ \A h \in Handlers : pc[h] # "free" => update[h] \in Updates /\ update[h].id \in Ids
<1>1. \A k \in DOMAIN inbox : inbox[k] \in Updates
  BY ElementOfSeq, LenProperties DEF TypeInv, Shapes
<1>2. \A h \in Handlers : update[h] \in Updates \/ update[h] = NoUpdate
  BY DEF TypeInv, Shapes
<1> QED
  BY <1>1, <1>2, UpdateFields, NoUpdateFields DEF TypeInv, Held, Holds, Ids

LEMMA InitInOrder == Init => InOrder
<1> SUFFICES ASSUME Init PROVE InOrder
  OBVIOUS
<1>1. saved = NoConversation /\ inbox = <<>> /\ DOMAIN inbox = {} /\ open = FALSE
  BY DEF Init
<1>2. \A h \in Handlers : conv[h] = Idle /\ pc[h] = "free"
  BY DEF Init
<1>3. Fits(Idle)
  BY NewConversation DEF Idle, States, Fits
<1>4. Line
  BY <1>1, <1>2 DEF Line
<1>5. First
  BY <1>1, <1>2 DEF First, Waiting
<1>6. Following
  BY <1>1, <1>2, <1>3 DEF Following, Follows, Synced, Handling
<1> QED
  BY <1>4, <1>5, <1>6 DEF InOrder

-----------------------------------------------------------------------------
(* The line of updates *)

LEMMA PostLine ==
    ASSUME InOrder, TypeInv, NEW kind, NEW on, NEW choice, NEW file,
           Post(kind, on, choice, file),
           [id |-> FreeId, kind |-> kind, on |-> on, choice |-> choice, file |-> file] \in Updates,
           (Quiet /\ on = shown)
             \/ ~Real([id |-> FreeId, kind |-> kind, on |-> on, choice |-> choice, file |-> file])
    PROVE  Line' /\ First'
<1> DEFINE v == [id |-> FreeId, kind |-> kind, on |-> on, choice |-> choice, file |-> file]
<1>1. /\ FreeId \in Ids \ InUse /\ v.id = FreeId /\ v.on = on
      /\ marked' = marked \ {FreeId} /\ inbox' = Append(inbox, v)
      /\ UNCHANGED <<pc, update, lock, shown>>
  BY FreeIdIsFree DEF Post, handler
<1>2. v \in Updates /\ ((Quiet /\ on = shown) \/ ~Real(v))
  OBVIOUS
<1> HIDE DEF v
<1>3. /\ inbox \in Seq(Updates) /\ Len(inbox) \in Nat
      /\ DOMAIN inbox' = DOMAIN inbox \cup {Len(inbox) + 1}
      /\ Len(inbox) + 1 \notin DOMAIN inbox
      /\ inbox'[Len(inbox) + 1] = v /\ \A k \in DOMAIN inbox : inbox'[k] = inbox[k]
  BY <1>1, <1>2, Longer, LenProperties DEF TypeInv, Shapes
<1>4. /\ \A k \in DOMAIN inbox : inbox[k].id # FreeId
      /\ \A h \in Handlers : update[h].id # FreeId
  BY <1>1 DEF InUse
<1>5. Line'
  <2>1. (\A k, l \in DOMAIN inbox : inbox[k].id = inbox[l].id => k = l)'
    BY <1>1, <1>3, <1>4 DEF InOrder, Line
  <2>2. (\A k \in DOMAIN inbox, h \in Handlers :
           inbox[k].id = update[h].id => inbox[k] = update[h] /\ k = 1)'
    BY <1>1, <1>3, <1>4 DEF InOrder, Line
  <2>3. (\A h \in Handlers : pc[h] = "mark" /\ update[h].id \notin marked =>
           \E k \in DOMAIN inbox : inbox[k] = update[h])'
    BY <1>1, <1>3, <1>4 DEF InOrder, Line
  <2> QED
    BY <2>1, <2>2, <2>3 DEF Line
<1>6. ASSUME NEW u \in Updates, Waiting(u)'
      PROVE  FirstInLine(u)'
  <2>1. CASE u = v
    <3>1. Real(v)
      BY <1>6, <2>1 DEF Waiting, Real
    <3>2. /\ inbox = <<>> /\ on = shown /\ Len(inbox) = 0
          /\ \A h \in Handlers : pc[h] = "free" /\ update[h] = NoUpdate
      BY <1>2, <3>1, <1>3, EmptySeq DEF Quiet, TypeInv, Held, Holds
    <3>3. lock = Nobody
      BY <3>2 DEF TypeInv, Shapes, Held, Holds, Handling
    <3>4. \A k \in DOMAIN inbox' : k = 1
      BY <1>3, <3>2, LenProperties
    <3> QED
      BY <1>1, <2>1, <3>2, <3>3, <3>4, NoUpdateFields DEF FirstInLine
  <2>2. CASE u # v
    <3>1. Waiting(u) /\ u.id # FreeId
      BY <1>1, <1>3, <1>4, <1>6, <2>2 DEF Waiting, Real
    <3>2. FirstInLine(u)
      BY <3>1 DEF InOrder, First
    <3> QED
      BY <1>1, <1>3, <3>1, <3>2 DEF FirstInLine
  <2> QED
    BY <2>1, <2>2
<1> QED
  BY <1>5, <1>6 DEF First

LEMMA DeliverLine ==
    ASSUME InOrder, TypeInv, NEW h \in Handlers, Deliver(h)
    PROVE  Line' /\ First'
<1>1. /\ pc[h] = "free" /\ pc'[h] = "mark" /\ update'[h] = inbox[1] /\ 1 \in DOMAIN inbox
      /\ \A g \in Handlers \ {h} : pc'[g] = pc[g] /\ update'[g] = update[g]
      /\ UNCHANGED <<marked, inbox, lock, shown>>
  BY Shorter, GotoMoves DEF Deliver, client, TypeInv, Shapes
<1>2. Line'
  <2>1. (\A k \in DOMAIN inbox, g \in Handlers :
           inbox[k].id = update[g].id => inbox[k] = update[g] /\ k = 1)'
    BY <1>1 DEF InOrder, Line
  <2>2. (\A g \in Handlers : pc[g] = "mark" /\ update[g].id \notin marked =>
           \E k \in DOMAIN inbox : inbox[k] = update[g])'
    BY <1>1 DEF InOrder, Line
  <2> QED
    BY <1>1, <2>1, <2>2 DEF InOrder, Line
<1>3. ASSUME NEW u \in Updates, Waiting(u)'
      PROVE  FirstInLine(u)'
  <2>1. Waiting(u)
    BY <1>1, <1>3 DEF Waiting, Real
  <2>2. FirstInLine(u)
    BY <2>1 DEF InOrder, First
  <2> QED
    BY <1>1, <2>2 DEF FirstInLine
<1> QED
  BY <1>2, <1>3 DEF First

\* What a handler takes out of the inbox when it returns is its own update.
LEMMA ReturnInbox ==
    ASSUME TypeInv, Line, NEW h \in Handlers, Return(h)
    PROVE  \/ inbox' = inbox
           \/ /\ inbox[1].id = update[h].id /\ 1 \in DOMAIN inbox
              /\ \A k \in DOMAIN inbox' : k + 1 \in DOMAIN inbox /\ inbox'[k] = inbox[k + 1]
                                          /\ k + 1 # 1
              /\ \A k \in DOMAIN inbox : k = 1 \/ \E l \in DOMAIN inbox' : inbox'[l] = inbox[k]
<1>1. CASE inbox' = inbox
  BY <1>1
<1>2. CASE inbox # <<>> /\ Head(inbox).id = update[h].id /\ inbox' = Tail(inbox)
  <2>1. inbox \in Seq(Updates)
    BY DEF TypeInv, Shapes
  <2>2. /\ Head(inbox) = inbox[1] /\ 1 \in DOMAIN inbox
        /\ \A k \in DOMAIN inbox' : k + 1 \in DOMAIN inbox /\ inbox'[k] = inbox[k + 1]
        /\ \A k \in DOMAIN inbox : k = 1 \/ \E l \in DOMAIN inbox' : inbox'[l] = inbox[k]
    BY <1>2, <2>1, Shorter
  <2>3. inbox' \in Seq(Updates)
    BY <1>2, <2>1, Shorter
  <2>4. \A k \in DOMAIN inbox' : k + 1 # 1
    BY <2>3, LenProperties
  <2> QED
    BY <1>2, <2>2, <2>4
<1> QED
  BY <1>1, <1>2 DEF Return

LEMMA ReturnLine ==
    ASSUME InOrder, TypeInv, NEW h \in Handlers, Return(h), UNCHANGED marked,
           update[h].id \in marked
    PROVE  Line'
<1>1. /\ pc'[h] = "free" /\ update'[h] = NoUpdate
      /\ \A g \in Handlers \ {h} : pc'[g] = pc[g] /\ update'[g] = update[g]
  BY ReturnMoves
<1>2. \A k \in DOMAIN inbox : inbox[k].id # NoUpdate.id
  BY IdsInUse
<1>3. CASE inbox' = inbox
  BY <1>1, <1>2, <1>3 DEF InOrder, Line
<1>4. CASE /\ inbox[1].id = update[h].id /\ 1 \in DOMAIN inbox
           /\ \A k \in DOMAIN inbox' : k + 1 \in DOMAIN inbox /\ inbox'[k] = inbox[k + 1]
                                       /\ k + 1 # 1
           /\ \A k \in DOMAIN inbox : k = 1 \/ \E l \in DOMAIN inbox' : inbox'[l] = inbox[k]
  <2>1. inbox' \in Seq(Updates)
    BY Shorter DEF Return, TypeInv, Shapes
  <2>2. (\A k, l \in DOMAIN inbox : inbox[k].id = inbox[l].id => k = l)'
    <3> SUFFICES ASSUME NEW k \in DOMAIN inbox', NEW l \in DOMAIN inbox',
                        inbox'[k].id = inbox'[l].id
                 PROVE  k = l
      OBVIOUS
    <3>1. k + 1 = l + 1
      BY <1>4 DEF InOrder, Line
    <3>2. k \in Int /\ l \in Int
      BY <2>1, LenProperties
    <3> QED
      BY <3>1, <3>2
  <2>3. (\A k \in DOMAIN inbox, g \in Handlers :
           inbox[k].id = update[g].id => inbox[k] = update[g] /\ k = 1)'
    <3> SUFFICES ASSUME NEW k \in DOMAIN inbox', NEW g \in Handlers,
                        inbox'[k].id = update'[g].id
                 PROVE  FALSE
      OBVIOUS
    <3>1. inbox[k + 1].id = update'[g].id /\ k + 1 \in DOMAIN inbox /\ k + 1 # 1
      BY <1>4
    <3>2. g # h
      BY <1>1, <1>2, <3>1
    <3> QED
      BY <1>1, <3>1, <3>2 DEF InOrder, Line
  <2>4. (\A g \in Handlers : pc[g] = "mark" /\ update[g].id \notin marked =>
           \E k \in DOMAIN inbox : inbox[k] = update[g])'
    <3> SUFFICES ASSUME NEW g \in Handlers, pc'[g] = "mark", update'[g].id \notin marked'
                 PROVE  \E k \in DOMAIN inbox' : inbox'[k] = update'[g]
      OBVIOUS
    <3>1. g # h /\ update'[g] = update[g]
      BY <1>1
    <3>2. PICK k \in DOMAIN inbox : inbox[k] = update[g]
      BY <1>1, <3>1 DEF InOrder, Line
    <3>3. k # 1
      BY <1>4, <3>1, <3>2
    <3> QED
      BY <1>4, <3>1, <3>2, <3>3
  <2> QED
    BY <2>2, <2>3, <2>4 DEF Line
<1> QED
  BY <1>3, <1>4, ReturnInbox DEF InOrder

\* A redelivery is dropped, and what waits goes on waiting.
LEMMA DropLine ==
    ASSUME InOrder, TypeInv, NEW h \in Handlers, pc[h] = "mark", Return(h),
           UNCHANGED <<marked, shown>>, update[h].id \in marked
    PROVE  Line' /\ First'
<1>1. /\ pc'[h] = "free" /\ update'[h] = NoUpdate
      /\ \A g \in Handlers \ {h} : pc'[g] = pc[g] /\ update'[g] = update[g]
  BY ReturnMoves
<1>2. lock' = lock
  BY DEF Return, TypeInv, Held, Holds, Handling
<1>3. \A k \in DOMAIN inbox' : \E l \in DOMAIN inbox :
         inbox'[k] = inbox[l] /\ (l = 1 => k = 1)
  BY ReturnInbox DEF InOrder
<1>4. ASSUME NEW u \in Updates, Waiting(u)'
      PROVE  FirstInLine(u)'
  <2>1. Waiting(u)
    BY <1>1, <1>3, <1>4 DEF Waiting, Real
  <2>2. FirstInLine(u)
    BY <2>1 DEF InOrder, First
  <2> QED
    BY <1>1, <1>2, <1>3, <2>2, NoUpdateFields DEF FirstInLine
<1> QED
  BY <1>4, ReturnLine DEF First

LEMMA FreshLine ==
    ASSUME InOrder, TypeInv, NEW h \in Handlers, pc[h] = "mark", Goto(h, "lock"),
           update[h].id \notin marked, marked' = marked \cup {update[h].id},
           UNCHANGED <<update, inbox, lock, shown>>
    PROVE  Line' /\ First'
<1>1. pc'[h] = "lock" /\ \A g \in Handlers \ {h} : pc'[g] = pc[g]
  BY GotoMoves
<1>2. Line'
  BY <1>1 DEF InOrder, Line
<1>3. ASSUME NEW u \in Updates, Waiting(u)'
      PROVE  FirstInLine(u)'
  <2>1. \E k \in DOMAIN inbox : inbox[k] = update[h]
    BY DEF InOrder, Line
  <2>2. Waiting(u)
    BY <1>1, <1>3, <2>1 DEF Waiting, Real
  <2>3. FirstInLine(u)
    BY <2>2 DEF InOrder, First
  <2> QED
    BY <2>3 DEF FirstInLine
<1> QED
  BY <1>2, <1>3 DEF First

\* The update that gets the lock leaves none waiting, or has overtaken it.
LEMMA LoadLine ==
    ASSUME InOrder, TypeInv, Once, NEW h \in Handlers, Load(h), "overtaking" \notin happened'
    PROVE  Line' /\ First'
<1>1. /\ pc[h] = "lock" /\ pc'[h] = "decide"
      /\ \A g \in Handlers \ {h} : pc'[g] = pc[g]
      /\ UNCHANGED <<marked, inbox, update>>
      /\ ~Overtakes(h)
  BY GotoMoves DEF Load
<1>2. Line'
  BY <1>1 DEF InOrder, Line
<1>3. update[h].id \in marked /\ update[h].id # 0
  BY <1>1, IdsInUse DEF Once, Alone, PastMark
<1>4. ASSUME NEW u \in Updates, Waiting(u)'
      PROVE  FALSE
  <2>1. Waiting(u)
    BY <1>1, <1>4 DEF Waiting, Real
  <2>2. FirstInLine(u)
    BY <2>1 DEF InOrder, First
  <2>3. CASE u.id \notin marked /\ \E k \in DOMAIN inbox : inbox[k] = u
    BY <1>3, <2>2, <2>3 DEF FirstInLine
  <2>4. CASE \E g \in Handlers : pc'[g] = "lock" /\ update[g] = u
    <3>1. PICK g \in Handlers : pc'[g] = "lock" /\ update[g] = u
      BY <2>4
    <3>2. g # h /\ pc[g] = "lock"
      BY <1>1, <3>1
    <3>3. u.id # update[h].id
      BY <1>1, <3>1, <3>2 DEF Once, Alone, PastMark
    <3>4. \A k \in DOMAIN inbox : inbox[k].id # u.id
      BY <1>3, <2>2, <3>3 DEF FirstInLine
    <3> QED
      BY <1>1, <3>1, <3>2, <3>3, <3>4 DEF Overtakes
  <2> QED
    BY <1>1, <1>4, <2>3, <2>4 DEF Waiting
<1> QED
  BY <1>2, <1>4 DEF First

\* While a handler has the lock no answer waits.
LEMMA LockedLine ==
    ASSUME InOrder, TypeInv, Once, NEW h \in Handlers, pc[h] \in Handling,
           UNCHANGED marked, \A g \in Handlers \ {h} : pc'[g] = pc[g] /\ update'[g] = update[g],
           \/ Return(h)
           \/ pc'[h] \in Handling /\ UNCHANGED <<inbox, update>>
    PROVE  Line' /\ First'
<1>1. lock = h /\ lock # Nobody /\ pc[h] # "mark" /\ pc[h] # "lock"
  BY NullAssumption DEF TypeInv, Held, Holds, Handling
<1>2. \A u \in Updates : ~Waiting(u)
  BY <1>1 DEF InOrder, First, FirstInLine
<1>3. \A k \in DOMAIN inbox' : \E l \in DOMAIN inbox : inbox'[k] = inbox[l]
  BY ReturnInbox DEF InOrder
<1>4. pc'[h] \notin {"mark", "lock"}
  BY ReturnMoves DEF Handling
<1>5. \A u \in Updates : ~Waiting(u)'
  BY <1>2, <1>3, <1>4 DEF Waiting, Real
<1>6. CASE Return(h)
  <2>1. update[h].id \in marked
    BY <1>1 DEF Once, Alone, PastMark, Handling
  <2> QED
    BY <1>5, <1>6, <2>1, ReturnLine DEF First
<1>7. CASE pc'[h] \in Handling /\ UNCHANGED <<inbox, update>>
  <2>1. Line'
    BY <1>4, <1>7 DEF InOrder, Line
  <2> QED
    BY <1>5, <2>1 DEF First
<1> QED
  BY <1>6, <1>7

-----------------------------------------------------------------------------
(* The conversation that is decided on *)

LEMMA FitsAppend ==
    ASSUME NEW c \in Conversations, NEW u \in Updates, NEW file \in BOOLEAN,
           c.service \in Services, Len(c.answers) < Len(Script[c.service]),
           Fits(c), u.on = NextOf(c)
    PROVE  Fits(Answered(c, u, file))
<1> DEFINE a == [meant |-> u.on, file |-> file]
<1>1. /\ Answered(c, u, file).service = c.service
      /\ Answered(c, u, file).answers = Append(c.answers, a)
      /\ a \in Answer /\ a.meant = u.on
  BY FiledType
<1>2. c.answers \in Seq(Answer)
  BY ConversationFields
<1> HIDE DEF a
<1>3. /\ DOMAIN Append(c.answers, a) = DOMAIN c.answers \cup {Len(c.answers) + 1}
      /\ Append(c.answers, a)[Len(c.answers) + 1] = a
      /\ \A k \in DOMAIN c.answers : Append(c.answers, a)[k] = c.answers[k]
  BY <1>1, <1>2, Longer
<1> QED
  BY <1>1, <1>3 DEF Fits, NextOf

\* Under the lock the handler is the only one that has a conversation.
LEMMA OnlyHandling ==
    ASSUME TypeInv, NEW h \in Handlers, pc[h] \in Handling
    PROVE  \A g \in Handlers \ {h} : pc[g] \notin Handling
BY DEF TypeInv, Held, Holds

\* Steps of a handler that has the lock, and keeps it.
LEMMA KeepFollowing ==
    ASSUME InOrder, TypeInv, NEW h \in Handlers, pc[h] \in Handling, pc'[h] \in Handling,
           \A g \in Handlers \ {h} : pc'[g] = pc[g] /\ conv'[g] = conv[g] /\ update'[g] = update[g],
           UNCHANGED open, ~open, saved' # NoConversation => Fits(saved'), Follows(h)'
    PROVE  Following'
<1>1. \A g \in Handlers \ {h} : pc[g] \notin Handling /\ pc'[g] \notin Handling
  BY OnlyHandling
<1>2. ASSUME NEW g \in Handlers \ {h} PROVE Follows(g)'
  BY <1>1 DEF InOrder, Following, Follows, Fits, Handling
<1>3. (saved # NoConversation => Fits(saved))'
  BY DEF Fits
<1> QED
  BY <1>2, <1>3 DEF Following

\* A handler gives the lock back with the client shown what is saved.
LEMMA ReturnFollowing ==
    ASSUME InOrder, TypeInv, NEW h \in Handlers, pc[h] \in Handling, Return(h),
           UNCHANGED saved, open' => saved = NoConversation \/ saved.state = "ticket_open",
           Synced'
    PROVE  Following'
<1>1. /\ pc'[h] = "free" /\ conv'[h] = Idle
      /\ \A g \in Handlers \ {h} : pc'[g] = pc[g] /\ conv'[g] = conv[g]
      /\ \A g \in Handlers \ {h} : pc[g] \notin Handling
  BY ReturnMoves, OnlyHandling DEF Return, TypeInv, Shapes
<1>2. Fits(Idle)
  BY NewConversation DEF Idle, States, Fits
<1>3. Follows(h)'
  BY <1>1, <1>2 DEF Follows, Fits, Handling
<1>4. ASSUME NEW g \in Handlers \ {h} PROVE Follows(g)'
  BY <1>1 DEF InOrder, Following, Follows, Fits, Handling
<1>5. (saved # NoConversation => Fits(saved))'
  BY DEF InOrder, Following, Fits
<1> QED
  BY <1>3, <1>4, <1>5 DEF Following

\* Steps outside the lock, and the client's.
LEMMA AwayFollowing ==
    ASSUME InOrder, TypeInv, UNCHANGED <<saved, open, shown>>,
           \A g \in Handlers :
              \/ pc'[g] = pc[g] /\ conv'[g] = conv[g] /\ update'[g] = update[g]
              \/ pc[g] \notin Handling /\ pc'[g] \notin Handling /\ conv'[g] \in {conv[g], Idle}
    PROVE  Following'
<1>1. Fits(Idle)
  BY NewConversation DEF Idle, States, Fits
<1>2. Synced' <=> Synced
  BY DEF Synced, More, NextOf
<1>3. ASSUME NEW g \in Handlers PROVE Follows(g)'
  <2>1. CASE pc'[g] = pc[g] /\ conv'[g] = conv[g] /\ update'[g] = update[g]
    BY <1>2, <2>1 DEF InOrder, Following, Follows, Fits, Real, More, NextOf
  <2>2. CASE pc[g] \notin Handling /\ pc'[g] \notin Handling /\ conv'[g] \in {conv[g], Idle}
    BY <1>1, <2>2 DEF InOrder, Following, Follows, Fits, Handling
  <2> QED
    BY <2>1, <2>2
<1>4. (saved # NoConversation => Fits(saved))'
  BY DEF InOrder, Following, Fits
<1>5. (\A h \in Handlers : pc[h] \notin Handling)' => Synced'
  BY <1>2 DEF InOrder, Following
<1> QED
  BY <1>3, <1>4, <1>5 DEF InOrder, Following

LEMMA LoadFollowing ==
    ASSUME InOrder, TypeInv, NEW h \in Handlers, Load(h), pc[h] = "lock"
    PROVE  Following'
<1> DEFINE c == IF saved # NoConversation THEN saved
                ELSE [Idle EXCEPT !.state = IF open THEN "ticket_open" ELSE "idle"]
<1>1. c \in Conversations /\ Fits(c) /\ (open => c.state = "ticket_open")
      /\ (saved = c \/ c.state \in {"idle", "ticket_open"})
  <2>1. CASE saved # NoConversation
    BY <2>1 DEF TypeInv, Shapes, InOrder, Following
  <2>2. CASE saved = NoConversation
    <3>1. PICK s \in {"idle", "ticket_open"} : s = IF open THEN "ticket_open" ELSE "idle"
      OBVIOUS
    <3>2. c = [Idle EXCEPT !.state = s]
      BY <2>2, <3>1
    <3> HIDE DEF c
    <3>3. c \in Conversations /\ c.state = s /\ c.answers = <<>>
      BY <3>2, NothingSaved
    <3>4. Fits(c)
      BY <3>3 DEF Fits
    <3> QED
      BY <3>1, <3>3, <3>4
  <2> QED
    BY <2>1, <2>2
<1>2. saved # NoConversation \/ ~More(c)
  <2> SUFFICES ASSUME saved = NoConversation PROVE ~More(c)
    OBVIOUS
  <2>1. PICK s \in {"idle", "ticket_open"} : s = IF open THEN "ticket_open" ELSE "idle"
    OBVIOUS
  <2>2. c = [Idle EXCEPT !.state = s]
    BY <2>1
  <2> HIDE DEF c
  <2> QED
    BY <2>2, NothingSaved DEF More
<1>3. saved # NoConversation => c = saved
  OBVIOUS
<1>4. /\ conv' = [conv EXCEPT ![h] = c] /\ Goto(h, "decide") /\ lock = Nobody
      /\ UNCHANGED <<saved, open, update, shown>>
  BY DEF Load, client
<1> HIDE DEF c
<1>5. /\ pc'[h] = "decide" /\ conv'[h] = c
      /\ \A g \in Handlers \ {h} : pc'[g] = pc[g] /\ conv'[g] = conv[g]
  BY <1>4, GotoMoves DEF TypeInv, Shapes
<1>6. \A g \in Handlers : pc[g] \notin Handling
  BY <1>4, NullAssumption DEF TypeInv, Held, Holds
<1>7. Synced /\ Synced'
  BY <1>4, <1>6 DEF InOrder, Following, Synced, More, NextOf
<1>8. Real(update[h]) /\ More(c) => update[h].on = NextOf(c)
  <2> SUFFICES ASSUME Real(update[h]), More(c) PROVE update[h].on = NextOf(c)
    OBVIOUS
  <2>1. update[h] \in Updates
    BY IdsInUse
  <2>2. update[h].on = shown
    BY <2>1 DEF InOrder, First, Waiting, FirstInLine
  <2> QED
    BY <1>2, <1>3, <1>7, <2>2 DEF Synced
<1>9. Follows(h)'
  BY <1>1, <1>4, <1>5, <1>7, <1>8 DEF Follows, Fits, Real, More, NextOf
<1>10. ASSUME NEW g \in Handlers \ {h} PROVE Follows(g)'
  BY <1>5, <1>6 DEF InOrder, Following, Follows, Fits, Handling
<1>11. (saved # NoConversation => Fits(saved))'
  BY <1>4 DEF InOrder, Following, Fits
<1>12. (open => saved = NoConversation \/ saved.state = "ticket_open")'
  BY <1>4 DEF InOrder, Following
<1>13. pc'[h] \in Handling
  BY <1>5 DEF Handling
<1> QED
  BY <1>9, <1>10, <1>11, <1>12, <1>13 DEF Following

\* A decision, made while the chat has no ticket, on a conversation that fits.
LEMMA DecideFollowing ==
    ASSUME InOrder, TypeInv, NEW h \in Handlers, pc[h] = "decide", ~open, NEW c,
           NEW place \in Handling \ {"decide", "create"}, Decide(h, c, place), Fits(c),
           place = "send" => saved = c
    PROVE  Following'
<1>1. /\ pc'[h] = place /\ conv'[h] = c
      /\ \A g \in Handlers \ {h} : pc'[g] = pc[g] /\ conv'[g] = conv[g] /\ update'[g] = update[g]
      /\ UNCHANGED <<saved, open, update, shown>>
  BY GotoMoves DEF Decide, client, TypeInv, Shapes
<1>2. Follows(h)'
  BY <1>1 DEF Follows, Fits, Handling
<1>3. saved' # NoConversation => Fits(saved')
  BY <1>1 DEF InOrder, Following
<1>4. pc[h] \in Handling /\ pc'[h] \in Handling
  BY <1>1 DEF Handling
<1> QED
  BY <1>1, <1>2, <1>3, <1>4, KeepFollowing

LEMMA RecordFollowing ==
    ASSUME InOrder, TypeInv, NEW h \in Handlers, NEW file \in BOOLEAN, Real(update[h]),
           pc[h] = "decide", State(h) = "asking_questions", Record(h, file)
    PROVE  Following'
<1>1. /\ conv[h] \in Conversations /\ update[h] \in Updates
      /\ conv[h].service \in Services /\ conv[h].state = "asking_questions"
  BY Decides, RecordCases DEF State
<1>2. Fits(conv[h]) /\ ~open
  BY <1>1 DEF InOrder, Following, Follows
<1>3. CASE /\ Len(conv[h].answers) < Len(Script[conv[h].service])
           /\ \E place \in {"save", "save_last"} : Decide(h, Answered(conv[h], update[h], file), place)
  <2>1. update[h].on = NextOf(conv[h])
    BY <1>1, <1>3 DEF InOrder, Following, Follows, More
  <2>2. Fits(Answered(conv[h], update[h], file))
    BY <1>1, <1>2, <1>3, <2>1, FitsAppend
  <2> QED
    BY <1>2, <1>3, <2>2, DecideFollowing DEF Handling
<1>4. CASE Decide(h, Filed(conv[h], file), "save_last")
  <2>1. /\ Filed(conv[h], file).answers = conv[h].answers
        /\ Filed(conv[h], file).service = conv[h].service
    BY <1>1, FiledType
  <2>2. Fits(Filed(conv[h], file))
    BY <1>2, <2>1 DEF Fits
  <2> QED
    BY <1>2, <1>4, <2>1, <2>2, DecideFollowing DEF Handling
<1> QED
  BY <1>3, <1>4, RecordCases

LEMMA DecidingFollowing ==
    ASSUME InOrder, TypeInv, NEW h \in Handlers,
           \/ StartFlow(h) \/ SelectService(h) \/ AnswerText(h) \/ AnswerOption(h)
           \/ Confirm(h) \/ Reprompt(h)
    PROVE  Following'
<1>1. pc[h] = "decide" /\ conv[h] \in Conversations /\ State(h) # "ticket_open"
  BY DEF StartFlow, Starts, SelectService, Selects, AnswerText, AnswersText, AnswerOption,
         AnswersOption, Confirm, Confirms, Reprompt, Reprompts, IsText, Pressed, TypeInv, Shapes
<1>2. ~open /\ Fits(conv[h])
  BY <1>1 DEF InOrder, Following, Follows, State
<1>3. CASE StartFlow(h)
  <2>1. Fits(Conversation("awaiting_service", NoService, <<>>, 0))
    BY DEF Fits, Conversation
  <2> QED
    BY <1>1, <1>2, <1>3, <2>1, DecideFollowing DEF StartFlow, Handling
<1>4. CASE SelectService(h)
  <2>1. Fits(Conversation("asking_questions", update[h].choice, <<>>, 0))
    BY DEF Fits, Conversation
  <2> QED
    BY <1>1, <1>2, <1>4, <2>1, DecideFollowing DEF SelectService, Handling
<1>5. CASE AnswerText(h)
  <2>1. Real(update[h]) /\ State(h) = "asking_questions" /\ Record(h, update[h].file)
    BY <1>5 DEF AnswerText, AnswersText, IsText, Real
  <2>2. update[h].file \in BOOLEAN
    BY <1>1, Decides, UpdateFields
  <2> QED
    BY <1>1, <2>1, <2>2, RecordFollowing
<1>6. CASE AnswerOption(h)
  <2>1. Real(update[h]) /\ State(h) = "asking_questions" /\ Record(h, FALSE)
    BY <1>6 DEF AnswerOption, AnswersOption, Pressed, Real
  <2> QED
    BY <1>1, <2>1, RecordFollowing
<1>7. CASE Confirm(h)
  <2>1. /\ "ticket_open" \in States
        /\ [conv[h] EXCEPT !.state = "ticket_open"].answers = conv[h].answers
        /\ [conv[h] EXCEPT !.state = "ticket_open"].service = conv[h].service
    BY <1>1, WithState DEF States
  <2>2. Fits([conv[h] EXCEPT !.state = "ticket_open"])
    BY <1>2, <2>1 DEF Fits
  <2> QED
    BY <1>1, <1>2, <1>7, <2>1, <2>2, DecideFollowing DEF Confirm, Handling
<1>8. CASE Reprompt(h)
  <2>1. saved = conv[h]
    BY <1>1, <1>8 DEF Reprompt, Reprompts, State, InOrder, Following, Follows
  <2> QED
    BY <1>1, <1>2, <1>8, <2>1, DecideFollowing DEF Reprompt, Handling
<1> QED
  BY <1>3, <1>4, <1>5, <1>6, <1>7, <1>8

LEMMA SavingFollowing ==
    ASSUME InOrder, TypeInv, NEW h \in Handlers, SaveLast(h) \/ Save(h), "redis" \notin happened'
    PROVE  Following'
<1>1. /\ pc[h] \in {"save_last", "save", "save_open"} /\ pc'[h] \in {"save", "send", "create"}
      /\ pc[h] \in Handling /\ pc'[h] \in Handling
      /\ \A g \in Handlers \ {h} : pc'[g] = pc[g] /\ conv'[g] = conv[g] /\ update'[g] = update[g]
      /\ UNCHANGED open /\ conv[h] \in Conversations
  BY GotoMoves DEF SaveLast, Save, Handling, TypeInv, Shapes
<1>2. saved' = conv[h]
  BY EventHappens DEF SaveLast, Save, SetFSM, TypeInv
<1>3. ~open /\ Fits(conv[h])
  BY <1>1 DEF InOrder, Following, Follows, Handling
<1>4. CASE SaveLast(h)
  <2>1. conv'[h] = [conv[h] EXCEPT !.state = "confirming"] /\ pc'[h] = "save"
    BY <1>4, GotoMoves DEF SaveLast, TypeInv, Shapes
  <2>2. conv'[h].answers = conv[h].answers /\ conv'[h].service = conv[h].service
    BY <1>1, <2>1, WithState DEF States
  <2>3. Follows(h)'
    BY <1>1, <1>3, <2>1, <2>2 DEF Follows, Fits
  <2> QED
    BY <1>1, <1>2, <1>3, <2>3, KeepFollowing
<1>5. CASE Save(h)
  <2>1. conv'[h] = conv[h] /\ pc'[h] \in {"send", "create"}
    BY <1>1, <1>5, GotoMoves DEF Save
  <2>2. Follows(h)'
    BY <1>1, <1>2, <1>3, <2>1 DEF Follows, Fits
  <2> QED
    BY <1>1, <1>2, <1>3, <2>2, KeepFollowing
<1> QED
  BY <1>4, <1>5

LEMMA ReturningFollowing ==
    ASSUME InOrder, TypeInv, NEW h \in Handlers, Ignore(h) \/ Create(h) \/ Send(h),
           "telegram" \notin happened'
    PROVE  Following'
<1>1. /\ pc[h] \in {"decide", "create", "send"} /\ pc[h] \in Handling
      /\ Return(h) /\ UNCHANGED saved
  BY DEF Ignore, Create, Send, Handling
<1>2. CASE Ignore(h)
  <2>1. UNCHANGED <<open, shown>> /\ pc[h] = "decide"
    BY <1>2 DEF Ignore, client
  <2>2. Synced'
    BY <1>1, <2>1 DEF InOrder, Following, Follows, Synced, More, NextOf
  <2> QED
    BY <1>1, <2>1, <2>2, ReturnFollowing DEF InOrder, Following
<1>3. CASE Create(h)
  <2>1. saved = conv[h] /\ conv[h].state = "ticket_open"
    BY <1>3 DEF Create, InOrder, Following, Follows, TypeInv, Held, Holds
  <2>2. Synced'
    BY <1>1, <2>1 DEF Synced, More
  <2> QED
    BY <1>1, <2>1, <2>2, ReturnFollowing
<1>4. CASE Send(h)
  <2>1. pc[h] = "send" /\ UNCHANGED open /\ saved = conv[h]
    BY <1>4 DEF Send, InOrder, Following, Follows
  <2>2. \/ shown' = PromptOf(h)
        \/ PromptOf(h) = Nothing
    BY <1>4, EventHappens DEF Send, TypeInv
  <2>3. More(conv[h]) => shown' = NextOf(conv[h])
    BY <2>1, <2>2, PromptSent DEF More, HasCurrent, Script_, Current, NextOf
  <2>4. Synced'
    BY <1>1, <2>1, <2>3 DEF Synced, More, NextOf
  <2> QED
    BY <1>1, <2>1, <2>4, ReturnFollowing DEF InOrder, Following
<1> QED
  BY <1>2, <1>3, <1>4

LEMMA MarkInOrder ==
    ASSUME InOrder, TypeInv, Once, NEW h \in Handlers, Mark(h), "redis" \notin happened'
    PROVE  InOrder'
<1>1. pc[h] = "mark" /\ UNCHANGED <<saved, open, shown>>
  BY DEF Mark, client
<1>2. CASE /\ update[h].id \notin marked
           /\ marked' = marked \cup {update[h].id}
           /\ Goto(h, "lock")
           /\ UNCHANGED <<update, conv, lock, inbox>>
  <2>1. pc'[h] = "lock" /\ \A g \in Handlers \ {h} : pc'[g] = pc[g]
    BY <1>2, GotoMoves
  <2>2. Following'
    BY <1>1, <1>2, <2>1, AwayFollowing DEF Handling
  <2> QED
    BY <1>1, <1>2, <2>2, FreshLine DEF InOrder
<1>3. CASE update[h].id \in marked /\ Return(h) /\ UNCHANGED marked
  <2>1. pc'[h] = "free" /\ conv'[h] = Idle
        /\ \A g \in Handlers \ {h} : pc'[g] = pc[g] /\ conv'[g] = conv[g] /\ update'[g] = update[g]
    BY <1>3, ReturnMoves DEF Return, TypeInv, Shapes
  <2>2. Following'
    BY <1>1, <2>1, AwayFollowing DEF Handling
  <2> QED
    BY <1>1, <1>3, <2>2, DropLine DEF InOrder
<1>4. CASE Event("redis")
  BY <1>4, EventHappens DEF TypeInv
<1> QED
  BY <1>2, <1>3, <1>4 DEF Mark

LEMMA LoadInOrder ==
    ASSUME InOrder, TypeInv, Once, NEW h \in Handlers, Load(h), "overtaking" \notin happened'
    PROVE  InOrder'
BY LoadLine, LoadFollowing DEF Load, InOrder

\* What the holder of the chat lock does, as the line of updates sees it.
LEMMA LockedInOrder ==
    ASSUME InOrder, TypeInv, Once, NEW h \in Handlers, happened' \subseteq {"redelivery"},
           \/ StartFlow(h) \/ SelectService(h) \/ AnswerText(h) \/ AnswerOption(h)
           \/ Confirm(h) \/ Reprompt(h) \/ SaveLast(h) \/ Save(h)
           \/ Ignore(h) \/ Create(h) \/ Send(h)
    PROVE  InOrder'
<1>1. CASE \/ StartFlow(h) \/ SelectService(h) \/ AnswerText(h) \/ AnswerOption(h)
           \/ Confirm(h) \/ Reprompt(h)
  <2>0. ASSUME NEW file \in BOOLEAN, pc[h] = "decide", State(h) = "asking_questions",
               Record(h, file)
        PROVE  \E place \in {"save", "save_last"} :
                  Goto(h, place) /\ UNCHANGED <<marked, inbox, update>>
    BY <2>0, RecordCases DEF Decide
  <2>1. PICK place \in {"save", "save_last", "save_open", "send"} :
           Goto(h, place) /\ pc[h] = "decide" /\ UNCHANGED <<marked, inbox, update>>
    <3>1. CASE StartFlow(h) \/ SelectService(h) \/ Confirm(h) \/ Reprompt(h)
      BY <3>1 DEF StartFlow, Starts, SelectService, Selects, Confirm, Confirms, Reprompt, Reprompts,
                  IsText, Pressed, Decide
    <3>2. CASE AnswerText(h)
      <4>1. pc[h] = "decide" /\ State(h) = "asking_questions" /\ Record(h, update[h].file)
        BY <3>2 DEF AnswerText, AnswersText, IsText
      <4>2. update[h].file \in BOOLEAN
        BY <4>1, Decides, UpdateFields
      <4> QED
        BY <2>0, <4>1, <4>2
    <3>3. CASE AnswerOption(h)
      BY <2>0, <3>3 DEF AnswerOption, AnswersOption, Pressed
    <3> QED
      BY <1>1, <3>1, <3>2, <3>3
  <2>2. /\ pc[h] \in Handling /\ pc'[h] \in Handling
        /\ \A g \in Handlers \ {h} : pc'[g] = pc[g] /\ update'[g] = update[g]
        /\ UNCHANGED <<marked, inbox, update>>
    BY <2>1, GotoMoves DEF Handling
  <2> QED
    BY <1>1, <2>2, LockedLine, DecidingFollowing DEF InOrder
<1>2. CASE SaveLast(h) \/ Save(h)
  <2>1. /\ pc[h] \in Handling /\ pc'[h] \in Handling
        /\ \A g \in Handlers \ {h} : pc'[g] = pc[g] /\ update'[g] = update[g]
        /\ UNCHANGED <<marked, inbox, update>>
    BY <1>2, GotoMoves DEF SaveLast, Save, Handling
  <2> QED
    BY <1>2, <2>1, LockedLine, SavingFollowing DEF InOrder
<1>3. CASE Ignore(h) \/ Create(h) \/ Send(h)
  <2>1. /\ pc[h] \in Handling /\ Return(h) /\ UNCHANGED marked
        /\ \A g \in Handlers \ {h} : pc'[g] = pc[g] /\ update'[g] = update[g]
    BY <1>3, ReturnMoves DEF Ignore, Create, Send, Handling
  <2> QED
    BY <1>3, <2>1, LockedLine, ReturningFollowing DEF InOrder
<1> QED
  BY <1>1, <1>2, <1>3

LEMMA HandlerInOrder ==
    ASSUME InOrder, TypeInv, Once, NEW h \in Handlers, Deliver(h) \/ Step(h),
           happened' \subseteq {"redelivery"}
    PROVE  InOrder'
<1>1. CASE Deliver(h)
  <2>1. /\ UNCHANGED <<saved, open, shown, conv>> /\ pc[h] = "free" /\ pc'[h] = "mark"
        /\ \A g \in Handlers \ {h} : pc'[g] = pc[g] /\ update'[g] = update[g]
    BY <1>1, GotoMoves DEF Deliver, client, TypeInv, Shapes
  <2>2. Following'
    BY <2>1, AwayFollowing DEF Handling
  <2> QED
    BY <1>1, <2>2, DeliverLine DEF InOrder
<1>2. CASE LoadFails(h) \/ CreateFails(h)
  BY <1>2, EventHappens DEF LoadFails, CreateFails, TypeInv
<1> QED
  BY <1>1, <1>2, MarkInOrder, LoadInOrder, LockedInOrder DEF Step

LEMMA ClientInOrder ==
    ASSUME InOrder, TypeInv, Type \/ Press \/ Stray
    PROVE  InOrder'
<1>1. shown \in Prompts /\ buttons \subseteq Prompts /\ Nothing \in Prompts
  BY DEF TypeInv, Shapes, Prompts
<1>2. ASSUME NEW kind \in {"text", "start", "press"}, NEW on \in Prompts,
             NEW choice \in Nat \cup Services \cup {Yes, Restart}, NEW file \in BOOLEAN,
             Post(kind, on, choice, file),
             \/ Quiet /\ on = shown
             \/ kind = "start"
             \/ kind = "press" /\ on.ask # "question"
      PROVE  InOrder'
  <2>1. [id |-> FreeId, kind |-> kind, on |-> on, choice |-> choice, file |-> file] \in Updates
    BY <1>2, FreeIdIsFree DEF Post, Updates
  <2>2. Line' /\ First'
    BY <1>2, <2>1, PostLine DEF Real
  <2>3. Following'
    BY <1>2, AwayFollowing DEF Post, handler
  <2> QED
    BY <2>2, <2>3 DEF InOrder
<1>3. CASE Type
  BY <1>1, <1>2, <1>3 DEF Type
<1>4. CASE Press
  <2>1. PICK choice \in Choices(shown) : Post("press", shown, choice, FALSE)
    BY <1>4 DEF Press
  <2> QED
    BY <1>1, <1>2, <1>4, <2>1, ChoiceTypes DEF Press
<1>5. CASE Stray
  <2>1. CASE Post("start", Nothing, 0, FALSE)
    BY <1>1, <1>2, <2>1
  <2>2. CASE \E p \in buttons \ Questions : \E choice \in Choices(p) : Post("press", p, choice, FALSE)
    <3>1. PICK p \in buttons \ Questions :
             \E choice \in Choices(p) : Post("press", p, choice, FALSE)
      BY <2>2
    <3>2. p \in Prompts /\ p.ask # "question"
      BY <1>1, <3>1, PromptAsks
    <3> QED
      BY <1>2, <3>1, <3>2, ChoiceTypes
  <2> QED
    BY <1>5, <2>1, <2>2 DEF Stray
<1> QED
  BY <1>3, <1>4, <1>5

LEMMA StepInOrder ==
    ASSUME InOrderUnlessFaults, OnceUnlessRedis, TypeInv, [Next]_vars
    PROVE  InOrderUnlessFaults'
<1> SUFFICES ASSUME happened' \subseteq {"redelivery"} PROVE InOrder'
  BY DEF InOrderUnlessFaults
<1>1. happened \subseteq happened'
  BY ZenonT(40) DEF Next, vars, Type, Press, Stray, Hurry, Deliver, Step, Mark, Load, LoadFails, StartFlow,
         SelectService, AnswerText, AnswerOption, Record, Confirm, Reprompt, Decide, Ignore,
         SaveLast, Save, SetFSM, Create, CreateFails, Send, Crash, Expire, Close, Event
<1>2. InOrder /\ Once
  BY <1>1 DEF InOrderUnlessFaults, OnceUnlessRedis
<1>3. CASE UNCHANGED vars
  <2>1. Line'
    BY <1>2, <1>3 DEF vars, handler, InOrder, Line
  <2>2. First'
    BY <1>2, <1>3 DEF vars, handler, client, InOrder, First, Waiting, Real, FirstInLine
  <2>3. Following'
    BY <1>2, <1>3, AwayFollowing DEF vars, handler, client
  <2> QED
    BY <2>1, <2>2, <2>3 DEF InOrder
<1>4. CASE Hurry \/ Crash \/ Expire
  <2>1. \E e \in {"hurry", "crash", "expiry"} : Event(e)
    BY <1>4 DEF Hurry, Crash, Expire
  <2> QED
    BY <2>1, EventHappens DEF TypeInv
<1>5. CASE Close
  <2>1. /\ open /\ ~open' /\ saved' = NoConversation
        /\ UNCHANGED <<marked, inbox, pc, update, conv, lock, shown>>
    BY <1>5 DEF Close, handler, client
  <2>2. Line'
    BY <1>2, <2>1 DEF InOrder, Line
  <2>3. First'
    BY <1>2, <2>1 DEF InOrder, First, Waiting, Real, FirstInLine
  <2>4. \A h \in Handlers : Follows(h)'
    BY <1>2, <2>1 DEF InOrder, Following, Follows, Fits, Synced, More, Handling
  <2>5. Following'
    BY <2>1, <2>4 DEF Following, Synced
  <2> QED
    BY <2>2, <2>3, <2>5 DEF InOrder
<1> QED
  BY <1>2, <1>3, <1>4, <1>5, HandlerInOrder, ClientInOrder DEF Next

\* Every answer is recorded for the question it answers, for every script,
\* when updates come again and old service or confirmation buttons are pressed
\* in between: an answer that is not decided on yet is the first in line, so
\* the question the chat is at is still the one its author was shown.
THEOREM AnswersFitTheirQuestions == Spec => []AnswersFit
<1>1. Init => InOrderUnlessFaults
  BY InitInOrder DEF InOrderUnlessFaults
<1>2. Spec => [](TypeInv /\ OnceUnlessRedis /\ InOrderUnlessFaults)
  BY <1>1, InitType, StepType, InitOnce, StepOnce, StepInOrder, PTL DEF Spec
<1>3. InOrderUnlessFaults => AnswersFit
  BY DEF InOrderUnlessFaults, InOrder, Following, AnswersFit
<1> QED
  BY <1>2, <1>3, PTL
=============================================================================
