----------------------------- MODULE Questions -----------------------------
(***************************************************************************)
(* The questions of telegrambot.py: ask() runs on the thread that holds    *)
(* the cycle lock and waits for a button press or its timeout; presses and *)
(* commands reach the bot as updates, which its loop handles one after the *)
(* other.  A /run or /reload is handled on the bot's behalf by a thread    *)
(* that wants the cycle lock, and the next update waits for it.            *)
(* The names begin with Ask where Outbox.tla, the other half of the        *)
(* notifier, has the plain ones: NotifierProofs.tla extends both.          *)
(***************************************************************************)
EXTENDS Naturals, Sequences

CONSTANTS
    MaxQuestions,   \* bound: questions asked
    MaxUpdates,     \* bound: updates the operators cause
    Listeners       \* number of listen chats

ASSUME QuestionsAssumption == /\ MaxQuestions \in Nat
                              /\ MaxUpdates \in Nat
                              /\ Listeners \in Nat

VARIABLES
    holder,     \* who holds the cycle lock: the worker, the bot's thread, or none
    token,      \* the last question asked
    asker,      \* statement of ask() the holder is at
    sent,       \* listen chats that have been sent the question
    pending,    \* _pending
    answer,     \* answer of each question
    event,      \* questions whose event is set
    updates,    \* the updates that wait, oldest first
    bot,        \* the update that is handled, and the statement
    arrived,    \* updates so far
    shown,      \* history: questions some chat has got
    pressed,    \* history: buttons pressed
    result      \* history: what ask() returned

question == <<token, asker, sent, pending, answer, event>>
askHistory == <<shown, pressed, result>>
askVars == <<holder, question, updates, bot, arrived, askHistory>>

Tokens == 1..MaxQuestions
Answers == {"yes", "no"}
None == "none"
Press(t, a) == [kind |-> "press", token |-> t, answer |-> a, at |-> "look"]
Command(kind) == [kind |-> kind, token |-> 0, answer |-> None, at |-> "wait"]
NoUpdate == [kind |-> "nothing", token |-> 0, answer |-> None, at |-> "poll"]
Update == {Press(t, a) : t \in Tokens, a \in Answers}
          \cup {Command("run"), Command("reload")}

-----------------------------------------------------------------------------
(* The cycle lock                                                          *)

CycleBegin ==
    /\ holder = None
    /\ holder' = "worker"
    /\ UNCHANGED <<question, updates, bot, arrived, askHistory>>

CycleEnd ==
    /\ holder = "worker"
    /\ asker = "idle"
    /\ holder' = None
    /\ UNCHANGED <<question, updates, bot, arrived, askHistory>>

-----------------------------------------------------------------------------
(* ask, reached from a condition or a response under the cycle lock.       *)
(* Without listen chats it answers "no" at once.                           *)

Ask ==
    /\ holder # None
    /\ asker = "idle"
    /\ Listeners > 0
    /\ token < MaxQuestions
    /\ token' = token + 1
    /\ asker' = "send"
    /\ sent' = 0
    /\ pending' = pending \cup {token'}
    /\ UNCHANGED <<holder, answer, event, updates, bot, arrived, askHistory>>

\* One chat; an error ends the loop, whether or not the message went out.
AskSend ==
    /\ asker = "send"
    /\ \E ok, out \in BOOLEAN :
          /\ ok => out
          /\ shown' = IF out THEN shown \cup {token} ELSE shown
          /\ sent' = IF ok THEN sent + 1 ELSE sent
          /\ asker' = IF ok /\ sent' < Listeners THEN "send" ELSE "wait"
    /\ UNCHANGED <<holder, token, pending, answer, event, updates, bot, arrived,
                   pressed, result>>

AskWake ==
    /\ asker = "wait"
    /\ token \in event
    /\ asker' = "pop"
    /\ UNCHANGED <<holder, token, sent, pending, answer, event, updates, bot,
                   arrived, askHistory>>

\* Mutant: only an answer ends the wait.
AskWaitsOn == AskWake

AskTimeout ==
    /\ asker = "wait"
    /\ token \notin event
    /\ asker' = "pop"
    /\ UNCHANGED <<holder, token, sent, pending, answer, event, updates, bot,
                   arrived, askHistory>>

AskPop ==
    /\ asker = "pop"
    /\ pending' = pending \ {token}
    /\ asker' = "decide"
    /\ UNCHANGED <<holder, token, sent, answer, event, updates, bot, arrived,
                   askHistory>>

AskReturn ==
    /\ asker = "decide"
    /\ result' = [result EXCEPT ![token] = IF answer[token] = None THEN "no"
                                           ELSE answer[token]]
    /\ asker' = "idle"
    /\ UNCHANGED <<holder, token, sent, pending, answer, event, updates, bot,
                   arrived, shown, pressed>>

-----------------------------------------------------------------------------
(* The operators                                                           *)

Arrives(u) ==
    /\ arrived < MaxUpdates
    /\ arrived' = arrived + 1
    /\ updates' = Append(updates, u)

\* The buttons of an old question stay in the chat.
Answer(t, a) ==
    /\ t \in shown
    /\ Arrives(Press(t, a))
    /\ pressed' = pressed \cup {<<t, a>>}
    /\ UNCHANGED <<holder, question, bot, shown, result>>

Type(kind) ==
    /\ Arrives(Command(kind))
    /\ UNCHANGED <<holder, question, bot, askHistory>>

-----------------------------------------------------------------------------
(* The bot                                                                 *)

BotTake ==
    /\ bot = NoUpdate
    /\ updates # <<>>
    /\ bot' = Head(updates)
    /\ updates' = Tail(updates)
    /\ UNCHANGED <<holder, question, arrived, askHistory>>

\* Mutant: the answer goes to whatever question is pending.
BotLookAny ==
    /\ bot.at = "look"
    /\ bot' = IF pending = {} THEN NoUpdate
              ELSE [bot EXCEPT !.at = "set", !.token = CHOOSE t \in pending : TRUE]
    /\ UNCHANGED <<holder, question, updates, arrived, askHistory>>

\* Is the question of this button still pending?
BotLook ==
    /\ bot.at = "look"
    /\ bot' = IF bot.token \in pending THEN [bot EXCEPT !.at = "set"] ELSE NoUpdate
    /\ UNCHANGED <<holder, question, updates, arrived, askHistory>>

BotSet ==
    /\ bot.at = "set"
    /\ answer' = [answer EXCEPT ![bot.token] = bot.answer]
    /\ event' = event \cup {bot.token}
    /\ bot' = NoUpdate
    /\ UNCHANGED <<holder, token, asker, sent, pending, updates, arrived, shown,
                   pressed, result>>

\* /run gets the lock, runs the responses, and releases it.
RunEnter ==
    /\ bot = Command("run")
    /\ holder = None
    /\ holder' = "bot"
    /\ bot' = [bot EXCEPT !.at = "running"]
    /\ UNCHANGED <<question, updates, arrived, askHistory>>

\* After 30 seconds without the lock.
RunRefused ==
    /\ bot = Command("run")
    /\ holder # None
    /\ bot' = NoUpdate
    /\ UNCHANGED <<holder, question, updates, arrived, askHistory>>


RunLeave ==
    /\ bot.at = "running"
    /\ asker = "idle"
    /\ holder' = None
    /\ bot' = NoUpdate
    /\ UNCHANGED <<question, updates, arrived, askHistory>>

\* /reload waits for the lock without a bound, and is done with it at once.
Reload ==
    /\ bot = Command("reload")
    /\ holder = None
    /\ bot' = NoUpdate
    /\ UNCHANGED <<holder, question, updates, arrived, askHistory>>

\* Files that do not parse are reported without the lock.
ReloadFails ==
    /\ bot = Command("reload")
    /\ bot' = NoUpdate
    /\ UNCHANGED <<holder, question, updates, arrived, askHistory>>

-----------------------------------------------------------------------------

AskInit ==
    /\ holder = None
    /\ token = 0
    /\ asker = "idle"
    /\ sent = 0
    /\ pending = {}
    /\ answer = [t \in Tokens |-> None]
    /\ event = {}
    /\ updates = <<>>
    /\ bot = NoUpdate
    /\ arrived = 0
    /\ shown = {}
    /\ pressed = {}
    /\ result = [t \in Tokens |-> None]

Asking == AskSend \/ AskWake \/ AskTimeout \/ AskPop \/ AskReturn

Bot == BotTake \/ BotLook \/ BotSet \/ RunRefused \/ RunLeave

Operator == \/ \E t \in Tokens, a \in Answers : Answer(t, a)
            \/ \E kind \in {"run", "reload"} : Type(kind)

AskNext == \/ CycleBegin
           \/ CycleEnd
           \/ Ask
           \/ Asking
           \/ Operator
           \/ Bot
           \/ RunEnter
           \/ Reload
           \/ ReloadFails

AskSpec == AskInit /\ [][AskNext]_askVars

\* The threads run; an acquire() that keeps finding the lock free gets it.
AskFairSpec == /\ AskSpec
               /\ WF_askVars(Asking)
               /\ WF_askVars(CycleEnd)
               /\ WF_askVars(Bot)
               /\ SF_askVars(RunEnter)
               /\ SF_askVars(Reload)

-----------------------------------------------------------------------------
(* Properties                                                              *)

AskTypeOK ==
    /\ holder \in {None, "worker", "bot"}
    /\ token \in 0..MaxQuestions
    /\ asker \in {"idle", "send", "wait", "pop", "decide"}
    /\ sent \in 0..Listeners
    /\ pending \subseteq Tokens
    /\ answer \in [Tokens -> Answers \cup {None}]
    /\ event \subseteq Tokens
    /\ updates \in Seq(Update)
    /\ \/ bot \in Update \cup {NoUpdate, [Command("run") EXCEPT !.at = "running"]}
       \/ bot \in {[Press(t, a) EXCEPT !.at = "set"] : t \in Tokens, a \in Answers}
    /\ arrived \in 0..MaxUpdates
    /\ shown \subseteq Tokens
    /\ pressed \subseteq Tokens \X Answers
    /\ result \in [Tokens -> Answers \cup {None}]

\* ask() says "yes" only when "yes" was pressed on that very question: a late
\* press on an older one, a timeout, a failed send or another press never do.
YesWasPressed == \A t \in Tokens : result[t] = "yes" => <<t, "yes">> \in pressed

\* Every question comes to an end, answered or not.
AsksReturn == asker # "idle" ~> asker = "idle"

=============================================================================
