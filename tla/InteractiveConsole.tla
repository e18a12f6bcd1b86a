--------------------------- MODULE InteractiveConsole ---------------------------
(***************************************************************************)
(* The server's console: the main thread reads keys and hands each line to *)
(* a handler, while the server's threads log messages over the line being  *)
(* typed.  A printing thread looks first whether there is a line to redraw *)
(* and locks afterwards, or not at all.                                    *)
(***************************************************************************)
EXTENDS Naturals, Sequences, SequencesExt

CONSTANTS
    Loggers,       \* the threads that log
    Chars,         \* the characters that are typed
    StopCommand,   \* the line that stops the server
    Prompt, Escape, Enter, Backspace,
    MaxKeys, MaxLogs

VARIABLES
    system,        \* the build: "linux" or "windows"
    main,          \* the main thread: where it is, and the line it handles
    running, handlingInput, curIn, mtxOut,
    logger,        \* what each logging thread is at
    mtxConsole,
    keys,          \* keys typed and not read
    lines, line,   \* what the terminal shows: finished lines, and the last one
    typed, logged, commands,   \* history: keys, messages, lines handled
    overtaken      \* whether a print found the line other than it had looked
consoleVars == <<system, main, running, handlingInput, curIn, mtxOut, logger, mtxConsole,
                 keys, lines, line, typed, logged, commands, overtaken>>
screenVars == <<lines, line>>
inputVars == <<running, handlingInput, curIn>>
loggingVars == <<logger, mtxConsole, logged, overtaken>>

Free == "free"
ConsoleInit ==
    /\ system \in {"linux", "windows"}
    /\ main = [at |-> "start", cmd |-> <<>>]
    /\ running = FALSE /\ handlingInput = FALSE /\ curIn = <<>> /\ mtxOut = Free
    /\ logger = [l \in Loggers |-> [at |-> "idle", msg |-> 0]] /\ mtxConsole = Free
    /\ keys = <<>> /\ lines = <<>> /\ line = <<>>
    /\ typed = <<>> /\ logged = <<>> /\ commands = <<>> /\ overtaken = FALSE

WriteText(text) == line' = line \o text /\ UNCHANGED lines
WriteLine(text) == lines' = Append(lines, line \o text) /\ line' = <<>>
Goto(place) == main' = [main EXCEPT !.at = place]

-----------------------------------------------------------------------------
\* start_inputs, from run_server; raw mode drops what was typed before, and the first
\* prompt is written without the lock.
StartInputs ==
    /\ main.at = "start"
    /\ running' = TRUE /\ Goto("prompt")
    /\ keys' = IF system = "linux" THEN <<>> ELSE keys
    /\ UNCHANGED <<system, handlingInput, curIn, mtxOut, screenVars, typed, commands, loggingVars>>

DisplayPrompt ==
    /\ main.at = "prompt"
    /\ WriteText(<<Prompt>>) /\ Goto("loop")
    /\ UNCHANGED <<system, inputVars, mtxOut, keys, typed, commands, loggingVars>>

\* The user's keyboard.
Type(k) ==
    /\ Len(typed) < MaxKeys
    /\ keys' = Append(keys, k) /\ typed' = Append(typed, k)
    /\ UNCHANGED <<system, main, inputVars, mtxOut, screenVars, commands, loggingVars>>

\* input_loop: one key is read, unless the loop is over.
InputLoop ==
    /\ main.at = "loop"
    /\ IF running THEN keys # <<>> /\ Goto("key") ELSE Goto("stop")
    /\ UNCHANGED <<system, inputVars, mtxOut, keys, screenVars, typed, commands, loggingVars>>

\* What handle_key_event is given: on Linux an escape takes with it the key after
\* it, if that is there already (and another after a bracket, which is not typed
\* here); on Windows it is a character.
Swallowed == IF system = "linux" /\ Head(keys) = Escape /\ Len(keys) > 1 THEN 2 ELSE 1
IsCharacter(k) == k \in Chars \/ (k = Escape /\ system = "windows")

\* Fault: a key is handled while others print.
MayHandleUnlocked(k) == TRUE

MayHandle(k) == mtxOut = Free

HandleKey ==
    /\ main.at = "key" /\ MayHandle(Head(keys))
    /\ LET k == Head(keys)
       IN  \/ IsCharacter(k) /\ curIn' = Append(curIn, k) /\ WriteText(<<k>>)
           \/ k = Backspace /\ curIn # <<>> /\ curIn' = Front(curIn)
              /\ line' = (IF line = <<>> THEN <<>> ELSE Front(line)) /\ UNCHANGED lines
           \/ k = Backspace /\ curIn = <<>> /\ UNCHANGED <<curIn, screenVars>>
           \/ k = Escape /\ ~IsCharacter(k) /\ UNCHANGED <<curIn, screenVars>>
    /\ keys' = SubSeq(keys, Swallowed + 1, Len(keys)) /\ Goto("loop")
    /\ UNCHANGED <<system, running, handlingInput, mtxOut, typed, commands, loggingVars>>

\* The line is taken, and the lock let go for the handler.
HandleEnter ==
    /\ main.at = "key" /\ MayHandle(Enter) /\ Head(keys) = Enter
    /\ WriteLine(<<>>)
    /\ main' = [at |-> "entered", cmd |-> curIn] /\ curIn' = <<>> /\ keys' = Tail(keys)
    /\ UNCHANGED <<system, running, handlingInput, mtxOut, typed, commands, loggingVars>>

BeginHandling ==
    /\ main.at = "entered"
    /\ handlingInput' = TRUE /\ Goto("handling")
    /\ UNCHANGED <<system, running, curIn, mtxOut, keys, screenVars, typed, commands, loggingVars>>

\* handle_cmd
HandleCmd ==
    /\ main.at = "handling"
    /\ running' = (main.cmd # StopCommand)
    /\ commands' = Append(commands, main.cmd) /\ Goto("handled")
    /\ UNCHANGED <<system, handlingInput, curIn, mtxOut, keys, screenVars, typed, loggingVars>>

EndHandling ==
    /\ main.at = "handled"
    /\ handlingInput' = FALSE /\ Goto("relock")
    /\ UNCHANGED <<system, running, curIn, mtxOut, keys, screenVars, typed, commands, loggingVars>>

Relock ==
    /\ main.at = "relock" /\ mtxOut = Free
    /\ IF running THEN WriteText(<<Prompt>>) ELSE UNCHANGED screenVars
    /\ Goto("loop")
    /\ UNCHANGED <<system, inputVars, mtxOut, keys, typed, commands, loggingVars>>

-----------------------------------------------------------------------------
At(l, place) == logger[l].at = place
Move(l, place) == logger' = [logger EXCEPT ![l].at = place]

\* Whether the last line is the user's: it has a prompt, and keys go to it.
LineIsUsers == main.at \in {"loop", "key"} /\ running

\* log_info, log_warning, log_error
Log(l) ==
    /\ At(l, "idle") /\ mtxConsole = Free /\ Len(logged) < MaxLogs
    /\ mtxConsole' = l
    /\ logger' = [logger EXCEPT ![l] = [at |-> "running?", msg |-> Len(logged) + 1]]
    /\ logged' = Append(logged, Len(logged) + 1)
    /\ UNCHANGED <<system, main, inputVars, mtxOut, keys, screenVars, typed, commands, overtaken>>

\* print looks at the two flags, one after the other.
LookRunning(l) ==
    /\ At(l, "running?")
    /\ Move(l, IF running THEN "handling?" ELSE "direct")
    /\ UNCHANGED <<system, main, inputVars, mtxOut, mtxConsole, keys, screenVars, typed, logged, commands, overtaken>>

LookHandling(l) ==
    /\ At(l, "handling?")
    /\ Move(l, IF handlingInput THEN "direct" ELSE "lock")
    /\ UNCHANGED <<system, main, inputVars, mtxOut, mtxConsole, keys, screenVars, typed, logged, commands, overtaken>>

PrintDirect(l) ==
    /\ At(l, "direct")
    /\ WriteLine(<<logger[l].msg>>)
    /\ overtaken' = (overtaken \/ LineIsUsers)
    /\ Move(l, "idle") /\ mtxConsole' = Free
    /\ UNCHANGED <<system, main, inputVars, mtxOut, keys, typed, logged, commands>>

LockOut(l) ==
    /\ At(l, "lock") /\ mtxOut = Free
    /\ mtxOut' = l /\ Move(l, "clear")
    /\ UNCHANGED <<system, main, inputVars, mtxConsole, keys, screenVars, typed, logged, commands, overtaken>>

ClearCurrentLine(l) ==
    /\ At(l, "clear")
    /\ line' = <<>> /\ UNCHANGED lines
    /\ overtaken' = (overtaken \/ ~LineIsUsers)
    /\ Move(l, "message")
    /\ UNCHANGED <<system, main, inputVars, mtxOut, mtxConsole, keys, typed, logged, commands>>

PrintMessage(l) ==
    /\ At(l, "message")
    /\ WriteLine(<<logger[l].msg>>) /\ Move(l, "redraw")
    /\ UNCHANGED <<system, main, inputVars, mtxOut, mtxConsole, keys, typed, logged, commands, overtaken>>

RedrawPrompt(l) ==
    /\ At(l, "redraw")
    /\ WriteText(<<Prompt>>) /\ Move(l, "input")
    /\ UNCHANGED <<system, main, inputVars, mtxOut, mtxConsole, keys, typed, logged, commands, overtaken>>

RedrawInput(l) ==
    /\ At(l, "input")
    /\ WriteText(curIn)
    /\ Move(l, "idle") /\ mtxOut' = Free /\ mtxConsole' = Free
    /\ UNCHANGED <<system, main, inputVars, keys, typed, logged, commands, overtaken>>

ConsoleNext ==
    \/ StartInputs \/ DisplayPrompt \/ InputLoop \/ HandleKey \/ HandleEnter
    \/ BeginHandling \/ HandleCmd \/ EndHandling \/ Relock
    \/ \E k \in Chars \cup {Escape, Enter, Backspace} : Type(k)
    \/ \E l \in Loggers :
         \/ Log(l) \/ LookRunning(l) \/ LookHandling(l) \/ PrintDirect(l)
         \/ LockOut(l) \/ ClearCurrentLine(l) \/ PrintMessage(l) \/ RedrawPrompt(l) \/ RedrawInput(l)

-----------------------------------------------------------------------------
\* The messages the terminal shows, each at the end of a line of its own.
MessagesShown ==
    LET Final(text) == IF text # <<>> /\ Last(text) \in 1..MaxLogs THEN Last(text) ELSE 0
    IN  SelectSeq([k \in DOMAIN lines |-> Final(lines[k])], LAMBDA m : m # 0)

\* InteractiveConsole.hpp: "Prints message without disturbing current input".  However
\* keys, commands and messages interleave: every message is shown once and in the order
\* logged; the user's line shows what will be handed over when Enter is pressed, behind
\* a prompt, unless a print came upon another line than it had looked at; and after a
\* stop nothing is handled.
ConsoleIsTruthful ==
    /\ IsPrefix(MessagesShown, logged) /\ (mtxConsole = Free => MessagesShown = logged)
    /\ (LineIsUsers /\ mtxOut = Free /\ ~overtaken) => line = <<Prompt>> \o curIn
    /\ \A k \in DOMAIN commands : commands[k] = StopCommand => k = Len(commands) /\ ~running
=============================================================================
