----------------------------- MODULE ConsoleClient -----------------------------
(***************************************************************************)
(* The console client: a login menu, then a main menu; each option asks    *)
(* for lines, and may post one request and wait for its response.  What an *)
(* option returns, or how it fails, decides which menu comes next; the     *)
(* server keeps a session of its own for the connection.                   *)
(***************************************************************************)
EXTENDS Naturals, Sequences, SequencesExt

CONSTANTS
    Usernames,     \* names and passwords that are typed
    YesLines, NoLines, IDLines, NumberLines, BlobLines, BadLines   \* the other lines that are typed

VARIABLES
    menu,      \* where the program is: "start", "login", "main", "gone", "aborted"
    status,    \* of the last option that returned in this menu
    option,    \* the option that runs
    asks,      \* what it has yet to ask for
    given,       \* what it was given, where that decides what follows
    eof,       \* whether the input has ended: every line is empty from then on
    session,   \* the server's
    answer,    \* the response on its way
    shown      \* what the last update that was fetched carried, and what was printed
clientProgramVars == <<menu, status, option, asks, given, eof, session, answer, shown>>

Lines == {""} \cup Usernames \cup YesLines \cup NoLines \cup IDLines \cup NumberLines
         \cup BlobLines \cup BadLines

NoUser == "(nobody)"
ASSUME TypedNamesAreUsers == NoUser \notin Lines

\* The input functions: the lines each takes, whether until an empty one, and whether
\* any other line is asked for again or throws.
Input(takes, list, throws) == [takes |-> takes, list |-> list, throws |-> throws]
InputWord == Input(Lines, FALSE, FALSE)
InputYesNo == Input(YesLines \cup NoLines, FALSE, FALSE)
InputUuid == Input(IDLines, FALSE, FALSE)
InputNum == Input(NumberLines, FALSE, FALSE)
InputWords == Input(Lines \ {""}, TRUE, FALSE)
InputNums == Input(NumberLines, TRUE, FALSE)
InputPoint == Input(BlobLines, FALSE, TRUE)
InputPoints == Input(BlobLines, TRUE, TRUE)
InputBytes == Input(Lines, FALSE, FALSE)
InputPubKeys == <<InputPoint, InputPoint>>
InputShard == <<InputPoint>>
InputCiphertext == <<InputPoint, InputPoint, InputBytes, InputBytes>>

\* The options: what is asked for, and whether a request is posted after that.
Option(name, inputs, posts) == [name |-> name, asks |-> inputs, posts |-> posts]
Signup == Option("signup", <<InputWord, InputWord, InputWord>>, TRUE)
Login == Option("login", <<InputWord, InputWord>>, TRUE)
Logout == Option("logout", <<InputYesNo>>, TRUE)
MakeUserSet == Option("make_userset", <<InputWords, InputWords, InputNum, InputNum>>, TRUE)
GetUserSets == Option("get_usersets", <<>>, TRUE)
GetMembers == Option("get_members", <<InputUuid>>, TRUE)
Encrypt == Option("encrypt", <<InputNum, InputWord>> \o InputPubKeys, FALSE)
Decrypt == Option("decrypt", <<InputUuid>> \o InputCiphertext, TRUE)
Update == Option("update", <<>>, TRUE)
Participate == Option("participate", <<InputUuid>>, TRUE)
CompPart == Option("comp_part", <<InputYesNo>> \o InputCiphertext \o InputShard \o <<InputNums>>, FALSE)
SendPart == Option("send_part", <<InputUuid, InputPoint>>, TRUE)
JoinParts == Option("join_parts", InputCiphertext \o <<InputPoints, InputPoints, InputYesNo>>, FALSE)

LoginOpts == {Signup, Login, Logout}
MainOpts == {MakeUserSet, GetUserSets, GetMembers, Encrypt, Decrypt, Update, Participate,
             CompPart, SendPart, JoinParts, Logout}
NoOption == Option("", <<>>, FALSE)

UpdateKinds == {"added_as_owner", "added_as_reg_member", "on_lookup", "to_decrypt",
                "finished_decryptions"}
Nothing == [fetched |-> {}, printed |-> {}]
NoAnswer == [of |-> "", is |-> "", updates |-> {}]

ClientProgramInit ==
    /\ menu = "start" /\ status = "NoChange" /\ option = NoOption /\ asks = <<>> /\ given = <<>>
    /\ eof = FALSE /\ answer = NoAnswer /\ shown = Nothing
    /\ session = [at |-> "connecting", user |-> NoUser]
serverVars == <<session, answer>>
optionVars == <<option, asks, given>>

\* run_client: only a refused protocol is caught.
Handshake(result) ==
    /\ menu = "start"
    /\ menu' = CASE result = "open" -> "login" [] result = "refused" -> "gone" [] OTHER -> "aborted"
    /\ session' = IF result = "open" THEN session ELSE [session EXCEPT !.at = "ended"]
    /\ UNCHANGED <<status, optionVars, eof, answer, shown>>

\* Fault: the login menu ends with any option that returns.
NextMenuAfterAny(here, st) ==
    IF st = "Disconnected" THEN "gone" ELSE "main"

\* The conditions of the two menus' loops.
NextMenu(here, st) ==
    IF st = "Disconnected" THEN "gone"
    ELSE IF here = "login" /\ st = "Connected" THEN "main" ELSE here

Return(st) ==
    /\ menu' = NextMenu(menu, st)
    /\ status' = IF menu' = menu THEN st ELSE "NoChange"
    /\ option' = NoOption /\ asks' = <<>> /\ given' = <<>>

\* login_menu and main_menu; a bad choice is asked for again.
ChooseOption(opt) ==
    /\ option = NoOption /\ ~eof
    /\ opt \in (CASE menu = "login" -> LoginOpts [] menu = "main" -> MainOpts [] OTHER -> {})
    /\ option' = opt /\ asks' = opt.asks /\ given' = <<>>
    /\ shown' = Nothing
    /\ UNCHANGED <<menu, status, eof, serverVars>>

CloseInput ==
    /\ ~eof /\ eof' = TRUE
    /\ UNCHANGED <<menu, status, optionVars, serverVars, shown>>

\* A line for what is asked for now.
TypeLine(l) ==
    /\ asks # <<>> /\ (eof => l = "")
    /\ LET input == Head(asks)
           taken == l \in input.takes
       IN  /\ taken \/ (input.list /\ l = "")
           /\ asks' = IF taken /\ input.list THEN asks ELSE Tail(asks)
           /\ given' = IF taken /\ option \in LoginOpts THEN Append(given, l) ELSE given
    /\ UNCHANGED <<menu, status, option, eof, serverVars, shown>>

\* An exception that is no SocketException leaves the status as it was.
TypeLineThrows(l) ==
    /\ asks # <<>> /\ (eof => l = "")
    /\ Head(asks).throws /\ l \notin Head(asks).takes /\ ~(Head(asks).list /\ l = "")
    /\ Return(status)
    /\ UNCHANGED <<eof, serverVars, shown>>

\* What a local option computes may throw, before its last questions too.
ComputeThrows ==
    /\ option # NoOption /\ ~option.posts /\ asks \in {<<>>, <<InputYesNo>>, InputPubKeys}
    /\ Return(status)
    /\ UNCHANGED <<eof, serverVars, shown>>

Compute ==
    /\ option # NoOption /\ ~option.posts /\ asks = <<>>
    /\ Return("Connected")
    /\ UNCHANGED <<eof, serverVars, shown>>

\* The passwords differ, or leaving is thought better of.
GiveUp == \/ option = Signup /\ given[2] # given[3]
          \/ option = Logout /\ given[1] \in NoLines
Stay ==
    /\ option # NoOption /\ option.posts /\ asks = <<>> /\ GiveUp
    /\ Return("NoChange")
    /\ UNCHANGED <<eof, serverVars, shown>>

-----------------------------------------------------------------------------
Posting == option # NoOption /\ option.posts /\ asks = <<>> /\ answer = NoAnswer /\ ~GiveUp

\* The server's handlers for the session: the answer and what becomes of the session.
\* A login whose storage fails is not answered.
Serve(is, updates) ==
    /\ Posting /\ session.at \in {"connecting", "connected"}
    /\ is \in CASE session.at = "connecting" /\ option = Signup -> {"success", "refused", "error"}
                [] session.at = "connecting" /\ option = Login -> {"success", "refused"}
                [] option = Logout -> {"success"}
                [] session.at = "connected" /\ option \in MainOpts \ {Logout} -> {"success", "error"}
                [] OTHER -> {"error"}
    /\ updates # {} => option = Update /\ is = "success"
    /\ answer' = [of |-> option.name, is |-> is, updates |-> updates]
    /\ session' = CASE is = "success" /\ option \in {Signup, Login} ->
                            [at |-> "connected", user |-> given[1]]
                    [] option = Logout -> [session EXCEPT !.at = "ended"]
                    [] OTHER -> session
    /\ UNCHANGED <<menu, status, optionVars, eof, shown>>

\* The connection is lost, with what is on its way.
Break ==
    /\ session.at # "ended" /\ menu # "start"
    /\ session' = [session EXCEPT !.at = "ended"] /\ answer' = NoAnswer
    /\ UNCHANGED <<menu, status, optionVars, eof, shown>>

\* update: the lists that are not empty, each printed.
Printed(updates) ==
    {k \in UpdateKinds : k \in updates} \cup (IF updates = {} THEN {"No updates to show."} ELSE {})

\* post and what the option makes of the response.
Receive ==
    /\ answer # NoAnswer
    /\ answer' = NoAnswer
    /\ Return(IF answer.is = "error" THEN status
              ELSE IF answer.is = "refused" THEN "NoChange"
              ELSE IF option = Logout THEN "Disconnected" ELSE "Connected")
    /\ shown' = IF option = Update /\ answer.is = "success"
                THEN [fetched |-> answer.updates, printed |-> Printed(answer.updates)] ELSE shown
    /\ UNCHANGED <<eof, session>>

ReceiveThrows ==
    /\ Posting /\ session.at = "ended"
    /\ Return("Disconnected")
    /\ UNCHANGED <<eof, serverVars, shown>>

ClientProgramNext ==
    \/ \E r \in {"open", "refused", "lost"} : Handshake(r)
    \/ \E opt \in LoginOpts \cup MainOpts : ChooseOption(opt)
    \/ \E l \in Lines : TypeLine(l) \/ TypeLineThrows(l)
    \/ CloseInput \/ ComputeThrows \/ Compute \/ Stay \/ Break \/ Receive \/ ReceiveThrows
    \/ \E is \in {"success", "refused", "error"} : Serve(is, {})
    \/ \E u \in SUBSET UpdateKinds : Serve("success", u)

ClientProgramSpec == ClientProgramInit /\ [][ClientProgramNext]_clientProgramVars

-----------------------------------------------------------------------------
\* "Returns true if client ended up connecting": whatever is typed, refused, thrown or
\* lost, the menu is the one of the session that the server keeps, so no option is
\* offered that the server would not serve, and the program ends only after its session.
MenuMatchesSession ==
    option = NoOption =>
        /\ menu = "login" => session.at \in {"connecting", "ended"} /\ session.user = NoUser
        /\ menu = "main" => session.at \in {"connected", "ended"} /\ session.user # NoUser
        /\ menu = "gone" => session.at = "ended"
        /\ shown.fetched \subseteq shown.printed
=============================================================================
