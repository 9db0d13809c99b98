-------------------------------- MODULE Session --------------------------------
(***************************************************************************)
(* From the login window to the main window: the login request, the chat   *)
(* WebSocket, the two one-shot handlers a login leaves on it, the worker   *)
(* that loads the contacts, the window that is made when the worker ends,  *)
(* and the database of each account.                                       *)
(*                                                                         *)
(* Handlers run in the Qt main thread; the worker (QtConcurrent) only      *)
(* posts a call to that thread.  The signals of the WebSocket are queued.  *)
(* Servers and network are external.  A login attempt is a number; what it *)
(* captured (account, reply, timer) is found under that number.            *)
(***************************************************************************)
EXTENDS Integers, Sequences, FiniteSets

CONSTANTS
  Accounts,            \* accounts, numbered from 1
  MaxAttempts,         \* bound: login requests
  MaxFaults            \* bound: failed requests, lost sockets, cut copies, crashes

ASSUME AccountsAssumption == Accounts \subseteq Nat \ {0} /\ Accounts # {}
ASSUME BoundsAssumption == MaxAttempts \in Nat /\ MaxFaults \in Nat

Attempts == 1..MaxAttempts

VARIABLES
  loginShown,          \* the login window is visible
  registering,         \* a registration window is open
  main,                \* MainWindow::instance, and the account its lists show
  showTimers,          \* 500 ms timers of onContactsLoaded
  isLogining,          \* Login::isLogining
  attempts,            \* per login: its account, its POST and its GET
  started,             \* used part of MaxAttempts
  socket,              \* the chat WebSocket: of which login, and its state
  signals,             \* its queued signals
  onConnected,         \* single-shot handlers of wssConnected, oldest first
  onError,             \* single-shot handlers of wssError
  watched,             \* contactsWatcher: the login whose worker it watches
  currentUser,         \* CurrentUser::m_userId
  video,               \* VideoCallManager: the account it was initialised with
  opened,              \* accounts with a database connection
  files,               \* user.db of each account
  filled,              \* accounts whose tables hold an answer of the server
  told,                \* the chat server: account of "login", on which socket
  running,             \* the program runs
  faults,              \* used part of MaxFaults
  refused,             \* history: an answer left the latest login set
  deaf,                \* history: a GET failed or an open socket was lost
  members              \* history: accounts that were logged in

windows  == <<loginShown, registering, main, showTimers>>
logins   == <<isLogining, attempts, started>>
sockets  == <<socket, signals, onConnected, onError>>
users    == <<watched, currentUser, video>>
database == <<opened, files, filled>>
vars == <<windows, logins, sockets, users, database, told, running, faults, refused, deaf, members>>

NoAttempt == [account |-> 0, post |-> "none", contacts |-> "none"]
NoWindow  == [stage |-> "none", owner |-> 0]
NoSocket  == [of |-> 0, state |-> "closed"]

(* One fault of the environment is used up.                                *)
Fault == faults < MaxFaults /\ faults' = faults + 1

(* What a start of the program sets.                                       *)
Started ==
  /\ loginShown' = TRUE /\ registering' = FALSE /\ main' = NoWindow /\ showTimers' = 0
  /\ isLogining' = FALSE /\ attempts' = [n \in Attempts |-> NoAttempt]
  /\ socket' = NoSocket /\ signals' = <<>> /\ onConnected' = <<>> /\ onError' = {}
  /\ watched' = 0 /\ currentUser' = 0 /\ video' = 0
  /\ opened' = {} /\ told' = [account |-> 0, socket |-> 0]
  /\ running' = TRUE /\ refused' = FALSE /\ deaf' = FALSE /\ members' = {}

Init ==
  /\ loginShown = TRUE /\ registering = FALSE /\ main = NoWindow /\ showTimers = 0
  /\ isLogining = FALSE /\ attempts = [n \in Attempts |-> NoAttempt] /\ started = 0
  /\ socket = NoSocket /\ signals = <<>> /\ onConnected = <<>> /\ onError = {}
  /\ watched = 0 /\ currentUser = 0 /\ video = 0
  /\ opened = {} /\ files = [a \in Accounts |-> "absent"] /\ filled = {}
  /\ told = [account |-> 0, socket |-> 0]
  /\ running = TRUE /\ faults = 0 /\ refused = FALSE /\ deaf = FALSE /\ members = {}

-----------------------------------------------------------------------------
(* The login request.                                                      *)

(* The button (its filter takes the press even when it is disabled) or the *)
(* return key in the password field.                                       *)
DoLogin(a) ==
  /\ loginShown /\ ~isLogining /\ started < MaxAttempts
  /\ started' = started + 1 /\ isLogining' = TRUE
  /\ attempts' = [attempts EXCEPT ![started'] = [account |-> a, post |-> "sent", contacts |-> "none"]]
  /\ refused' = FALSE
  /\ UNCHANGED <<windows, sockets, users, database, told, running, faults, deaf, members>>

PostIsOver(n) ==
  /\ attempts[n].post = "sent"
  /\ attempts' = [attempts EXCEPT ![n].post = "over"]
  /\ UNCHANGED <<started, windows, users, database, told, running, deaf, members>>

(* No answer in five seconds, or an error of the network.                  *)
LoginFails(n) ==
  /\ PostIsOver(n) /\ Fault
  /\ isLogining' = FALSE
  /\ UNCHANGED <<sockets, refused>>

(* An error in the answer, or no JSON: isLogining is left as it is.        *)
LoginRefused(n) ==
  /\ PostIsOver(n)
  /\ refused' = TRUE
  /\ UNCHANGED <<isLogining, sockets, faults>>

(* connectWss drops the socket there was, then the handlers are connected. *)
LoginAccepted(n) ==
  /\ PostIsOver(n)
  /\ socket' = [of |-> n, state |-> "opening"]
  /\ onConnected' = Append(onConnected, n) /\ onError' = onError \cup {n}
  /\ UNCHANGED <<signals, isLogining, faults, refused>>

-----------------------------------------------------------------------------
(* The WebSocket.                                                          *)

SocketOpens ==
  /\ socket.state = "opening"
  /\ socket' = [socket EXCEPT !.state = "open"]
  /\ signals' = Append(signals, "connected")
  /\ UNCHANGED <<windows, logins, onConnected, onError, users, database, told, running, faults, refused, deaf, members>>

SocketFails ==
  /\ socket.state # "closed" /\ Fault
  /\ socket' = [socket EXCEPT !.state = "closed"]
  /\ signals' = Append(signals, "error")
  /\ deaf' = (deaf \/ socket.state = "open")
  /\ UNCHANGED <<windows, logins, onConnected, onError, users, database, told, running, refused, members>>

(* copyTemplateDatabase.                                                   *)
Copied(file) == IF file = "absent" THEN "whole" ELSE file

(* initUserDatabase: an existing file is taken as it is.  The copy of the  *)
(* template may be cut short; nothing checks it.                           *)
InitUserDatabase(accounts) ==
  /\ opened' = opened \cup accounts
  /\ \/ /\ files' = [a \in Accounts |-> IF a \in accounts THEN Copied(files[a]) ELSE files[a]]
        /\ UNCHANGED faults
     \/ \E cut \in accounts :
          /\ files[cut] = "absent" /\ Fault
          /\ files' = [a \in Accounts |-> IF a = cut THEN "partial"
                                          ELSE IF a \in accounts THEN Copied(files[a]) ELSE files[a]]

AccountOf(n) == attempts[n].account
Last(s)      == s[Len(s)]
Elements(s)  == {s[i] : i \in DOMAIN s}

(* Faulty: the watcher is not given the new worker.                        *)
OnLoginSuccess_NotWatched ==
  LET who == Elements(onConnected)
  IN  /\ attempts' = [n \in Attempts |-> IF n \in who THEN [attempts[n] EXCEPT !.contacts = "posted"] ELSE attempts[n]]
      /\ currentUser' = AccountOf(Last(onConnected))
      /\ video' = IF video = 0 THEN AccountOf(onConnected[1]) ELSE video
      /\ InitUserDatabase({AccountOf(n) : n \in who})
      /\ members' = members \cup {AccountOf(n) : n \in who}
      /\ UNCHANGED watched

(* Every handler that waits runs onLoginSuccess for its own login; the     *)
(* watcher is left with the worker of the last.                            *)
OnLoginSuccess ==
  LET who == Elements(onConnected)
  IN  /\ attempts' = [n \in Attempts |-> IF n \in who THEN [attempts[n] EXCEPT !.contacts = "posted"] ELSE attempts[n]]
      /\ currentUser' = AccountOf(Last(onConnected))
      /\ video' = IF video = 0 THEN AccountOf(onConnected[1]) ELSE video
      /\ InitUserDatabase({AccountOf(n) : n \in who})
      /\ watched' = Last(onConnected)
      /\ members' = members \cup {AccountOf(n) : n \in who}

OnWssConnected ==
  /\ signals # <<>> /\ Head(signals) = "connected"
  /\ signals' = Tail(signals)
  /\ onConnected' = <<>>
  /\ \/ onConnected # <<>> /\ OnLoginSuccess
     \/ onConnected = <<>> /\ UNCHANGED <<attempts, users, opened, files, faults, members>>
  /\ UNCHANGED <<windows, isLogining, started, socket, onError, filled, told, running, refused, deaf>>

(* The handler uses the reply and the timer, deleted by then: it goes on,  *)
(* or the program ends.  The other handler of the same login stays.        *)
OnWssError ==
  /\ signals # <<>> /\ Head(signals) = "error"
  /\ signals' = Tail(signals)
  /\ onError' = {}
  /\ isLogining' = IF onError # {} THEN FALSE ELSE isLogining
  /\ running' \in IF onError # {} THEN {TRUE, FALSE} ELSE {TRUE}
  /\ UNCHANGED <<windows, attempts, started, socket, onConnected, users, database, told, faults, refused, deaf, members>>

-----------------------------------------------------------------------------
(* The contacts.                                                           *)

(* The posted part of loadContacts: the GET.                               *)
LoadContacts(n) ==
  /\ attempts[n].contacts = "posted"
  /\ attempts' = [attempts EXCEPT ![n].contacts = "sent"]
  /\ UNCHANGED <<windows, isLogining, started, sockets, users, database, told, running, faults, refused, deaf, members>>

ContactsAreOver(n) ==
  /\ attempts[n].contacts = "sent"
  /\ attempts' = [attempts EXCEPT ![n].contacts = "over"]
  /\ UNCHANGED <<windows, isLogining, started, sockets, watched, video, opened, files, running, refused, members>>

(* Nothing tells the chat server who is here.                              *)
ContactsFail(n) ==
  /\ ContactsAreOver(n) /\ Fault /\ deaf' = TRUE
  /\ UNCHANGED <<currentUser, filled, told>>

(* Faulty: the tables of the account that is current are filled.           *)
ContactsLoaded_KeepsUser(n) ==
  /\ ContactsAreOver(n)
  /\ told' = IF socket.state = "open" THEN [account |-> AccountOf(n), socket |-> socket.of] ELSE told
  /\ filled' = IF files[currentUser] = "whole" THEN filled \cup {currentUser} ELSE filled
  /\ UNCHANGED <<currentUser, deaf, faults>>

(* The chat server is told, the account becomes the current user (again)   *)
(* and its tables are filled.  A file that is not whole keeps nothing.     *)
ContactsLoaded(n) ==
  /\ ContactsAreOver(n)
  /\ told' = IF socket.state = "open" THEN [account |-> AccountOf(n), socket |-> socket.of] ELSE told
  /\ currentUser' = AccountOf(n)
  /\ filled' = IF files[currentUser'] = "whole" THEN filled \cup {currentUser'} ELSE filled
  /\ UNCHANGED <<deaf, faults>>

(* Its pages are built at once, from the tables of the current user.       *)
NewMainWindow == [stage |-> "created", owner |-> currentUser]

(* The worker has ended, its posted call has run; MainWindow::getInstance. *)
(* A window that was closed is deleted but still the instance.             *)
OnContactsLoaded ==
  /\ watched # 0 /\ attempts[watched].contacts # "posted"
  /\ watched' = 0 /\ showTimers' = showTimers + 1
  /\ main' = IF main.stage = "none" THEN NewMainWindow ELSE main
  /\ running' \in IF main.stage = "deleted" THEN {TRUE, FALSE} ELSE {TRUE}
  /\ UNCHANGED <<loginShown, registering, logins, sockets, currentUser, video, database, told, faults, refused, deaf, members>>

(* Half a second later: the main window is shown, the login window closed. *)
ShowMainWindow ==
  /\ showTimers > 0 /\ showTimers' = showTimers - 1
  /\ main' = IF main.stage = "created" THEN [main EXCEPT !.stage = "shown"] ELSE main
  /\ running' \in IF main.stage = "deleted" THEN {registering, FALSE} ELSE {TRUE}
  /\ loginShown' = FALSE /\ isLogining' = FALSE
  /\ UNCHANGED <<registering, attempts, started, sockets, users, database, told, faults, refused, deaf, members>>

-----------------------------------------------------------------------------
(* Windows.                                                                *)

OpenRegister ==
  /\ loginShown /\ ~registering /\ registering' = TRUE
  /\ UNCHANGED <<loginShown, main, showTimers, logins, sockets, users, database, told, running, faults, refused, deaf, members>>

(* Registration: registerSuccess and close.  setLoginInfo shows the login  *)
(* window, whatever it did before.                                         *)
RegisterSuccess ==
  /\ registering /\ registering' = FALSE /\ loginShown' = TRUE
  /\ UNCHANGED <<main, showTimers, logins, sockets, users, database, told, running, faults, refused, deaf, members>>

(* The program ends with its last window.                                  *)
LastWindowCloses(visible) == running' = (visible # {})
Visible == (IF loginShown THEN {"login"} ELSE {}) \cup (IF registering THEN {"register"} ELSE {})
             \cup (IF main.stage = "shown" THEN {"main"} ELSE {})

CloseRegister ==
  /\ registering /\ registering' = FALSE
  /\ LastWindowCloses(Visible \ {"register"})
  /\ UNCHANGED <<loginShown, main, showTimers, logins, sockets, users, database, told, faults, refused, deaf, members>>

CloseLogin ==
  /\ loginShown /\ loginShown' = FALSE
  /\ LastWindowCloses(Visible \ {"login"})
  /\ UNCHANGED <<registering, main, showTimers, logins, sockets, users, database, told, faults, refused, deaf, members>>

CloseMain ==
  /\ main.stage = "shown" /\ main' = [main EXCEPT !.stage = "deleted"]
  /\ LastWindowCloses(Visible \ {"main"})
  /\ UNCHANGED <<loginShown, registering, showTimers, logins, sockets, users, database, told, faults, refused, deaf, members>>

(* The program is started again; the files are what is left.               *)
Restart ==
  /\ ~running /\ started < MaxAttempts
  /\ Started
  /\ UNCHANGED <<started, files, filled, faults>>

-----------------------------------------------------------------------------
ReplyStep ==
  \E n \in Attempts :
    \/ LoginFails(n) \/ LoginRefused(n) \/ LoginAccepted(n)
    \/ LoadContacts(n) \/ ContactsFail(n) \/ ContactsLoaded(n)

EventStep == SocketOpens \/ SocketFails \/ OnWssConnected \/ OnWssError \/ OnContactsLoaded \/ ShowMainWindow

UserStep ==
  \/ \E a \in Accounts : DoLogin(a)
  \/ OpenRegister \/ RegisterSuccess \/ CloseRegister \/ CloseLogin \/ CloseMain

Next == (running /\ (ReplyStep \/ EventStep \/ UserStep)) \/ Restart

Spec == Init /\ [][Next]_vars

(* A request is answered or times out, an opening socket opens or fails,   *)
(* queued calls run and timers fire.                                       *)
Answered(n) == LoginFails(n) \/ LoginRefused(n) \/ LoginAccepted(n)
Loaded(n)   == LoadContacts(n) \/ ContactsFail(n) \/ ContactsLoaded(n)

Fairness ==
  /\ \A n \in Attempts : WF_vars(running /\ Answered(n)) /\ WF_vars(running /\ Loaded(n))
  /\ WF_vars(running /\ SocketOpens)
  /\ WF_vars(running /\ (OnWssConnected \/ OnWssError))
  /\ WF_vars(running /\ OnContactsLoaded) /\ WF_vars(running /\ ShowMainWindow)

FairSpec == Spec /\ Fairness

-----------------------------------------------------------------------------
(* Properties.                                                             *)

(* Types.                                                                  *)
TypeOK ==
  /\ loginShown \in BOOLEAN /\ registering \in BOOLEAN
  /\ main \in [stage : {"none", "created", "shown", "deleted"}, owner : Accounts \cup {0}]
  /\ showTimers \in Nat /\ isLogining \in BOOLEAN
  /\ attempts \in [Attempts -> [account : Accounts \cup {0}, post : {"none", "sent", "over"},
                                contacts : {"none", "posted", "sent", "over"}]]
  /\ started \in 0..MaxAttempts
  /\ socket \in [of : 0..MaxAttempts, state : {"closed", "opening", "open"}]
  /\ signals \in Seq({"connected", "error"})
  /\ onConnected \in Seq(Attempts) /\ onError \subseteq Attempts
  /\ watched \in 0..MaxAttempts /\ currentUser \in Accounts \cup {0} /\ video \in Accounts \cup {0}
  /\ opened \subseteq Accounts /\ files \in [Accounts -> {"absent", "partial", "whole"}]
  /\ filled \subseteq {a \in Accounts : files[a] = "whole"}
  /\ told \in [account : Accounts \cup {0}, socket : 0..MaxAttempts]
  /\ running \in BOOLEAN /\ faults \in 0..MaxFaults /\ refused \in BOOLEAN /\ deaf \in BOOLEAN
  /\ members \subseteq Accounts

(* Something under way will end the login.                                 *)
WayOut ==
  \/ \E n \in Attempts : attempts[n].post = "sent"
  \/ socket.state = "opening" \/ signals # <<>>
  \/ watched # 0 \/ showTimers > 0

(* The login window is never left dead: as long as it refuses to log in,   *)
(* something is under way that will end this.  Left out is one case in     *)
(* which the code does leave it dead: the latest login was answered by     *)
(* "wrong password".                                                       *)
LoginIsReleased == running /\ isLogining => WayOut \/ refused

(* Whatever account is changed to, and although handlers of an earlier     *)
(* login run again for a later one and the contacts come in any order:     *)
(* when no contacts are under way, and neither contacts nor an open socket *)
(* were lost, the chat server was told of the current user on the socket   *)
(* that is open, and his tables hold an answer unless their copy was cut.  *)
UserIsTold ==
  /\ running /\ ~deaf /\ socket.state = "open" /\ signals = <<>>
  /\ \A n \in Attempts : attempts[n].contacts \notin {"posted", "sent"}
  => /\ told = [account |-> currentUser, socket |-> socket.of]
     /\ currentUser \in filled \/ files[currentUser] = "partial"

(* As long as one account was used, whatever attempts failed and whatever  *)
(* windows were open: the main window's lists, the current user and the    *)
(* call service are of that account.                                       *)
OneIdentity ==
  main.stage = "shown" /\ Cardinality(members) = 1 =>
    members = {currentUser} /\ main.owner = currentUser /\ video = currentUser

(* A login the server accepts ends in the main window, unless something    *)
(* fails or the user closes a window before.                               *)
LoginEndsInMainWindow ==
  \A n \in Attempts :
    attempts[n].post = "over" /\ ~refused /\ running
      ~> main.stage \in {"shown", "deleted"} \/ faults > 0 \/ ~running

(* The login window is never left dead, and whatever attempts failed or    *)
(* changed the account, all agree on who is logged in.                     *)
AccountsAreApart ==
  /\ TypeOK
  /\ LoginIsReleased
  /\ UserIsTold
  /\ OneIdentity
===============================================================================
