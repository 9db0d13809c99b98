---------------------------- MODULE AccountProofs ----------------------------
(***************************************************************************)
(* Proofs about logging in (accounts are kept apart and the login window   *)
(* never stays dead, whatever logins fail or change the account), the      *)
(* registration form (it stays usable, and what it reports and sends is    *)
(* what was registered and uploaded, for any number of requests, replies   *)
(* in any order and a form that is edited and closed) and the window of    *)
(* short messages (messages in windows do not disturb each other, whatever *)
(* their number and the moments at which they come).                       *)
(***************************************************************************)
EXTENDS Session, Registration, Notifications, FiniteSetTheorems, SequenceTheorems, TLAPS

(***************************************************************************)
(* From the login to the main window.  The inductive invariant.            *)
(***************************************************************************)

(* What was captured by a request or by a handler that waits is of a login *)
(* that was placed; contacts are asked for by accounts that are logged in. *)
AttemptInv == \A n \in Attempts :
  /\ attempts[n].post # "none" => attempts[n].account # 0
  /\ attempts[n].contacts # "none" => attempts[n].account \in members
  /\ n \in Elements(onConnected) => attempts[n].account # 0
  /\ n > started => attempts[n] = NoAttempt

(* Everything that belongs to a user belongs to one that was logged in.    *)
UserInv ==
  /\ IsFiniteSet(members) /\ (\A a \in members : files[a] # "absent")
  /\ members # {} => currentUser \in members /\ video \in members
  /\ members = {} => video = 0
  /\ watched # 0 => members # {}
  /\ main.stage # "none" => main.owner \in members

(* A login on its way holds both handlers from its answer until the socket *)
(* has opened or failed.                                                   *)
HandlersWait == onConnected # <<>> /\ onError # {} /\ (socket.state = "opening" \/ signals # <<>>)

ReleaseInv ==
  running /\ isLogining /\ ~refused =>
    \/ \E n \in Attempts : attempts[n].post = "sent"
    \/ watched # 0 \/ showTimers > 0
    \/ HandlersWait

(* As long as no contacts and no open socket were lost, logins come one    *)
(* after the other, and each is at one place: its POST, the socket that    *)
(* opens, the signal, the worker, the timer.                               *)
PostAlone == \A n \in Attempts : attempts[n].post = "sent" =>
  /\ isLogining /\ n = started
  /\ socket.state # "opening" /\ signals = <<>> /\ watched = 0 /\ showTimers = 0
SocketAlone == socket.state = "opening" =>
  /\ isLogining /\ onConnected # <<>>
  /\ signals = <<>> /\ watched = 0 /\ showTimers = 0
SignalAlone == signals # <<>> =>
  /\ isLogining /\ Len(signals) = 1
  /\ watched = 0 /\ showTimers = 0
  /\ Head(signals) = "connected" => onConnected # <<>>
  /\ Head(signals) = "error" => socket.state = "closed"
TimerAlone ==
  /\ watched # 0 => isLogining /\ showTimers = 0
  /\ showTimers # 0 => isLogining /\ showTimers = 1

OneByOne == ~deaf => PostAlone /\ SocketAlone /\ SignalAlone /\ TimerAlone

(* Then the chat server knows the user of the open socket and his tables   *)
(* are filled, or the signal that it has opened or a GET of contacts is    *)
(* still under way.                                                        *)
ToldInv == ~deaf /\ socket.state = "open" =>
  \/ /\ told.account = currentUser /\ told.socket = socket.of
     /\ currentUser \in filled \/ files[currentUser] = "partial"
  \/ signals # <<>>
  \/ \E n \in Attempts : attempts[n].contacts \in {"posted", "sent"}

SessionInv == TypeOK /\ AttemptInv /\ UserInv /\ ReleaseInv /\ OneByOne /\ ToldInv

LEMMA SessionInit == Init => SessionInv
<1> SUFFICES ASSUME Init PROVE SessionInv
  OBVIOUS
<1> USE DEF Init, NoAttempt, NoWindow, NoSocket
<1>1. TypeOK
  <2>1. /\ loginShown \in BOOLEAN /\ registering \in BOOLEAN /\ isLogining \in BOOLEAN
        /\ running \in BOOLEAN /\ refused \in BOOLEAN /\ deaf \in BOOLEAN
    OBVIOUS
  <2>2. /\ main \in [stage : {"none", "created", "shown", "deleted"}, owner : Accounts \cup {0}]
        /\ attempts \in [Attempts -> [account : Accounts \cup {0}, post : {"none", "sent", "over"},
                                      contacts : {"none", "posted", "sent", "over"}]]
        /\ told \in [account : Accounts \cup {0}, socket : 0..MaxAttempts]
        /\ socket \in [of : 0..MaxAttempts, state : {"closed", "opening", "open"}]
    BY BoundsAssumption
  <2>3. /\ showTimers \in Nat /\ started \in 0..MaxAttempts /\ faults \in 0..MaxFaults
        /\ watched \in 0..MaxAttempts
    BY BoundsAssumption
  <2>4. /\ signals \in Seq({"connected", "error"})
        /\ onConnected \in Seq(Attempts) /\ onError \subseteq Attempts
    OBVIOUS
  <2>5. /\ currentUser \in Accounts \cup {0} /\ video \in Accounts \cup {0}
        /\ opened \subseteq Accounts /\ files \in [Accounts -> {"absent", "partial", "whole"}]
        /\ filled \subseteq {a \in Accounts : files[a] = "whole"} /\ members \subseteq Accounts
    OBVIOUS
  <2>6. QED
    BY <2>1, <2>2, <2>3, <2>4, <2>5 DEF TypeOK
<1>2. AttemptInv /\ UserInv
  <2>1. Elements(<<>>) = {}
    BY DEF Elements
  <2>2. QED
    BY <2>1, FS_EmptySet DEF AttemptInv, UserInv
<1>3. ReleaseInv /\ ToldInv
  BY DEF ReleaseInv, ToldInv
<1>4. OneByOne
  BY DEF OneByOne, PostAlone, SocketAlone, SignalAlone, TimerAlone
<1>5. QED
  BY <1>1, <1>2, <1>3, <1>4 DEF SessionInv

LEMMA DoLoginKeeps ==
  ASSUME SessionInv, NEW a \in Accounts, DoLogin(a)
  PROVE  SessionInv'
<1> USE DEF SessionInv, DoLogin, windows, sockets, users, database
<1>1. /\ started + 1 \in Attempts /\ started' = started + 1 /\ a # 0
      /\ attempts' = [attempts EXCEPT ![started + 1] =
                        [account |-> a, post |-> "sent", contacts |-> "none"]]
  BY AccountsAssumption, BoundsAssumption DEF TypeOK, Attempts
<1>2. attempts \in [Attempts -> [account : Accounts \cup {0}, post : {"none", "sent", "over"},
                                 contacts : {"none", "posted", "sent", "over"}]]
  BY DEF TypeOK
<1>3. /\ attempts'[started + 1] = [account |-> a, post |-> "sent", contacts |-> "none"]
      /\ \A n \in Attempts \ {started + 1} : attempts'[n] = attempts[n]
      /\ isLogining'
  BY <1>1, <1>2
<1>4. TypeOK'
  <2>1. refused' \in BOOLEAN
    BY Zenon DEF DoLogin
  <2>2. isLogining' \in BOOLEAN
    BY Zenon DEF DoLogin
  <2>3. attempts' \in [Attempts -> [account : Accounts \cup {0}, post : {"none", "sent", "over"},
                                   contacts : {"none", "posted", "sent", "over"}]]
    BY <1>1, <1>2
  <2>4. started' \in 0..MaxAttempts
    BY <1>1, BoundsAssumption DEF Attempts
  <2>5. QED
    BY <2>1, <2>2, <2>3, <2>4 DEF TypeOK
<1>5. AttemptInv' /\ UserInv'
  <2>1. started \in Nat /\ Attempts \subseteq Nat
    BY BoundsAssumption DEF TypeOK, Attempts
  <2>2. Elements(onConnected') = Elements(onConnected)
    OBVIOUS
  <2>3. ASSUME NEW n \in Attempts
        PROVE  /\ attempts'[n].post # "none" => attempts'[n].account # 0
               /\ attempts'[n].contacts # "none" => attempts'[n].account \in members
               /\ n \in Elements(onConnected') => attempts'[n].account # 0
               /\ n > started' => attempts'[n] = NoAttempt
    <3>1. CASE n = started + 1
      BY <1>1, <1>3, <2>1, <3>1
    <3>2. CASE n # started + 1
      BY <1>1, <1>3, <2>1, <2>2, <3>2 DEF AttemptInv
    <3>3. QED
      BY <3>1, <3>2
  <2>4. QED
    BY <2>3 DEF AttemptInv, UserInv
<1>6. ReleaseInv'
  BY <1>1, <1>3 DEF ReleaseInv
<1>7. OneByOne'
  <2>1. ~deaf => /\ \A n \in Attempts : attempts[n].post # "sent"
                 /\ socket.state # "opening" /\ signals = <<>> /\ watched = 0 /\ showTimers = 0
    BY DEF OneByOne, PostAlone, SocketAlone, SignalAlone, TimerAlone
  <2>2. QED
    BY <1>1, <1>3, <2>1 DEF OneByOne, PostAlone, SocketAlone, SignalAlone, TimerAlone
<1>8. ToldInv'
  <2>1. attempts[started + 1].contacts = "none"
    BY <1>1 DEF AttemptInv, NoAttempt, TypeOK
  <2>2. QED
    BY <1>1, <1>3, <2>1 DEF ToldInv
<1>9. QED
  BY <1>4, <1>5, <1>6, <1>7, <1>8

(* The answer to a login, whatever it is.                                  *)
LEMMA PostIsOverFacts ==
  ASSUME SessionInv, NEW n \in Attempts, PostIsOver(n)
  PROVE  /\ attempts' \in [Attempts -> [account : Accounts \cup {0}, post : {"none", "sent", "over"},
                                        contacts : {"none", "posted", "sent", "over"}]]
         /\ attempts'[n].post = "over" /\ attempts[n].post = "sent"
         /\ \A k \in Attempts \ {n} : attempts'[k] = attempts[k]
         /\ \A k \in Attempts : /\ attempts'[k].account = attempts[k].account
                                /\ attempts'[k].contacts = attempts[k].contacts
         /\ attempts[n].account # 0 /\ n <= started
         /\ \A k \in Attempts : k > started => attempts'[k] = NoAttempt
         /\ ~deaf => \A k \in Attempts : attempts'[k].post # "sent"
<1>1. /\ attempts \in [Attempts -> [account : Accounts \cup {0}, post : {"none", "sent", "over"},
                                    contacts : {"none", "posted", "sent", "over"}]]
      /\ started \in Nat /\ n \in Nat
  BY BoundsAssumption DEF SessionInv, TypeOK, Attempts
<1>2. attempts[n].post = "sent" /\ attempts' = [attempts EXCEPT ![n].post = "over"]
  BY DEF PostIsOver
<1>3. attempts[n].account # 0 /\ n <= started
  <2>1. attempts[n] # NoAttempt
    BY <1>2 DEF NoAttempt
  <2>2. attempts[n].account # 0 /\ ~(n > started)
    BY <1>2, <2>1 DEF SessionInv, AttemptInv
  <2>3. QED
    BY <1>1, <2>2
<1>4. \A k \in Attempts \ {n} : attempts'[k] = attempts[k]
  BY <1>1, <1>2
<1>5. attempts'[n].post = "over" /\ attempts'[n] = [attempts[n] EXCEPT !.post = "over"]
  BY <1>1, <1>2
<1>6. \A k \in Attempts : k > started => attempts'[k] = NoAttempt
  <2>1. \A k \in Attempts : k > started => k # n
    BY <1>1, <1>3 DEF Attempts
  <2>2. QED
    BY <1>4, <2>1 DEF SessionInv, AttemptInv
<1>7. ~deaf => \A k \in Attempts : attempts'[k].post # "sent"
  BY <1>2, <1>4, <1>5 DEF SessionInv, OneByOne, PostAlone
<1>8. /\ attempts'[n].account = attempts[n].account /\ attempts'[n].contacts = attempts[n].contacts
      /\ attempts'[n] \in [account : Accounts \cup {0}, post : {"none", "sent", "over"},
                           contacts : {"none", "posted", "sent", "over"}]
  BY <1>1, <1>5
<1>9. QED
  BY <1>1, <1>2, <1>3, <1>4, <1>5, <1>6, <1>7, <1>8

LEMMA LoginAnswerKeeps ==
  ASSUME SessionInv, NEW n \in Attempts, LoginFails(n) \/ LoginRefused(n)
  PROVE  SessionInv'
<1> USE DEF SessionInv, LoginFails, LoginRefused, Fault, windows, sockets, users, database
<1> PostIsOver(n)
  OBVIOUS
<1>1. UNCHANGED <<windows, sockets, users, database, told, running, deaf, members, started>>
  BY DEF PostIsOver
<1>2. TypeOK'
  <2>1. isLogining' \in BOOLEAN /\ refused' \in BOOLEAN
    BY Zenon DEF TypeOK
  <2>2. faults' \in 0..MaxFaults
    BY BoundsAssumption DEF TypeOK
  <2>3. QED
    BY <1>1, <2>1, <2>2, PostIsOverFacts DEF TypeOK
<1>3. AttemptInv' /\ UserInv'
  BY <1>1, PostIsOverFacts DEF AttemptInv, UserInv
<1>4. ReleaseInv'
  BY <1>1 DEF ReleaseInv
<1>5. OneByOne'
  <2>1. ~deaf => /\ socket.state # "opening" /\ signals = <<>> /\ watched = 0 /\ showTimers = 0
                 /\ \A k \in Attempts : attempts'[k].post # "sent"
    BY PostIsOverFacts DEF OneByOne, PostAlone
  <2>2. QED
    BY <1>1, <2>1 DEF OneByOne, PostAlone, SocketAlone, SignalAlone, TimerAlone
<1>6. ToldInv'
  BY <1>1, PostIsOverFacts DEF ToldInv
<1>7. QED
  BY <1>1, <1>2, <1>3, <1>4, <1>5, <1>6

LEMMA LoginAcceptedKeeps ==
  ASSUME SessionInv, NEW n \in Attempts, LoginAccepted(n)
  PROVE  SessionInv'
<1> USE DEF SessionInv, LoginAccepted, windows, sockets, users, database
<1> PostIsOver(n)
  OBVIOUS
<1>1. /\ UNCHANGED <<windows, users, database, told, running, deaf, members, started, faults, refused,
                     isLogining, signals>>
      /\ socket' = [of |-> n, state |-> "opening"]
  BY DEF PostIsOver
<1>2. /\ onConnected' \in Seq(Attempts) /\ onConnected' # <<>> /\ onError' # {}
      /\ onError' \subseteq Attempts
      /\ Elements(onConnected') \subseteq Elements(onConnected) \cup {n}
  BY DEF TypeOK, Elements
<1>3. TypeOK'
  BY <1>1, <1>2, PostIsOverFacts, BoundsAssumption DEF TypeOK, Attempts
<1>4. AttemptInv'
  BY <1>1, <1>2, PostIsOverFacts DEF AttemptInv
<1>5. UserInv'
  BY <1>1 DEF UserInv
<1>6. ReleaseInv'
  BY <1>1, <1>2 DEF ReleaseInv, HandlersWait
<1>7. OneByOne'
  <2>1. ~deaf => /\ isLogining /\ signals = <<>> /\ watched = 0 /\ showTimers = 0
                 /\ \A k \in Attempts : attempts'[k].post # "sent"
    BY PostIsOverFacts DEF OneByOne, PostAlone
  <2>2. QED
    BY <1>1, <1>2, <2>1 DEF OneByOne, PostAlone, SocketAlone, SignalAlone, TimerAlone
<1>8. ToldInv'
  BY <1>1 DEF ToldInv
<1>9. QED
  BY <1>1, <1>3, <1>4, <1>5, <1>6, <1>7, <1>8

-----------------------------------------------------------------------------
(* The WebSocket.                                                          *)

LEMMA SocketOpensKeeps == ASSUME SessionInv, SocketOpens PROVE SessionInv'
<1> USE DEF SessionInv, SocketOpens, windows, logins, users, database
<1>1. /\ signals \in Seq({"connected", "error"})
      /\ socket' = [of |-> socket.of, state |-> "open"]
      /\ socket' \in [of : 0..MaxAttempts, state : {"closed", "opening", "open"}]
  BY DEF TypeOK
<1>2. /\ signals' \in Seq({"connected", "error"}) /\ signals' # <<>>
      /\ signals = <<>> => Len(signals') = 1 /\ Head(signals') = "connected"
  BY <1>1
<1>3. TypeOK'
  <2>1. UNCHANGED <<windows, logins, onConnected, onError, users, database, told, running, faults,
                    refused, deaf, members>>
    OBVIOUS
  <2>2. QED
    BY <1>1, <1>2, <2>1 DEF TypeOK
<1>4. AttemptInv' /\ UserInv'
  BY DEF AttemptInv, UserInv
<1>5. ReleaseInv' /\ ToldInv'
  BY <1>2 DEF ReleaseInv, HandlersWait, ToldInv
<1>6. OneByOne'
  BY <1>1, <1>2 DEF OneByOne, PostAlone, SocketAlone, SignalAlone, TimerAlone
<1>7. QED
  BY <1>3, <1>4, <1>5, <1>6

LEMMA SocketFailsKeeps == ASSUME SessionInv, SocketFails PROVE SessionInv'
<1> USE DEF SessionInv, SocketFails, Fault, windows, logins, users, database
<1>1. /\ signals \in Seq({"connected", "error"}) /\ deaf \in BOOLEAN
      /\ socket.state \in {"closed", "opening", "open"}
      /\ socket' = [of |-> socket.of, state |-> "closed"]
      /\ socket' \in [of : 0..MaxAttempts, state : {"closed", "opening", "open"}]
  BY DEF TypeOK
<1>2. /\ signals' \in Seq({"connected", "error"}) /\ signals' # <<>>
      /\ signals = <<>> => Len(signals') = 1 /\ Head(signals') = "error"
  BY <1>1
<1>3. TypeOK'
  <2>1. deaf' \in BOOLEAN
    BY <1>1
  <2>2. faults' \in 0..MaxFaults
    BY BoundsAssumption DEF TypeOK
  <2>3. UNCHANGED <<windows, logins, onConnected, onError, users, database, told, running, refused,
                    members>>
    OBVIOUS
  <2>4. QED
    BY <1>1, <1>2, <2>1, <2>2, <2>3 DEF TypeOK
<1>4. AttemptInv' /\ UserInv'
  BY DEF AttemptInv, UserInv
<1>5. ReleaseInv' /\ ToldInv'
  BY <1>1, <1>2 DEF ReleaseInv, HandlersWait, ToldInv
<1>6. OneByOne'
  <2>1. ~deaf' => ~deaf /\ socket.state = "opening"
    BY <1>1
  <2>2. QED
    BY <1>1, <1>2, <2>1 DEF OneByOne, PostAlone, SocketAlone, SignalAlone, TimerAlone
<1>7. QED
  BY <1>3, <1>4, <1>5, <1>6

(* The file of an account that is whole stays so.                          *)
LEMMA DatabaseFacts ==
  ASSUME TypeOK, NEW accounts \in SUBSET Accounts, InitUserDatabase(accounts)
  PROVE  /\ opened' \subseteq Accounts /\ faults' \in 0..MaxFaults
         /\ files' \in [Accounts -> {"absent", "partial", "whole"}]
         /\ \A a \in Accounts : files[a] = "whole" => files'[a] = "whole"
BY BoundsAssumption DEF TypeOK, InitUserDatabase, Copied, Fault

(* What the handlers of a login do when the socket opens.                  *)
LEMMA LoginSuccessFacts ==
  ASSUME SessionInv, onConnected # <<>>, OnLoginSuccess,
         NEW who, who = {attempts[n].account : n \in Elements(onConnected)}
  PROVE  /\ who \subseteq Accounts /\ who # {} /\ IsFiniteSet(who)
         /\ members' = members \cup who
         /\ currentUser' \in who
         /\ video' \in members' /\ video' # 0
         /\ watched' \in Elements(onConnected)
         /\ InitUserDatabase(who)
         /\ attempts' = [n \in Attempts |-> IF n \in Elements(onConnected)
                          THEN [attempts[n] EXCEPT !.contacts = "posted"] ELSE attempts[n]]
<1> USE DEF OnLoginSuccess, AccountOf
<1>1. /\ onConnected \in Seq(Attempts) /\ Len(onConnected) \in Nat
      /\ DOMAIN onConnected = 1..Len(onConnected) /\ Len(onConnected) > 0
  BY EmptySeq DEF SessionInv, TypeOK
<1>2. Last(onConnected) \in Elements(onConnected) /\ onConnected[1] \in Elements(onConnected)
  BY <1>1 DEF Last, Elements
<1>3. Elements(onConnected) \subseteq Attempts
  BY <1>1 DEF Elements
<1>4. who \subseteq Accounts
  BY <1>3 DEF SessionInv, AttemptInv, TypeOK
<1>5. attempts[Last(onConnected)].account \in who /\ attempts[onConnected[1]].account \in who
  BY <1>2
<1>6. members' = members \cup who
  OBVIOUS
<1>7. video' \in members'
  BY <1>5, <1>6 DEF SessionInv, UserInv
<1>8. 0 \notin Accounts
  BY AccountsAssumption
<1>9. video' # 0
  BY <1>4, <1>5, <1>8
<1>10. IsFiniteSet(who)
  <2> DEFINE f == [n \in Elements(onConnected) |-> attempts[n].account]
  <2>1. IsFiniteSet(Elements(onConnected))
    <3>1. IsFiniteSet(Attempts)
      BY FS_Interval, BoundsAssumption DEF Attempts
    <3>2. QED
      BY <1>3, <3>1, FS_Subset
  <2>2. f \in Surjection(Elements(onConnected), who)
    BY DEF Surjection
  <2>3. QED
    BY <2>1, <2>2, FS_Surjection
<1>11. QED
  BY <1>2, <1>4, <1>5, <1>6, <1>7, <1>9, <1>10

LEMMA TailFacts ==
  ASSUME SessionInv, signals # <<>>, signals' = Tail(signals)
  PROVE  /\ signals' \in Seq({"connected", "error"})
         /\ Len(signals) = 1 => signals' = <<>>
BY DEF SessionInv, TypeOK

LEMMA LoginSuccessKeeps ==
  ASSUME SessionInv, OnWssConnected, onConnected # <<>>, OnLoginSuccess
  PROVE  SessionInv'
<1> DEFINE who == {attempts[n].account : n \in Elements(onConnected)}
<1> HIDE DEF who
<1> USE DEF SessionInv, OnWssConnected
<1>1. /\ who \subseteq Accounts /\ who # {} /\ IsFiniteSet(who)
      /\ members' = members \cup who
      /\ currentUser' \in who
      /\ video' \in members' /\ video' # 0
      /\ watched' \in Elements(onConnected)
      /\ InitUserDatabase(who)
      /\ attempts' = [n \in Attempts |-> IF n \in Elements(onConnected)
                       THEN [attempts[n] EXCEPT !.contacts = "posted"] ELSE attempts[n]]
  BY LoginSuccessFacts DEF who
<1>2. Elements(onConnected) \subseteq Attempts /\ Elements(onConnected') = {}
  BY DEF Elements, TypeOK
<1>3. /\ attempts \in [Attempts -> [account : Accounts \cup {0}, post : {"none", "sent", "over"},
                                    contacts : {"none", "posted", "sent", "over"}]]
      /\ \A n \in Attempts : /\ attempts'[n].account = attempts[n].account
                             /\ attempts'[n].post = attempts[n].post
                             /\ n \in Elements(onConnected) => attempts'[n].contacts = "posted"
                             /\ n \notin Elements(onConnected) => attempts'[n] = attempts[n]
  BY <1>1 DEF TypeOK
<1>4. attempts' \in [Attempts -> [account : Accounts \cup {0}, post : {"none", "sent", "over"},
                                  contacts : {"none", "posted", "sent", "over"}]]
  BY <1>1, <1>3
<1>5. UNCHANGED <<windows, isLogining, started, socket, onError, filled, told, running, refused, deaf>>
  OBVIOUS
<1>6. TypeOK'
  <2>1. signals' \in Seq({"connected", "error"}) /\ onConnected' \in Seq(Attempts)
    BY TailFacts
  <2>2. watched' \in 0..MaxAttempts /\ currentUser' \in Accounts /\ video' \in Accounts
        /\ members' \subseteq Accounts
    BY <1>1, <1>2, BoundsAssumption DEF TypeOK, Attempts
  <2>3. /\ opened' \subseteq Accounts /\ faults' \in 0..MaxFaults
        /\ files' \in [Accounts -> {"absent", "partial", "whole"}]
        /\ \A a \in Accounts : files[a] = "whole" => files'[a] = "whole"
    BY <1>1, DatabaseFacts
  <2>4. filled' \subseteq {a \in Accounts : files'[a] = "whole"}
    BY <1>5, <2>3 DEF TypeOK
  <2>5. QED
    BY <1>4, <1>5, <2>1, <2>2, <2>3, <2>4 DEF TypeOK, windows
<1>7. AttemptInv'
  <2>1. ASSUME NEW n \in Attempts
        PROVE  /\ attempts'[n].post # "none" => attempts'[n].account # 0
               /\ attempts'[n].contacts # "none" => attempts'[n].account \in members'
               /\ n > started => attempts'[n] = NoAttempt
    <3>1. CASE n \in Elements(onConnected)
      <4>1. attempts[n].account \in who
        BY <3>1 DEF who
      <4>2. ~(n > started)
        BY <3>1 DEF AttemptInv, NoAttempt
      <4>3. QED
        BY <1>1, <1>3, <4>1, <4>2 DEF AttemptInv
    <3>2. CASE n \notin Elements(onConnected)
      BY <1>1, <1>3, <3>2 DEF AttemptInv
    <3>3. QED
      BY <3>1, <3>2
  <2>2. QED
    BY <1>2, <1>5, <2>1 DEF AttemptInv
<1>8. UserInv'
  <2>1. IsFiniteSet(members')
    BY <1>1, FS_Union DEF UserInv
  <2>2. \A a \in members' : files'[a] # "absent"
    <3>1. files \in [Accounts -> {"absent", "partial", "whole"}] /\ members \subseteq Accounts
      BY DEF TypeOK
    <3>2. \A a \in Accounts : (a \in who \/ files[a] # "absent") => files'[a] # "absent"
      BY <1>1, <3>1 DEF InitUserDatabase, Copied
    <3>3. QED
      BY <1>1, <3>1, <3>2 DEF UserInv
  <2>3. QED
    BY <1>1, <1>5, <2>1, <2>2 DEF UserInv, windows
<1>9. watched' # 0
  BY <1>1, <1>2 DEF Attempts
<1>10. ReleaseInv'
  BY <1>9 DEF ReleaseInv
<1>11. OneByOne'
  <2>1. ~deaf => /\ isLogining /\ signals' = <<>> /\ watched = 0 /\ showTimers = 0
                 /\ socket.state # "opening"
                 /\ \A n \in Attempts : attempts[n].post # "sent"
    BY TailFacts DEF OneByOne, PostAlone, SocketAlone, SignalAlone
  <2>2. QED
    BY <1>3, <1>5, <2>1 DEF OneByOne, PostAlone, SocketAlone, SignalAlone, TimerAlone, windows
<1>12. ToldInv'
  <2>1. PICK n \in Attempts : n \in Elements(onConnected)
    BY <1>1, <1>2
  <2>2. QED
    BY <1>3, <2>1 DEF ToldInv
<1>13. QED
  BY <1>6, <1>7, <1>8, <1>10, <1>11, <1>12

LEMMA OnWssConnectedKeeps == ASSUME SessionInv, OnWssConnected PROVE SessionInv'
<1>1. CASE onConnected # <<>> /\ OnLoginSuccess
  BY <1>1, LoginSuccessKeeps
<1>2. CASE onConnected = <<>> /\ UNCHANGED <<attempts, users, opened, files, faults, members>>
  <2> USE <1>2 DEF SessionInv, OnWssConnected, windows, users
  <2>1. signals' \in Seq({"connected", "error"}) /\ onConnected' = onConnected
    BY TailFacts
  <2>2. /\ UNCHANGED <<loginShown, registering, main, showTimers, isLogining, started, socket, onError>>
        /\ UNCHANGED <<filled, told, running, refused, deaf, attempts, watched>>
        /\ UNCHANGED <<currentUser, video, opened, files, faults, members>>
    OBVIOUS
  <2> HIDE DEF OnWssConnected
  <2>3. TypeOK'
    BY <2>1, <2>2 DEF TypeOK
  <2>4. AttemptInv' /\ UserInv'
    BY <2>1, <2>2 DEF AttemptInv, UserInv
  <2>5. ReleaseInv'
    BY <2>1, <2>2 DEF ReleaseInv, HandlersWait
  <2>6. deaf
    BY DEF OnWssConnected, OneByOne, SignalAlone
  <2>7. OneByOne' /\ ToldInv'
    BY <2>2, <2>6 DEF OneByOne, ToldInv
  <2>8. QED
    BY <2>3, <2>4, <2>5, <2>7
<1>3. QED
  BY <1>1, <1>2 DEF OnWssConnected

LEMMA OnWssErrorKeeps == ASSUME SessionInv, running, OnWssError PROVE SessionInv'
<1> USE DEF SessionInv, OnWssError, windows, users, database
<1>1. /\ UNCHANGED <<loginShown, registering, main, showTimers, attempts, started, socket, onConnected>>
      /\ UNCHANGED <<watched, currentUser, video, opened, files, filled, told, faults>>
      /\ UNCHANGED <<refused, deaf, members>>
      /\ onError' = {}
  OBVIOUS
<1>2. /\ signals' \in Seq({"connected", "error"})
      /\ Len(signals) = 1 => signals' = <<>>
  BY TailFacts
<1>3. isLogining' \in BOOLEAN /\ running' \in BOOLEAN
  BY Zenon DEF TypeOK
<1>4. isLogining' /\ running' => isLogining /\ onError = {}
  BY Zenon
<1>5. signals # <<>> /\ Head(signals) = "error"
  OBVIOUS
<1> HIDE DEF OnWssError
<1>6. TypeOK'
  BY <1>1, <1>2, <1>3 DEF TypeOK
<1>7. AttemptInv' /\ UserInv'
  BY <1>1 DEF AttemptInv, UserInv
<1>8. ReleaseInv'
  BY <1>1, <1>4 DEF ReleaseInv, HandlersWait
<1>9. OneByOne'
  <2>1. ~deaf => /\ signals' = <<>> /\ watched = 0 /\ showTimers = 0
                 /\ socket.state # "opening"
                 /\ \A n \in Attempts : attempts[n].post # "sent"
    BY <1>2, <1>5 DEF OneByOne, PostAlone, SocketAlone, SignalAlone
  <2>2. QED
    BY <1>1, <2>1 DEF OneByOne, PostAlone, SocketAlone, SignalAlone, TimerAlone
<1>10. ToldInv'
  BY <1>1, <1>5 DEF OneByOne, SignalAlone, ToldInv
<1>11. QED
  BY <1>6, <1>7, <1>8, <1>9, <1>10

-----------------------------------------------------------------------------
(* The contacts.                                                           *)

(* A request for contacts moves on; everything else of it is as it was.    *)
ContactsMoveTo(n, c) ==
  /\ attempts[n].contacts # "none"
  /\ attempts' = [attempts EXCEPT ![n].contacts = c]

LEMMA ContactsFacts ==
  ASSUME SessionInv, NEW n \in Attempts, NEW c \in {"sent", "over"}, ContactsMoveTo(n, c)
  PROVE  /\ attempts' \in [Attempts -> [account : Accounts \cup {0}, post : {"none", "sent", "over"},
                                        contacts : {"none", "posted", "sent", "over"}]]
         /\ \A k \in Attempts : /\ attempts'[k].account = attempts[k].account
                                /\ attempts'[k].post = attempts[k].post
                                /\ k # n => attempts'[k] = attempts[k]
         /\ attempts'[n].contacts = c
         /\ attempts[n].account \in members /\ members \subseteq Accounts
         /\ attempts[n].account # 0
         /\ n <= started /\ started \in 0..MaxAttempts
<1>1. /\ attempts \in [Attempts -> [account : Accounts \cup {0}, post : {"none", "sent", "over"},
                                    contacts : {"none", "posted", "sent", "over"}]]
      /\ attempts[n].contacts # "none" /\ members \subseteq Accounts /\ n \in Nat
      /\ started \in 0..MaxAttempts
  BY DEF SessionInv, TypeOK, ContactsMoveTo, Attempts
<1>2. attempts' = [attempts EXCEPT ![n].contacts = c]
  BY DEF ContactsMoveTo
<1>3. attempts'[n] = [attempts[n] EXCEPT !.contacts = c] /\ \A k \in Attempts \ {n} : attempts'[k] = attempts[k]
  BY <1>1, <1>2
<1>4. attempts[n].account \in members
  BY <1>1 DEF SessionInv, AttemptInv
<1>5. n <= started
  <2>1. attempts[n] # NoAttempt
    BY <1>1 DEF NoAttempt
  <2>2. ~(n > started)
    BY <2>1 DEF SessionInv, AttemptInv
  <2>3. QED
    BY <1>1, <2>2, BoundsAssumption
<1>6. 0 \notin Accounts
  BY AccountsAssumption
<1>7. /\ attempts'[n].account = attempts[n].account /\ attempts'[n].post = attempts[n].post
      /\ attempts'[n].contacts = c
      /\ attempts'[n] \in [account : Accounts \cup {0}, post : {"none", "sent", "over"},
                           contacts : {"none", "posted", "sent", "over"}]
  BY <1>1, <1>3
<1>8. attempts' \in [Attempts -> [account : Accounts \cup {0}, post : {"none", "sent", "over"},
                                 contacts : {"none", "posted", "sent", "over"}]]
  BY <1>1, <1>2, <1>7
<1>9. QED
  BY <1>1, <1>3, <1>4, <1>5, <1>6, <1>7, <1>8

(* What holds after it unless it concerns what the chat server was told.   *)
LEMMA ContactsMove ==
  ASSUME SessionInv, NEW n \in Attempts, NEW c \in {"sent", "over"}, ContactsMoveTo(n, c),
         UNCHANGED <<isLogining, started, windows, sockets, watched, video, files, running, refused, members>>,
         currentUser' \in {currentUser, attempts[n].account}, deaf' \in {deaf, TRUE}
  PROVE  AttemptInv' /\ UserInv' /\ ReleaseInv' /\ OneByOne'
<1> USE ContactsFacts DEF SessionInv, windows, sockets
<1>1. AttemptInv'
  <2>1. ASSUME NEW k \in Attempts
        PROVE  /\ attempts'[k].post # "none" => attempts'[k].account # 0
               /\ attempts'[k].contacts # "none" => attempts'[k].account \in members
               /\ k \in Elements(onConnected) => attempts'[k].account # 0
               /\ k > started => attempts'[k] = NoAttempt
    <3>1. CASE k = n
      BY <3>1, BoundsAssumption DEF Attempts
    <3>2. CASE k # n
      BY <3>2 DEF AttemptInv
    <3>3. QED
      BY <3>1, <3>2
  <2>2. QED
    BY <2>1 DEF AttemptInv
<1>2. UserInv'
  BY DEF UserInv
<1>3. ReleaseInv'
  BY DEF ReleaseInv, HandlersWait
<1>4. OneByOne'
  BY DEF OneByOne, PostAlone, SocketAlone, SignalAlone, TimerAlone
<1>5. QED
  BY <1>1, <1>2, <1>3, <1>4

LEMMA LoadContactsKeeps ==
  ASSUME SessionInv, NEW n \in Attempts, LoadContacts(n)
  PROVE  SessionInv'
<1> USE DEF SessionInv, LoadContacts, windows, sockets, users, database
<1>1. ContactsMoveTo(n, "sent")
  BY DEF ContactsMoveTo
<1>2. AttemptInv' /\ UserInv' /\ ReleaseInv' /\ OneByOne'
  BY <1>1, ContactsMove
<1>3. TypeOK'
  BY <1>1, ContactsFacts DEF TypeOK
<1>4. ToldInv'
  BY <1>1, ContactsFacts DEF ToldInv
<1>5. QED
  BY <1>2, <1>3, <1>4

LEMMA ContactsFailKeeps ==
  ASSUME SessionInv, NEW n \in Attempts, ContactsFail(n)
  PROVE  SessionInv'
<1> USE DEF SessionInv, ContactsFail, ContactsAreOver, Fault, windows, sockets, users, database
<1>1. ContactsMoveTo(n, "over")
  BY DEF ContactsMoveTo
<1>2. AttemptInv' /\ UserInv' /\ ReleaseInv' /\ OneByOne'
  BY <1>1, ContactsMove
<1>3. faults' \in 0..MaxFaults /\ deaf' \in BOOLEAN
  BY BoundsAssumption DEF TypeOK
<1>4. TypeOK'
  <2>1. /\ UNCHANGED <<started, loginShown, registering, main, showTimers, isLogining, socket, signals>>
        /\ UNCHANGED <<onConnected, onError, watched, video, opened, files, running, refused, members>>
        /\ UNCHANGED <<currentUser, filled, told>>
    OBVIOUS
  <2> HIDE DEF ContactsFail, ContactsAreOver
  <2>2. filled' \subseteq {a \in Accounts : files'[a] = "whole"}
    BY <2>1 DEF TypeOK
  <2>3. TypeOK'
    BY <1>1, <1>3, <2>1, <2>2, ContactsFacts DEF TypeOK
  <2>4. QED
    BY <2>1, <2>3
<1>5. ToldInv'
  BY DEF ToldInv
<1>6. QED
  BY <1>2, <1>4, <1>5

LEMMA ContactsLoadedKeeps ==
  ASSUME SessionInv, NEW n \in Attempts, ContactsLoaded(n)
  PROVE  SessionInv'
<1> USE DEF SessionInv, windows, sockets, users, database
<1> DEFINE a == attempts[n].account
<1>1. ContactsMoveTo(n, "over")
  BY DEF ContactsLoaded, ContactsAreOver, ContactsMoveTo
<1>2. a \in members /\ a \in Accounts
  BY <1>1, ContactsFacts
<1>3. /\ currentUser' = a 
      /\ filled' = IF files[a] = "whole" THEN filled \cup {a} ELSE filled
      /\ told' = IF socket.state = "open" THEN [account |-> a, socket |-> socket.of] ELSE told
      /\ UNCHANGED <<deaf, faults, isLogining, started, loginShown, registering, main, showTimers>>
      /\ UNCHANGED <<socket, signals, onConnected, onError, watched, video, opened, files>>
      /\ UNCHANGED <<running, refused, members>>
  BY DEF ContactsLoaded, ContactsAreOver, AccountOf, TypeOK
<1> HIDE DEF a
<1>4. AttemptInv' /\ UserInv' /\ ReleaseInv' /\ OneByOne'
  BY <1>1, <1>3, ContactsMove DEF a
<1>5. /\ told' \in [account : Accounts \cup {0}, socket : 0..MaxAttempts]
      /\ filled' \subseteq {x \in Accounts : files[x] = "whole"}
      /\ currentUser' \in Accounts
  BY <1>2, <1>3 DEF TypeOK
<1>6. TypeOK'
  BY <1>1, <1>3, <1>5, ContactsFacts DEF TypeOK
<1>7. ToldInv'
  <2>1. a \in filled' \/ files[a] = "partial"
    BY <1>2, <1>3 DEF UserInv, TypeOK
  <2>2. socket.state = "open" => told'.account = a /\ told'.socket = socket.of
    BY <1>3
  <2>3. QED
    BY <1>3, <2>1, <2>2 DEF ToldInv
<1>8. QED
  BY <1>4, <1>6, <1>7

(* The worker has ended: the main window is made for the current user.     *)
LEMMA OnContactsLoadedKeeps == ASSUME SessionInv, running, OnContactsLoaded PROVE SessionInv'
<1> USE DEF SessionInv, logins, sockets, database
<1>1. /\ UNCHANGED <<loginShown, registering, isLogining, attempts, started, socket, signals>>
      /\ UNCHANGED <<onConnected, onError, currentUser, video, opened, files, filled>>
      /\ UNCHANGED <<told, faults, refused, deaf, members>>
      /\ watched # 0 /\ watched' = 0
      /\ showTimers' = showTimers + 1 /\ showTimers \in Nat
      /\ main' = IF main.stage = "none" THEN NewMainWindow ELSE main
  BY DEF OnContactsLoaded, TypeOK
<1>2. running' \in BOOLEAN
  BY Zenon DEF OnContactsLoaded
<1>3. members # {} /\ currentUser \in members
  BY <1>1 DEF UserInv
<1>4. TypeOK'
  <2>1. main' \in [stage : {"none", "created", "shown", "deleted"}, owner : Accounts \cup {0}]
    BY <1>1 DEF TypeOK, NewMainWindow
  <2>2. watched' \in 0..MaxAttempts /\ showTimers' \in Nat
    BY <1>1, BoundsAssumption
  <2>3. QED
    BY <1>1, <1>2, <2>1, <2>2 DEF TypeOK
<1>5. AttemptInv' /\ UserInv'
  BY <1>1, <1>3 DEF AttemptInv, UserInv, NewMainWindow
<1>6. ReleaseInv' /\ ToldInv'
  BY <1>1 DEF ReleaseInv, ToldInv
<1>7. OneByOne'
  BY <1>1 DEF OneByOne, PostAlone, SocketAlone, SignalAlone, TimerAlone
<1>8. QED
  BY <1>4, <1>5, <1>6, <1>7

LEMMA ShowMainWindowKeeps == ASSUME SessionInv, ShowMainWindow PROVE SessionInv'
<1> USE DEF SessionInv, sockets, users, database
<1>1. /\ UNCHANGED <<registering, attempts, started, socket, signals, onConnected, onError>>
      /\ UNCHANGED <<watched, currentUser, video, opened, files, filled, told>>
      /\ UNCHANGED <<faults, refused, deaf, members>>
      /\ loginShown' = FALSE /\ isLogining' = FALSE
      /\ showTimers \in Nat /\ showTimers > 0 /\ showTimers' = showTimers - 1
      /\ main' = IF main.stage = "created" THEN [main EXCEPT !.stage = "shown"] ELSE main
  BY DEF ShowMainWindow, TypeOK
<1>2. running' \in BOOLEAN
  BY Zenon DEF ShowMainWindow, TypeOK
<1>3. /\ main' \in [stage : {"none", "created", "shown", "deleted"}, owner : Accounts \cup {0}]
      /\ main'.owner = main.owner /\ (main'.stage = "none" => main.stage = "none")
      /\ (main.stage = "none" => main'.stage = "none")
  BY <1>1 DEF TypeOK
<1>4. TypeOK'
  <2>1. showTimers' \in Nat
    BY <1>1
  <2>2. loginShown' \in BOOLEAN /\ isLogining' \in BOOLEAN
    BY <1>1, Zenon
  <2>3. filled' \subseteq {a \in Accounts : files'[a] = "whole"}
    BY <1>1 DEF TypeOK
  <2>4. QED
    BY <1>1, <1>2, <1>3, <2>1, <2>2, <2>3 DEF TypeOK
<1>5. AttemptInv' /\ UserInv'
  BY <1>1, <1>3 DEF AttemptInv, UserInv
<1>6. ReleaseInv' /\ ToldInv'
  BY <1>1 DEF ReleaseInv, ToldInv
<1>7. OneByOne'
  BY <1>1 DEF OneByOne, PostAlone, SocketAlone, SignalAlone, TimerAlone
<1>8. QED
  BY <1>4, <1>5, <1>6, <1>7

-----------------------------------------------------------------------------
(* Windows are opened and closed, and the program is started again.        *)

LEMMA WindowKeeps ==
  ASSUME SessionInv, running,
         OpenRegister \/ RegisterSuccess \/ CloseRegister \/ CloseLogin \/ CloseMain
  PROVE  SessionInv'
<1> USE DEF SessionInv, logins, sockets, users, database
<1>1. /\ UNCHANGED <<showTimers, isLogining, attempts, started, socket, signals, onConnected, onError>>
      /\ UNCHANGED <<watched, currentUser, video, opened, files, filled, told>>
      /\ UNCHANGED <<faults, refused, deaf, members>>
      /\ main' = main \/ (main.stage = "shown" /\ main' = [main EXCEPT !.stage = "deleted"])
  BY DEF OpenRegister, RegisterSuccess, CloseRegister, CloseLogin, CloseMain
<1>2. running' \in BOOLEAN /\ loginShown' \in BOOLEAN /\ registering' \in BOOLEAN
  <2>1. CASE OpenRegister \/ RegisterSuccess
    BY <2>1, Zenon DEF OpenRegister, RegisterSuccess, TypeOK
  <2>2. CASE CloseRegister
    BY <2>2, Zenon DEF CloseRegister, LastWindowCloses, TypeOK
  <2>3. CASE CloseLogin
    BY <2>3, Zenon DEF CloseLogin, LastWindowCloses, TypeOK
  <2>4. CASE CloseMain
    BY <2>4, Zenon DEF CloseMain, LastWindowCloses, TypeOK
  <2>5. QED
    BY <2>1, <2>2, <2>3, <2>4
<1>3. /\ main' \in [stage : {"none", "created", "shown", "deleted"}, owner : Accounts \cup {0}]
      /\ main'.owner = main.owner /\ (main'.stage = "none" <=> main.stage = "none")
  BY <1>1 DEF TypeOK
<1>4. TypeOK'
  BY <1>1, <1>2, <1>3 DEF TypeOK
<1>5. AttemptInv' /\ UserInv'
  BY <1>1, <1>3 DEF AttemptInv, UserInv
<1>6. ReleaseInv' /\ ToldInv'
  BY <1>1 DEF ReleaseInv, HandlersWait, ToldInv
<1>7. OneByOne'
  BY <1>1 DEF OneByOne, PostAlone, SocketAlone, SignalAlone, TimerAlone
<1>8. QED
  BY <1>4, <1>5, <1>6, <1>7

LEMMA RestartKeeps == ASSUME SessionInv, Restart PROVE SessionInv'
<1> USE DEF SessionInv, NoAttempt, NoWindow, NoSocket
<1>1. UNCHANGED <<started, files, filled, faults>> /\ Started
  BY DEF Restart
<1> USE DEF Started
<1>2. TypeOK'
  <2>1. /\ loginShown' \in BOOLEAN /\ registering' \in BOOLEAN /\ isLogining' \in BOOLEAN
        /\ running' \in BOOLEAN /\ refused' \in BOOLEAN /\ deaf' \in BOOLEAN
    BY <1>1
  <2>2. /\ main' \in [stage : {"none", "created", "shown", "deleted"}, owner : Accounts \cup {0}]
        /\ attempts' \in [Attempts -> [account : Accounts \cup {0}, post : {"none", "sent", "over"},
                                       contacts : {"none", "posted", "sent", "over"}]]
        /\ told' \in [account : Accounts \cup {0}, socket : 0..MaxAttempts]
        /\ socket' \in [of : 0..MaxAttempts, state : {"closed", "opening", "open"}]
    BY <1>1, BoundsAssumption
  <2>3. /\ showTimers' \in Nat /\ watched' \in 0..MaxAttempts
        /\ signals' \in Seq({"connected", "error"})
        /\ onConnected' \in Seq(Attempts) /\ onError' \subseteq Attempts
    BY <1>1, BoundsAssumption
  <2>4. /\ currentUser' \in Accounts \cup {0} /\ video' \in Accounts \cup {0}
        /\ opened' \subseteq Accounts /\ members' \subseteq Accounts
    BY <1>1
  <2>5. QED
    BY <1>1, <2>1, <2>2, <2>3, <2>4 DEF TypeOK
<1>3. Elements(onConnected') = {}
  BY <1>1 DEF Elements
<1>4. AttemptInv' /\ UserInv'
  BY <1>1, <1>3, FS_EmptySet DEF AttemptInv, UserInv
<1>5. ReleaseInv' /\ ToldInv'
  BY <1>1 DEF ReleaseInv, ToldInv
<1>6. OneByOne'
  BY <1>1 DEF OneByOne, PostAlone, SocketAlone, SignalAlone, TimerAlone
<1>7. QED
  BY <1>2, <1>4, <1>5, <1>6

(* Whatever logins fail, change the account or overlap, and however the    *)
(* windows are closed and the program is started again.                    *)
THEOREM SessionInductive == Spec => []SessionInv
<1>1. ASSUME SessionInv, [Next]_vars PROVE SessionInv'
  <2>1. CASE Next
    <3>1. CASE Restart
      BY <1>1, <3>1, RestartKeeps
    <3>2. CASE running /\ ReplyStep
      BY <1>1, <3>2, LoginAnswerKeeps, LoginAcceptedKeeps, LoadContactsKeeps, ContactsFailKeeps,
         ContactsLoadedKeeps DEF ReplyStep
    <3>3. CASE running /\ EventStep
      BY <1>1, <3>3, SocketOpensKeeps, SocketFailsKeeps, OnWssConnectedKeeps, OnWssErrorKeeps,
         OnContactsLoadedKeeps, ShowMainWindowKeeps DEF EventStep
    <3>4. CASE running /\ UserStep
      BY <1>1, <3>4, DoLoginKeeps, WindowKeeps DEF UserStep
    <3>5. QED
      BY <2>1, <3>1, <3>2, <3>3, <3>4 DEF Next
  <2>2. CASE UNCHANGED vars
    <3> USE <1>1, <2>2 DEF vars, windows, logins, sockets, users, database, SessionInv
    <3>1. TypeOK' /\ AttemptInv' /\ UserInv'
      BY DEF TypeOK, AttemptInv, UserInv
    <3>2. ReleaseInv' /\ OneByOne' /\ ToldInv'
      BY DEF ReleaseInv, HandlersWait, OneByOne, PostAlone, SocketAlone, SignalAlone, TimerAlone,
             ToldInv
    <3>3. QED
      BY <3>1, <3>2
  <2>3. QED
    BY <1>1, <2>1, <2>2
<1>2. QED
  BY <1>1, SessionInit, PTL DEF Spec

(* However logins of Login.cpp fail, overlap and change the account: the   *)
(* login window is dead only if the latest login was refused; when no      *)
(* contacts are under way and neither they nor an open socket were lost,   *)
(* the chat server was told of the current user, whose tables are filled   *)
(* unless their copy was cut; with one account the lists of the main       *)
(* window and the call service are his too.  With a changed account these  *)
(* two may stay with the first one, in the code as in the model.           *)
THEOREM AccountsStayApart == Spec => []AccountsAreApart
<1>1. SessionInv => TypeOK
  BY DEF SessionInv
<1>2. SessionInv => LoginIsReleased
  BY DEF SessionInv, ReleaseInv, HandlersWait, LoginIsReleased, WayOut
<1>3. SessionInv => OneIdentity
  <2>1. SUFFICES ASSUME SessionInv, main.stage = "shown", Cardinality(members) = 1
                 PROVE  members = {currentUser} /\ main.owner = currentUser /\ video = currentUser
    BY DEF OneIdentity
  <2>2. PICK a : members = {a}
    BY <2>1, FS_Singleton DEF SessionInv, UserInv
  <2>3. a = currentUser /\ a = video /\ main.owner = a
    BY <2>1, <2>2 DEF SessionInv, UserInv
  <2>4. QED
    BY <2>2, <2>3
<1>4. SessionInv => UserIsTold
  <2>1. SUFFICES ASSUME SessionInv, ~deaf, socket.state = "open", signals = <<>>,
                        \A n \in Attempts : attempts[n].contacts \notin {"posted", "sent"}
                 PROVE  /\ told = [account |-> currentUser, socket |-> socket.of]
                        /\ currentUser \in filled \/ files[currentUser] = "partial"
    BY DEF UserIsTold
  <2>2. told.account = currentUser /\ told.socket = socket.of
        /\ (currentUser \in filled \/ files[currentUser] = "partial")
    BY <2>1 DEF SessionInv, ToldInv
  <2>3. told = [account |-> told.account, socket |-> told.socket]
    BY <2>1 DEF SessionInv, TypeOK
  <2>4. QED
    BY <2>2, <2>3
<1>5. QED
  BY <1>1, <1>2, <1>3, <1>4, SessionInductive, PTL DEF AccountsAreApart

-----------------------------------------------------------------------------
(* The registration form.                                                  *)

USE DraftsAssumption, RequestsAssumption

Fields   == Drafts \cup {0}
Requests == [draft : Fields, picture : 0..MaxUploads]

(* RegistrationTypeOK in parts.                                              *)
FlagTypes ==
  /\ open \in BOOLEAN /\ closing \in BOOLEAN /\ getCodeButton \in BOOLEAN
  /\ codeRequest \in BOOLEAN /\ countdown \in BOOLEAN /\ isRegistering \in BOOLEAN
  /\ edited \in BOOLEAN /\ crossed \in BOOLEAN

CountTypes ==
  /\ codes \in 0..MaxCodes /\ requests \in 0..MaxRequests
  /\ chosen \in 0..MaxUploads /\ avatarUrl \in 0..MaxUploads

DataTypes ==
  /\ draft \in Fields /\ request \in Requests /\ registered \subseteq Drafts
  /\ reports \in Seq(Fields) /\ reported \in Seq(Fields)

UploadTypes == uploads \in [Uploads -> {"none", "sent", "failed", "done"}]

TypeInv == FlagTypes /\ CountTypes /\ DataTypes /\ UploadTypes

(* Until the form is edited under a registration, what is registered, about  *)
(* to be reported and reported is the form.                                  *)
ReportInv ==
  /\ open => reported = <<>>
  /\ Len(reported) <= 1
  /\ ~edited =>
       /\ request # NoRequest => request.draft = draft
       /\ \A i \in 1..Len(reports) : reports[i] \in registered
       /\ \A i \in 1..Len(reported) : reported[i] \in registered

(* A form that the checks turn down is not sent.                             *)
SentInv == request # NoRequest => request.draft # 0

(* Uploads are numbered as they are chosen; unless two crossed, the one      *)
(* under way is the last.                                                    *)
UploadInv ==
  /\ \A u \in Uploads : uploads[u] # "none" => u <= chosen
  /\ ~crossed => \A u \in Uploads : uploads[u] = "sent" => u = chosen

FormInv == TypeInv /\ SentInv /\ ButtonsComeBack /\ ReportInv /\ UploadInv /\ PictureIsLatest

-----------------------------------------------------------------------------
LEMMA NoRequestType == NoRequest \in Requests /\ NoRequest.draft = 0
  BY DEF NoRequest, Requests, Fields

LEMMA FormInitEstablishes == RegistrationInit => FormInv
<1> SUFFICES ASSUME RegistrationInit PROVE FormInv
  OBVIOUS
<1> USE DEF RegistrationInit
<1>1. FlagTypes /\ CountTypes
  <2>1. FlagTypes
    BY DEF FlagTypes
  <2>2. CountTypes
    BY DEF CountTypes
  <2>3. QED
    BY <2>1, <2>2
<1>2. reports \in Seq(Fields) /\ reported \in Seq(Fields) /\ Len(reports) = 0 /\ Len(reported) = 0
  OBVIOUS
<1>3. DataTypes
  BY <1>2, NoRequestType DEF DataTypes, Fields
<1>4. UploadTypes
  BY DEF UploadTypes
<1>5. SentInv /\ ButtonsComeBack /\ ReportInv
  BY <1>2 DEF SentInv, ButtonsComeBack, ReportInv
<1>6. UploadInv /\ PictureIsLatest
  BY DEF UploadInv, PictureIsLatest
<1>7. QED
  BY <1>1, <1>3, <1>4, <1>5, <1>6 DEF FormInv, TypeInv

(* Whatever is done to the form changes no button, report or upload.         *)
LEMMA EditKeeps == ASSUME FormInv, NEW d \in Drafts \cup {0}, Edit(d) PROVE FormInv'
<1> USE DEF FormInv, Edit, codeVars, formVars, avatarVars
<1>1. TypeInv'
  BY DEF TypeInv, FlagTypes, CountTypes, DataTypes, UploadTypes, Fields
<1>2. SentInv' /\ ButtonsComeBack'
  BY DEF SentInv, ButtonsComeBack
<1>3. ReportInv'
  BY DEF ReportInv
<1>4. UploadInv' /\ PictureIsLatest'
  BY DEF UploadInv, PictureIsLatest
<1>5. QED
  BY <1>1, <1>2, <1>3, <1>4

(* A window that is closed keeps its history only.                           *)
LEMMA ClosedKeeps ==
  ASSUME FormInv, Closed,
         UNCHANGED <<draft, getCodeButton, codes, requests, registered, chosen, avatarUrl, edited, crossed>>,
         reported' \in Seq(Fields), Len(reported') <= 1,
         ~edited => \A i \in 1..Len(reported') : reported'[i] \in registered
  PROVE  FormInv'
<1> USE DEF FormInv, Closed
<1>1. /\ request' \in Requests /\ reports' \in Seq(Fields) /\ Len(reports') = 0
      /\ \A u \in Uploads : uploads'[u] = "none"
  BY NoRequestType
<1>2. FlagTypes' /\ CountTypes'
  BY DEF TypeInv, FlagTypes, CountTypes
<1>3. DataTypes' /\ UploadTypes'
  BY <1>1 DEF TypeInv, DataTypes, UploadTypes
<1>4. SentInv' /\ ButtonsComeBack'
  BY DEF SentInv, ButtonsComeBack
<1>5. ReportInv'
  BY <1>1 DEF ReportInv
<1>6. UploadInv' /\ PictureIsLatest'
  BY <1>1 DEF UploadInv, PictureIsLatest
<1>7. QED
  BY <1>2, <1>3, <1>4, <1>5, <1>6 DEF TypeInv

LEMMA FormKeeps == ASSUME FormInv, open, FormStep PROVE FormInv'
<1>1. CASE \E d \in Drafts \cup {0} : Edit(d)
  BY <1>1, EditKeeps
<1>2. CASE CloseButton
  BY <1>2 DEF CloseButton, codeVars, formVars, avatarVars, FormInv, TypeInv, FlagTypes, CountTypes,
              DataTypes, UploadTypes, SentInv, ButtonsComeBack, ReportInv, UploadInv, PictureIsLatest
<1>3. CASE CloseTimer
  <2>1. /\ reported' = reported /\ reported \in Seq(Fields) /\ Len(reported) <= 1
        /\ ~edited => \A i \in 1..Len(reported) : reported[i] \in registered
    BY <1>3 DEF CloseTimer, FormInv, TypeInv, DataTypes, ReportInv
  <2>2. QED
    BY <1>3, <2>1, ClosedKeeps DEF CloseTimer
<1>4. QED
  BY <1>1, <1>2, <1>3 DEF FormStep

LEMMA CodeKeeps == ASSUME FormInv, CodeStep PROVE FormInv'
<1> USE DEF FormInv, CodeStep, RequestVerificationCode, CodeFails, CodeSent, CountdownEnds, formVars, avatarVars
<1>1. TypeInv'
  <2>1. FlagTypes'
    BY DEF TypeInv, FlagTypes
  <2>2. CountTypes'
    BY DEF TypeInv, CountTypes
  <2>3. DataTypes' /\ UploadTypes'
    BY DEF TypeInv, DataTypes, UploadTypes
  <2>4. QED
    BY <2>1, <2>2, <2>3 DEF TypeInv
<1>2. SentInv' /\ ButtonsComeBack'
  BY DEF SentInv, ButtonsComeBack, TypeInv, FlagTypes
<1>3. ReportInv' /\ UploadInv' /\ PictureIsLatest'
  BY DEF ReportInv, UploadInv, PictureIsLatest
<1>4. QED
  BY <1>1, <1>2, <1>3

LEMMA AvatarKeeps == ASSUME FormInv, open, AvatarStep PROVE FormInv'
<1> USE DEF FormInv, codeVars, formVars
<1>1. CASE UploadAvatar
  <2> USE <1>1 DEF UploadAvatar
  <2>1. chosen' \in Uploads /\ chosen' = chosen + 1 /\ chosen \in Nat
    BY DEF TypeInv, CountTypes, Uploads
  <2>2. /\ uploads'[chosen'] = "sent"
        /\ \A u \in Uploads : u # chosen' => uploads'[u] = uploads[u]
        /\ UploadTypes'
    BY <2>1 DEF TypeInv, UploadTypes
  <2>3. FlagTypes' /\ CountTypes' /\ DataTypes'
    BY <2>1 DEF TypeInv, FlagTypes, CountTypes, DataTypes, Uploads
  <2>4. UploadInv'
    <3>1. \A u \in Uploads : uploads'[u] # "none" => u <= chosen'
      BY <2>1, <2>2 DEF UploadInv, Uploads
    <3>2. ~crossed' => \A u \in Uploads : uploads'[u] = "sent" => u = chosen'
      BY <2>1, <2>2
    <3>3. QED
      BY <3>1, <3>2 DEF UploadInv
  <2>5. PictureIsLatest'
    BY <2>1, <2>2 DEF PictureIsLatest, TypeInv, FlagTypes
  <2>6. SentInv' /\ ButtonsComeBack' /\ ReportInv'
    BY DEF SentInv, ButtonsComeBack, ReportInv
  <2>7. QED
    BY <2>2, <2>3, <2>4, <2>5, <2>6 DEF TypeInv
<1>2. CASE \E u \in Uploads : UploadFails(u) \/ Uploaded(u)
  <2>1. PICK u \in Uploads : UploadFails(u) \/ Uploaded(u)
    BY <1>2
  <2>2. /\ uploads[u] = "sent" /\ uploads'[u] \in {"failed", "done"}
        /\ \A v \in Uploads : v # u => uploads'[v] = uploads[v]
        /\ avatarUrl' \in {avatarUrl, u}
        /\ uploads'[u] = "done" => avatarUrl' = u
        /\ uploads'[u] = "failed" => avatarUrl' = avatarUrl
        /\ UploadTypes'
    BY <2>1 DEF UploadFails, Uploaded, TypeInv, UploadTypes
  <2>3. UNCHANGED <<open, closing, draft, codeVars, formVars, chosen, crossed, edited>>
    BY <2>1 DEF UploadFails, Uploaded
  <2>4. FlagTypes' /\ DataTypes'
    BY <2>3 DEF TypeInv, FlagTypes, DataTypes
  <2>5. CountTypes'
    BY <2>2, <2>3 DEF TypeInv, CountTypes, Uploads
  <2>6. UploadInv'
    BY <2>2, <2>3 DEF UploadInv
  <2>7. PictureIsLatest'
    <3> SUFFICES ASSUME open', ~crossed', NEW v \in Uploads, uploads'[v] = "done"
                 PROVE  v <= avatarUrl'
      BY DEF PictureIsLatest
    <3>1. u = chosen /\ u \in Nat /\ v \in Nat
      BY <2>2, <2>3 DEF UploadInv, Uploads
    <3>2. CASE v = u
      BY <2>2, <3>1, <3>2
    <3>3. CASE v # u
      <4>1. uploads[v] = "done" /\ v <= chosen /\ v <= avatarUrl
        BY <2>2, <2>3, <3>3 DEF UploadInv, PictureIsLatest
      <4>2. QED
        BY <2>2, <3>1, <4>1
    <3>4. QED
      BY <3>2, <3>3
  <2>8. SentInv' /\ ButtonsComeBack' /\ ReportInv'
    BY <2>3 DEF SentInv, ButtonsComeBack, ReportInv
  <2>9. QED
    BY <2>2, <2>4, <2>5, <2>6, <2>7, <2>8 DEF TypeInv
<1>3. QED
  BY <1>1, <1>2 DEF AvatarStep

LEMMA RegisterKeeps == ASSUME FormInv, open, RegisterStep PROVE FormInv'
<1>1. CASE DoRegister
  <2> USE <1>1 DEF FormInv, DoRegister, codeVars, avatarVars
  <2>1. request' \in Requests /\ request'.draft = draft /\ request' # NoRequest
    BY NoRequestType DEF TypeInv, DataTypes, CountTypes, Requests
  <2>2. TypeInv'
    BY <2>1 DEF TypeInv, FlagTypes, CountTypes, DataTypes, UploadTypes
  <2>3. SentInv' /\ ButtonsComeBack' /\ ReportInv'
    BY <2>1 DEF SentInv, ButtonsComeBack, ReportInv
  <2>4. UploadInv' /\ PictureIsLatest'
    BY DEF UploadInv, PictureIsLatest
  <2>5. QED
    BY <2>2, <2>3, <2>4
<1>2. CASE RegisterFails
  <2> USE <1>2 DEF FormInv, RegisterFails, codeVars, avatarVars
  <2>1. TypeInv'
    BY NoRequestType DEF TypeInv, FlagTypes, CountTypes, DataTypes, UploadTypes
  <2>2. SentInv' /\ ButtonsComeBack' /\ ReportInv'
    BY DEF SentInv, ButtonsComeBack, ReportInv
  <2>3. UploadInv' /\ PictureIsLatest'
    BY DEF UploadInv, PictureIsLatest
  <2>4. QED
    BY <2>1, <2>2, <2>3
<1>3. CASE RegisterSucceeds
  <2> USE <1>3 DEF RegisterSucceeds, codeVars, avatarVars
  <2>1. /\ reports \in Seq(Fields) /\ draft \in Fields /\ request \in Requests
        /\ request # NoRequest /\ registered \subseteq Drafts /\ reported \in Seq(Fields)
    BY DEF FormInv, TypeInv, DataTypes
  <2>2. /\ reports' \in Seq(Fields) /\ Len(reports') = Len(reports) + 1
        /\ \A i \in 1..Len(reports) : reports'[i] = reports[i]
        /\ reports'[Len(reports) + 1] = draft
    BY <2>1
  <2>3. request.draft \in Fields
    BY <2>1 DEF Requests
  <2>4. request.draft # 0
    BY DEF FormInv, SentInv
  <2>5. FlagTypes' /\ CountTypes' /\ UploadTypes'
    BY DEF FormInv, TypeInv, FlagTypes, CountTypes, UploadTypes
  <2>6. DataTypes'
    BY <2>1, <2>2, <2>3, <2>4, NoRequestType DEF DataTypes, Fields
  <2>7. SentInv' /\ ButtonsComeBack' /\ UploadInv' /\ PictureIsLatest'
    BY DEF FormInv, SentInv, ButtonsComeBack, UploadInv, PictureIsLatest
  <2>8. ReportInv'
    <3>1. \A i \in 1..Len(reports') : i \in 1..Len(reports) \/ i = Len(reports) + 1
      BY <2>1, <2>2
    <3>2. ~edited => draft \in registered'
      BY DEF FormInv, ReportInv
    <3>3. ~edited => \A i \in 1..Len(reports') : reports'[i] \in registered'
      BY <2>2, <3>1, <3>2 DEF FormInv, ReportInv
    <3>4. QED
      BY <3>3 DEF FormInv, ReportInv
  <2>9. QED
    BY <2>5, <2>6, <2>7, <2>8 DEF FormInv, TypeInv
<1>4. CASE ReportTimer
  <2>1. /\ reports \in Seq(Fields) /\ reports # <<>> /\ reported = <<>>
        /\ reported' = Append(reported, Head(reports))
    BY <1>4 DEF ReportTimer, FormInv, TypeInv, DataTypes, ReportInv
  <2>2. 1 \in 1..Len(reports) /\ Head(reports) = reports[1] /\ Head(reports) \in Fields
    BY <2>1
  <2>3. reported' \in Seq(Fields) /\ Len(reported') = 1 /\ reported'[1] = reports[1]
    BY <2>1, <2>2
  <2>4. ~edited => \A i \in 1..Len(reported') : reported'[i] \in registered
    BY <2>2, <2>3 DEF FormInv, ReportInv
  <2>5. QED
    BY <1>4, <2>3, <2>4, ClosedKeeps DEF ReportTimer
<1>5. QED
  BY <1>1, <1>2, <1>3, <1>4 DEF RegisterStep

(* The invariant holds throughout.                                           *)
THEOREM FormInductive == RegistrationSpec => []FormInv
<1>1. FormInv /\ [RegistrationNext]_registrationVars => FormInv'
  <2> SUFFICES ASSUME FormInv, [RegistrationNext]_registrationVars PROVE FormInv'
    OBVIOUS
  <2>1. CASE RegistrationNext
    BY <2>1, FormKeeps, CodeKeeps, AvatarKeeps, RegisterKeeps DEF RegistrationNext
  <2>2. CASE UNCHANGED registrationVars
    BY <2>2 DEF registrationVars, codeVars, formVars, avatarVars, FormInv, TypeInv, FlagTypes,
                CountTypes, DataTypes, UploadTypes, SentInv, ButtonsComeBack, ReportInv, UploadInv, PictureIsLatest
  <2>3. QED
    BY <2>1, <2>2
<1>2. QED
  BY FormInitEstablishes, <1>1, PTL DEF RegistrationSpec

(* However often codes, pictures and accounts are asked for, whatever fails  *)
(* and in whatever order the replies come: no button stays off, one report   *)
(* is made, of an account the server has, and the picture is the latest.     *)
THEOREM FormStaysSound == RegistrationSpec => []FormIsSound
<1>1. FormInv => RegistrationTypeOK
  BY DEF FormInv, TypeInv, FlagTypes, CountTypes, DataTypes, UploadTypes, Fields, Requests, RegistrationTypeOK
<1>2. FormInv => ReportedIsRegistered /\ ReportsOnce
  BY DEF FormInv, TypeInv, DataTypes, ReportInv, ReportedIsRegistered, ReportsOnce
<1>3. FormInv => FormIsSound
  BY <1>1, <1>2 DEF FormInv, FormIsSound
<1>4. QED
  BY <1>3, FormInductive, PTL

-----------------------------------------------------------------------------
(* The window of short messages.                                           *)

USE NotificationsAssumption

Kinds == {"target", "screen"}
TimerType == [for : Purposes, of : 1..Len(notices), left : 0..ScreenStay]

(* The timers that end what is shown.                                        *)
Ends == {t \in timers : t.for \in {"stay", "away"}}

(* Only messages on the screen have a timer of three seconds.                *)
ScreenTimers == \A t \in timers : t.for = "screenStay" => notices[t.of] = "screen"

(* While one message is shown it has one timer, and no other has any.        *)
OneEnd ==
  /\ \A t, u \in Ends : t = u
  /\ \A t \in Ends : t.of = current
  /\ isShowing <=> Ends # {}

(* When nobody waits any more, what is shown is in sight with its own text.  *)
InSight ==
  (\A t \in timers : t.for # "again") /\ (\E t \in timers : t.for = "stay")
    => inSight /\ text = current

NoticeInv ==
  /\ NotificationsTypeOK
  /\ ScreenTimers
  /\ InWindows => OneEnd /\ InSight

-----------------------------------------------------------------------------
LEMMA NoticesInitEstablishes == NotificationsInit => NoticeInv
<1> SUFFICES ASSUME NotificationsInit PROVE NoticeInv
  OBVIOUS
<1>1. notices \in Seq(Kinds) /\ Len(notices) = 0 /\ Len(notices) <= MaxNotices
  BY DEF NotificationsInit
<1>2. NotificationsTypeOK
  <2>1. isShowing \in BOOLEAN /\ inSight \in BOOLEAN /\ timers = {}
    BY DEF NotificationsInit
  <2>2. {text, current} \cup begun \subseteq 0..Len(notices)
    BY <1>1 DEF NotificationsInit
  <2>3. QED
    BY <1>1, <2>1, <2>2 DEF NotificationsTypeOK, Kinds
<1>3. ScreenTimers /\ OneEnd /\ InSight
  BY DEF NotificationsInit, ScreenTimers, OneEnd, InSight, Ends
<1>4. QED
  BY <1>2, <1>3 DEF NoticeInv

(* A message that is shown or waits, whatever timer called: `rest` has lost  *)
(* at most a retry.                                                          *)
LEMMA ShowMessageKeeps ==
  ASSUME NoticeInv, NEW n \in Nat, NEW kind \in Kinds, NEW rest \in SUBSET timers,
         \A t \in timers \ rest : t.for = "again",
         notices' \in Seq(Kinds), Len(notices') <= MaxNotices,
         Len(notices) <= Len(notices'), n \in 1..Len(notices'), notices'[n] = kind,
         \A i \in 1..Len(notices) : notices'[i] = notices[i],
         ShowMessage(n, kind, rest)
  PROVE  NoticeInv'
<1>0. /\ notices \in Seq(Kinds)
      /\ {text, current} \cup begun \subseteq 0..Len(notices)
      /\ timers \subseteq TimerType
      /\ isShowing \in BOOLEAN /\ inSight \in BOOLEAN
  BY DEF NoticeInv, NotificationsTypeOK, TimerType, Kinds
<1>1. 0..Len(notices) \subseteq 0..Len(notices') /\ 1..Len(notices) \subseteq 1..Len(notices')
  BY <1>0
<1>2. InWindows' => InWindows /\ kind = "target"
  BY <1>0, <1>1 DEF InWindows
<1>3. \A t \in timers : t.for \in Purposes /\ t.of \in 1..Len(notices) /\ t.left \in 0..ScreenStay
  BY <1>0 DEF TimerType
<1>4. CASE Waits(n, kind, rest)
  <2>1. timers' = rest \cup {[for |-> "again", of |-> n, left |-> Again]}
    BY <1>4 DEF Waits, Timer
  <2>2. timers' \subseteq TimerType'
    BY <1>0, <1>1, <1>3, <2>1 DEF TimerType, Purposes, Again, ScreenStay
  <2>3. NotificationsTypeOK'
    <3>1. /\ isShowing' \in BOOLEAN /\ inSight' \in BOOLEAN
          /\ text' = n /\ current' = current /\ begun' = begun
      BY <1>4 DEF Waits
    <3>2. {text', current'} \cup begun' \subseteq 0..Len(notices')
      BY <1>0, <1>1, <3>1
    <3>3. QED
      BY <2>2, <3>1, <3>2 DEF NotificationsTypeOK, TimerType, Kinds
  <2>4. ScreenTimers'
    BY <1>0, <1>3, <2>1 DEF ScreenTimers, NoticeInv
  <2>5. Ends' = Ends
    BY <2>1 DEF Ends
  <2>6. InWindows' => OneEnd'
    BY <1>2, <1>4, <2>5 DEF OneEnd, Waits, NoticeInv
  <2>7. InSight'
    BY <2>1 DEF InSight
  <2>8. QED
    BY <2>3, <2>4, <2>6, <2>7 DEF NoticeInv
<1>5. CASE Shows(n, kind, rest)
  <2> DEFINE last == IF kind = "target" THEN [for |-> "stay", of |-> n, left |-> Stay]
                     ELSE [for |-> "screenStay", of |-> n, left |-> ScreenStay]
  <2>1. timers' = rest \cup {last}
    BY <1>5 DEF Shows, Timer
  <2>2. last \in TimerType' /\ timers' \subseteq TimerType'
    BY <1>0, <1>1, <1>3, <2>1 DEF TimerType, Purposes, Stay, ScreenStay
  <2>3. NotificationsTypeOK'
    BY <1>0, <1>1, <1>5, <2>2 DEF Shows, NotificationsTypeOK, TimerType, Kinds
  <2>4. ScreenTimers'
    BY <1>0, <1>3, <2>1 DEF ScreenTimers, NoticeInv, Kinds
  <2>5. InWindows' => OneEnd' /\ InSight'
    <3> SUFFICES ASSUME InWindows' PROVE OneEnd' /\ InSight'
      OBVIOUS
    <3>1. Ends = {} /\ kind = "target"
      BY <1>2, <1>5 DEF Shows, OneEnd, NoticeInv
    <3>2. Ends' = {last} /\ last.of = n
      BY <2>1, <3>1 DEF Ends
    <3>3. QED
      BY <1>5, <3>2 DEF Shows, OneEnd, InSight
  <2>6. QED
    BY <2>3, <2>4, <2>5 DEF NoticeInv
<1>6. QED
  BY <1>4, <1>5 DEF ShowMessage

LEMMA AskKeeps == ASSUME NoticeInv, NEW kind \in Kinds, Ask(kind) PROVE NoticeInv'
<1>1. notices \in Seq(Kinds) /\ notices' = Append(notices, kind)
  BY DEF NoticeInv, NotificationsTypeOK, Kinds, Ask
<1>2. /\ notices' \in Seq(Kinds) /\ Len(notices') = Len(notices) + 1
      /\ notices'[Len(notices) + 1] = kind
      /\ \A i \in 1..Len(notices) : notices'[i] = notices[i]
  BY <1>1
<1>3. Len(notices') <= MaxNotices /\ Len(notices) + 1 \in 1..Len(notices') /\ Len(notices) \in Nat
  BY <1>1, <1>2 DEF Ask
<1>4. QED
  BY <1>2, <1>3, ShowMessageKeeps DEF Ask

LEMMA RetryKeeps == ASSUME NoticeInv, Retry PROVE NoticeInv'
<1>1. PICK t \in Due("again") :
         ShowMessage(t.of, notices[t.of], timers \ {t}) /\ UNCHANGED notices
  BY DEF Retry
<1>2. t \in timers /\ t.for = "again"
  BY DEF Due, Pending
<1>3. /\ notices \in Seq(Kinds) /\ Len(notices) <= MaxNotices
      /\ t.of \in 1..Len(notices)
  BY <1>2 DEF NoticeInv, NotificationsTypeOK, Kinds
<1>4. notices[t.of] \in Kinds /\ t.of \in Nat
  BY <1>3
<1>5. QED
  BY <1>1, <1>2, <1>3, <1>4, ShowMessageKeeps

LEMMA SlidesAwayKeeps == ASSUME NoticeInv, SlidesAway PROVE NoticeInv'
<1>1. PICK t \in Due("stay") :
         /\ inSight' = FALSE
         /\ timers' = (timers \ {t}) \cup {[for |-> "away", of |-> t.of, left |-> SlideAway]}
         /\ UNCHANGED <<notices, isShowing, text, current, begun>>
  BY DEF SlidesAway, Timer
<1>2. t \in timers /\ t.for = "stay" /\ t \in Ends
  BY DEF Due, Pending, Ends
<1>3. timers \subseteq TimerType /\ t \in TimerType
  BY <1>2 DEF NoticeInv, NotificationsTypeOK, TimerType
<1>4. timers' \subseteq TimerType'
  BY <1>1, <1>3 DEF TimerType, Purposes, SlideAway, ScreenStay
<1>5. NotificationsTypeOK'
  BY <1>1, <1>4 DEF NoticeInv, NotificationsTypeOK, TimerType
<1>6. ScreenTimers'
  BY <1>1 DEF NoticeInv, ScreenTimers
<1>7. InWindows' => OneEnd' /\ InSight'
  <2> SUFFICES ASSUME InWindows' PROVE OneEnd' /\ InSight'
    OBVIOUS
  <2>1. InWindows
    BY <1>1 DEF InWindows
  <2>2. Ends = {t} /\ t.of = current /\ isShowing
    BY <1>2, <2>1 DEF NoticeInv, OneEnd
  <2>3. Ends' = {[for |-> "away", of |-> current, left |-> SlideAway]}
    BY <1>1, <1>2, <2>2 DEF Ends
  <2>4. \A u \in timers' : u.for # "stay"
    BY <1>1, <2>2 DEF Ends
  <2>5. QED
    BY <1>1, <2>2, <2>3, <2>4 DEF OneEnd, InSight
<1>8. QED
  BY <1>5, <1>6, <1>7 DEF NoticeInv

LEMMA HidesKeeps == ASSUME NoticeInv, Hides PROVE NoticeInv'
<1>1. PICK t \in Due("away") \cup Due("screenStay") :
         /\ isShowing' = FALSE /\ inSight' = FALSE /\ timers' = timers \ {t}
         /\ UNCHANGED <<notices, text, current, begun>>
  BY DEF Hides
<1>2. t \in timers /\ t.for \in {"away", "screenStay"}
  BY DEF Due, Pending
<1>3. NotificationsTypeOK'
  BY <1>1 DEF NoticeInv, NotificationsTypeOK
<1>4. ScreenTimers'
  BY <1>1 DEF NoticeInv, ScreenTimers
<1>5. InWindows' => OneEnd' /\ InSight'
  <2> SUFFICES ASSUME InWindows' PROVE OneEnd' /\ InSight'
    OBVIOUS
  <2>1. InWindows
    BY <1>1 DEF InWindows
  <2>2. notices[t.of] = "target"
    BY <1>2, <2>1 DEF InWindows, NoticeInv, NotificationsTypeOK
  <2>3. t.for = "away" /\ t \in Ends
    BY <1>2, <2>2 DEF NoticeInv, ScreenTimers, Ends
  <2>4. Ends' = {}
    BY <1>1, <2>1, <2>3 DEF NoticeInv, OneEnd, Ends
  <2>5. QED
    BY <1>1, <2>4 DEF OneEnd, InSight, Ends
<1>6. QED
  BY <1>3, <1>4, <1>5 DEF NoticeInv

LEMMA TimePassesKeeps == ASSUME NoticeInv, TimePasses PROVE NoticeInv'
<1> DEFINE older(t) == [t EXCEPT !.left = @ - 1]
<1>1. /\ \A t \in timers : t.left > 0
      /\ timers' = {older(t) : t \in timers}
      /\ UNCHANGED <<notices, isShowing, text, inSight, current, begun>>
  BY DEF TimePasses
<1>2. timers \subseteq TimerType
  BY DEF NoticeInv, NotificationsTypeOK, TimerType
<1>3. \A t \in timers : older(t).for = t.for /\ older(t).of = t.of /\ older(t) \in TimerType
  <2> SUFFICES ASSUME NEW t \in timers
               PROVE  older(t).for = t.for /\ older(t).of = t.of /\ older(t) \in TimerType
    OBVIOUS
  <2>1. t \in TimerType /\ t.left - 1 \in 0..ScreenStay
    BY <1>1, <1>2 DEF TimerType, ScreenStay
  <2>2. QED
    BY <2>1 DEF TimerType
<1>9. /\ \A t \in timers : older(t) \in timers'
      /\ \A u \in timers' : \E t \in timers : u = older(t)
  BY <1>1
<1>4. NotificationsTypeOK'
  BY <1>1, <1>3 DEF NoticeInv, NotificationsTypeOK, TimerType
<1>5. ScreenTimers'
  <2> SUFFICES ASSUME NEW u \in timers', u.for = "screenStay" PROVE notices'[u.of] = "screen"
    BY DEF ScreenTimers
  <2>1. PICK t \in timers : u = older(t)
    BY <1>9
  <2>2. u.for = t.for /\ u.of = t.of
    BY <1>3, <2>1
  <2>3. QED
    BY <1>1, <2>2 DEF NoticeInv, ScreenTimers
<1>6. Ends' = {older(t) : t \in Ends}
  BY <1>1, <1>3 DEF Ends
<1>7. InWindows' => OneEnd' /\ InSight'
  <2> SUFFICES ASSUME InWindows' PROVE OneEnd' /\ InSight'
    OBVIOUS
  <2>1. OneEnd /\ InSight
    BY <1>1 DEF NoticeInv, InWindows
  <2>2. \A t \in Ends : older(t).of = current
    BY <1>3, <2>1 DEF OneEnd, Ends
  <2>3. OneEnd'
    BY <1>1, <1>6, <2>1, <2>2 DEF OneEnd
  <2>4. InSight'
    <3>1. \A t \in timers : older(t) \in timers' /\ older(t).for = t.for
      BY <1>3, <1>9
    <3>2. \A u \in timers' : \E t \in timers : u.for = t.for
      <4> SUFFICES ASSUME NEW u \in timers' PROVE \E t \in timers : u.for = t.for
        OBVIOUS
      <4>1. PICK t \in timers : u = older(t)
        BY <1>9
      <4>2. QED
        BY <1>3, <4>1
    <3> HIDE DEF older
    <3>3. (\A t \in timers' : t.for # "again") => (\A t \in timers : t.for # "again")
      BY <3>1
    <3>4. (\E t \in timers' : t.for = "stay") => (\E t \in timers : t.for = "stay")
      BY <3>2
    <3>5. QED
      BY <1>1, <2>1, <3>3, <3>4 DEF InSight
  <2>5. QED
    BY <2>3, <2>4
<1>8. QED
  BY <1>4, <1>5, <1>7 DEF NoticeInv

(* The invariant holds throughout.                                           *)
THEOREM NoticesInductive == NotificationsSpec => []NoticeInv
<1>1. NoticeInv /\ [NotificationsNext]_noticeVars => NoticeInv'
  <2> SUFFICES ASSUME NoticeInv, [NotificationsNext]_noticeVars PROVE NoticeInv'
    OBVIOUS
  <2>1. CASE TimerStep
    BY <2>1, RetryKeeps, SlidesAwayKeeps, HidesKeeps, TimePassesKeeps DEF TimerStep
  <2>2. CASE \E kind \in {"target", "screen"} : Ask(kind)
    BY <2>2, AskKeeps DEF Kinds
  <2>3. CASE UNCHANGED noticeVars
    BY <2>3 DEF noticeVars, NoticeInv, NotificationsTypeOK, ScreenTimers, OneEnd, InSight, Ends, InWindows
  <2>4. QED
    BY <2>1, <2>2, <2>3 DEF NotificationsNext
<1>2. QED
  BY NoticesInitEstablishes, <1>1, PTL DEF NotificationsSpec

(* However many messages in windows come, and whenever: the one that is      *)
(* shown is ended by its own timer only, and the last of those that waited   *)
(* is read with its own text.                                                *)
THEOREM NoticesStayApart == NotificationsSpec => []NoticesAreApart
<1>1. NoticeInv => EndedByItsOwn
  <2> SUFFICES ASSUME NoticeInv, InWindows
               PROVE  /\ {t.of : t \in Ends} = (IF isShowing THEN {current} ELSE {})
                      /\ Cardinality(Ends) <= 1
    BY DEF EndedByItsOwn, Pending, Ends
  <2>1. OneEnd
    BY DEF NoticeInv
  <2>2. CASE Ends = {}
    BY <2>1, <2>2, FS_EmptySet DEF OneEnd
  <2>3. CASE Ends # {}
    <3>1. PICK t \in Ends : TRUE
      BY <2>3
    <3>2. Ends = {t} /\ t.of = current /\ isShowing
      BY <2>1, <3>1 DEF OneEnd
    <3>3. Cardinality(Ends) = 1
      BY <3>2, FS_Singleton
    <3>4. QED
      BY <3>2, <3>3
  <2>4. QED
    BY <2>2, <2>3
<1>2. NoticeInv => LastIsRead
  BY DEF NoticeInv, InSight, LastIsRead, Pending
<1>3. NoticeInv => NoticesAreApart
  BY <1>1, <1>2 DEF NoticesAreApart, NoticeInv
<1>4. QED
  BY <1>3, NoticesInductive, PTL
=============================================================================
