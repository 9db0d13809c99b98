----------------------------- MODULE Registration -----------------------------
(***************************************************************************)
(* The registration window: the request for a verification code and its    *)
(* countdown, the upload of a picture, the registration itself, and the    *)
(* report to the login window two seconds after it.                        *)
(*                                                                         *)
(* What is entered is a draft, one number for e-mail, name and password;   *)
(* 0 is a form the checks of the button turn down.  The server and the     *)
(* user are external, replies come in any order.                           *)
(***************************************************************************)
EXTENDS Integers, Sequences, FiniteSets

CONSTANTS
  Drafts,              \* what can be entered, numbered from 1
  MaxRequests,         \* bound: registrations
  MaxCodes,            \* bound: requests for a code
  MaxUploads           \* bound: uploads of a picture

ASSUME DraftsAssumption == Drafts \subseteq Nat \ {0} /\ Drafts # {}
ASSUME RequestsAssumption == MaxRequests \in Nat /\ MaxCodes \in Nat /\ MaxUploads \in Nat

Uploads == 1..MaxUploads

VARIABLES
  open,                \* the window is there
  closing,             \* the 150 ms timer of the close button runs
  draft,               \* the fields of the form
  getCodeButton,       \* enabled
  codeRequest,         \* POST /api/send_code
  countdown,           \* the timer of 60 s runs
  codes,               \* used part of MaxCodes
  isRegistering,       \* Register::isRegistering
  request,             \* POST /api/register: the draft and the picture sent
  requests,            \* used part of MaxRequests
  registered,          \* the server: drafts it has made accounts of
  reports,             \* 2 s timers: the drafts they captured
  reported,            \* drafts passed on by registerSuccess
  uploads,             \* POST /api/upload_image, by order of the choice
  chosen,              \* used part of MaxUploads
  avatarUrl,           \* Register::avatarUrl: the upload it came from
  edited,              \* history: the form changed under a registration
  crossed              \* history: two uploads were under way at once

codeVars   == <<getCodeButton, codeRequest, countdown, codes>>
formVars   == <<isRegistering, request, requests, registered, reports, reported>>
avatarVars == <<uploads, chosen, avatarUrl, crossed>>
registrationVars == <<open, closing, draft, codeVars, formVars, avatarVars, edited>>

NoRequest == [draft |-> 0, picture |-> 0]

RegistrationInit ==
  /\ open = TRUE /\ closing = FALSE /\ draft = 0
  /\ getCodeButton = TRUE /\ codeRequest = FALSE /\ countdown = FALSE /\ codes = 0
  /\ isRegistering = FALSE /\ request = NoRequest /\ requests = 0
  /\ registered = {} /\ reports = <<>> /\ reported = <<>>
  /\ uploads = [u \in Uploads |-> "none"] /\ chosen = 0 /\ avatarUrl = 0
  /\ edited = FALSE /\ crossed = FALSE

(* The window is deleted: its timers and replies go with it.               *)
Closed ==
  /\ open' = FALSE /\ closing' = FALSE
  /\ codeRequest' = FALSE /\ countdown' = FALSE
  /\ isRegistering' = FALSE /\ request' = NoRequest /\ reports' = <<>>
  /\ uploads' = [u \in Uploads |-> "none"]

-----------------------------------------------------------------------------
(* The form.                                                               *)

Edit(d) ==
  /\ d # draft /\ draft' = d
  /\ edited' = (edited \/ request # NoRequest)
  /\ UNCHANGED <<open, closing, codeVars, formVars, avatarVars>>

CloseButton ==
  /\ ~closing /\ closing' = TRUE
  /\ UNCHANGED <<open, draft, codeVars, formVars, avatarVars, edited>>

CloseTimer ==
  /\ closing /\ Closed
  /\ UNCHANGED <<draft, getCodeButton, codes, requests, registered, reported, chosen, avatarUrl, edited, crossed>>

-----------------------------------------------------------------------------
(* The verification code.                                                  *)

RequestVerificationCode ==
  /\ getCodeButton /\ draft # 0 /\ codes < MaxCodes
  /\ codes' = codes + 1 /\ getCodeButton' = FALSE /\ codeRequest' = TRUE
  /\ UNCHANGED <<open, closing, draft, countdown, formVars, avatarVars, edited>>

(* An error of the network or of the server, or no JSON.                   *)
CodeFails ==
  /\ codeRequest /\ codeRequest' = FALSE /\ getCodeButton' = TRUE
  /\ UNCHANGED <<open, closing, draft, countdown, codes, formVars, avatarVars, edited>>

CodeSent ==
  /\ codeRequest /\ codeRequest' = FALSE /\ countdown' = TRUE
  /\ UNCHANGED <<open, closing, draft, getCodeButton, codes, formVars, avatarVars, edited>>

CountdownEnds ==
  /\ countdown /\ countdown' = FALSE /\ getCodeButton' = TRUE
  /\ UNCHANGED <<open, closing, draft, codeRequest, codes, formVars, avatarVars, edited>>

-----------------------------------------------------------------------------
(* The picture.                                                            *)

UploadAvatar ==
  /\ chosen < MaxUploads /\ chosen' = chosen + 1
  /\ uploads' = [uploads EXCEPT ![chosen'] = "sent"]
  /\ crossed' = (crossed \/ \E u \in Uploads : uploads[u] = "sent")
  /\ UNCHANGED <<open, closing, draft, codeVars, formVars, avatarUrl, edited>>

UploadFails(u) ==
  /\ uploads[u] = "sent" /\ uploads' = [uploads EXCEPT ![u] = "failed"]
  /\ UNCHANGED <<open, closing, draft, codeVars, formVars, chosen, avatarUrl, crossed, edited>>

(* The reply that comes last sets the URL.                                 *)
Uploaded(u) ==
  /\ uploads[u] = "sent" /\ uploads' = [uploads EXCEPT ![u] = "done"]
  /\ avatarUrl' = u
  /\ UNCHANGED <<open, closing, draft, codeVars, formVars, chosen, crossed, edited>>

-----------------------------------------------------------------------------
(* The registration.                                                       *)

DoRegister ==
  /\ ~isRegistering /\ draft # 0 /\ avatarUrl # 0 /\ requests < MaxRequests
  /\ requests' = requests + 1 /\ isRegistering' = TRUE
  /\ request' = [draft |-> draft, picture |-> avatarUrl]
  /\ UNCHANGED <<open, closing, draft, codeVars, registered, reports, reported, avatarVars, edited>>

(* An error of the network, no JSON, or the server takes no such account.  *)
RegisterFails ==
  /\ request # NoRequest /\ request' = NoRequest /\ isRegistering' = FALSE
  /\ UNCHANGED <<open, closing, draft, codeVars, requests, registered, reports, reported, avatarVars, edited>>

(* What is reported is read from the form when the answer comes.           *)
RegisterSucceeds ==
  /\ request # NoRequest /\ request.draft \notin registered
  /\ registered' = registered \cup {request.draft}
  /\ reports' = Append(reports, draft)
  /\ request' = NoRequest /\ isRegistering' = FALSE
  /\ UNCHANGED <<open, closing, draft, codeVars, requests, reported, avatarVars, edited>>

(* Faulty: what is reported is read from the form when the timer fires.    *)
ReportTimer_ReadsForm ==
  /\ reports # <<>> /\ reported' = Append(reported, draft)
  /\ Closed
  /\ UNCHANGED <<draft, getCodeButton, codes, requests, registered, chosen, avatarUrl, edited, crossed>>

(* registerSuccess, then close.                                            *)
ReportTimer ==
  /\ reports # <<>> /\ reported' = Append(reported, Head(reports))
  /\ Closed
  /\ UNCHANGED <<draft, getCodeButton, codes, requests, registered, chosen, avatarUrl, edited, crossed>>

-----------------------------------------------------------------------------
FormStep == (\E d \in Drafts \cup {0} : Edit(d)) \/ CloseButton \/ CloseTimer
CodeStep == RequestVerificationCode \/ CodeFails \/ CodeSent \/ CountdownEnds
AvatarStep == UploadAvatar \/ \E u \in Uploads : UploadFails(u) \/ Uploaded(u)
RegisterStep == DoRegister \/ RegisterFails \/ RegisterSucceeds \/ ReportTimer

RegistrationNext == open /\ (FormStep \/ CodeStep \/ AvatarStep \/ RegisterStep)

RegistrationSpec == RegistrationInit /\ [][RegistrationNext]_registrationVars

-----------------------------------------------------------------------------
(* Properties.                                                             *)

(* Types.                                                                  *)
RegistrationTypeOK ==
  /\ open \in BOOLEAN /\ closing \in BOOLEAN /\ draft \in Drafts \cup {0}
  /\ getCodeButton \in BOOLEAN /\ codeRequest \in BOOLEAN /\ countdown \in BOOLEAN
  /\ codes \in 0..MaxCodes /\ isRegistering \in BOOLEAN
  /\ request \in [draft : Drafts \cup {0}, picture : 0..MaxUploads]
  /\ requests \in 0..MaxRequests /\ registered \subseteq Drafts
  /\ reports \in Seq(Drafts \cup {0}) /\ reported \in Seq(Drafts \cup {0})
  /\ uploads \in [Uploads -> {"none", "sent", "failed", "done"}]
  /\ chosen \in 0..MaxUploads /\ avatarUrl \in 0..MaxUploads
  /\ edited \in BOOLEAN /\ crossed \in BOOLEAN

(* A button that is off has something under way that turns it on again,    *)
(* whatever failed: the code button and the register button.               *)
ButtonsComeBack ==
  open => /\ ~getCodeButton => codeRequest \/ countdown
          /\ isRegistering => request # NoRequest

(* What the login window is given is an account the server has just made,  *)
(* unless the form was changed while the server was asked.                 *)
ReportedIsRegistered ==
  ~edited => \A i \in DOMAIN reported : reported[i] \in registered

(* One window reports once, however many accounts were registered in it.   *)
ReportsOnce == Len(reported) <= 1

(* The picture a registration sends is the last one that was uploaded,     *)
(* unless two uploads were under way at once.                              *)
PictureIsLatest ==
  open /\ ~crossed => \A u \in Uploads : uploads[u] = "done" => u <= avatarUrl

(* The form stays usable, and what it reports and sends is what was        *)
(* registered and uploaded, once.                                          *)
FormIsSound ==
  /\ RegistrationTypeOK
  /\ ButtonsComeBack
  /\ ReportedIsRegistered
  /\ ReportsOnce
  /\ PictureIsLatest
===============================================================================
