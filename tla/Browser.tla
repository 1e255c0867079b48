-------------------------------- MODULE Browser --------------------------------
(***************************************************************************)
(* A page of the application with its login (frontend/src/app:             *)
(* app.component.ts, auth.service.ts) on top of its link with the backend  *)
(* (VisionClient) and against the accounts of the backend (Accounts): the  *)
(* token kept in localStorage across reloads, the form, and what the       *)
(* backend makes of the token when the socket connects.                    *)
(*                                                                         *)
(* The token travels in the handshake, which the client library repeats    *)
(* unchanged at each reconnection.  environment.apiToken is empty.  Only a *)
(* backend that is up can be reached; when it goes down, the client        *)
(* notices before the next one is up.                                      *)
(***************************************************************************)
EXTENDS VisionClient

CONSTANTS
  None, Expired, Confs, MaxStarts,  \* see Accounts
  MaxLoads                          \* bound on the loads of the page

ASSUME BrowserAssumption ==
  None # Expired /\ MaxStarts \in Nat /\ MaxLoads \in Nat \ {0}

VARIABLES
  conf, up, repo, memUser, dbUser, seeded, starts,  \* see Accounts
  page,          \* "checking" during checkStatus(), then "ready"
  loads,
  authRequired,  \* AuthService.authRequired, of the browser
  user,          \* AuthService.user is set
  token,         \* localStorage's vc-jwt
  showLogin,     \* AppComponent.showLogin
  submitting,    \* AppComponent.submitting
  handshake,     \* the token in the socket's handshake
  admitted       \* the backend's verdict on the open socket

B == INSTANCE Accounts

accounts == <<conf, up, repo, memUser, dbUser, seeded, starts>>
form == <<page, loads, authRequired, user, token, showLogin, submitting>>
session == <<handshake, admitted>>
bvars == <<vars, accounts, form, session>>

BInit ==
  /\ Init /\ ~net
  /\ B!AInit
  /\ page = "checking" /\ loads = 1
  /\ authRequired = FALSE /\ user = FALSE
  /\ token = None
  /\ showLogin = FALSE /\ submitting = FALSE
  /\ handshake = None /\ admitted = FALSE

\* The backend can be reached.
Reached == net /\ up

-----------------------------------------------------------------------------
\* startConnection: a socket with the token there is, or nothing when there
\* is a socket or a demo already.
StartConnection(t) ==
  IF link # "none" \/ demo
  THEN UNCHANGED <<vars, session>>
  ELSE Connect /\ handshake' = t /\ UNCHANGED admitted

\* Whether ngAfterViewInit shows the form.
FormNeeded(required) == required /\ token = None

\* ngAfterViewInit goes on after checkStatus(): the form when a token is
\* required and there is none, else the connection.
Checked(required) ==
  /\ page = "checking"
  /\ page' = "ready"
  /\ authRequired' = required
  /\ IF FormNeeded(required)
     THEN showLogin' = TRUE /\ UNCHANGED <<vars, session>>
     ELSE UNCHANGED showLogin /\ StartConnection(token)
  /\ UNCHANGED <<accounts, loads, user, token, submitting>>

StatusAnswered == Reached /\ Checked(B!AuthRequired)

\* checkStatus() fails: the backend is taken for open.
StatusFails == Checked(FALSE)

\* submitLogin, the button being enabled.
SubmitLogin ==
  /\ showLogin /\ ~submitting
  /\ submitting' = TRUE
  /\ UNCHANGED <<vars, accounts, page, loads, authRequired, user, token, showLogin, session>>

\* login() resolves: the token is kept and the connection started.
LoggedIn ==
  /\ submitting /\ Reached
  /\ \E password \in B!Passwords :
       /\ B!Login(password) # None
       /\ token' = B!Login(password)
  /\ user' = TRUE
  /\ showLogin' = FALSE /\ submitting' = FALSE
  /\ StartConnection(token')
  /\ UNCHANGED <<accounts, page, loads, authRequired>>

\* Wrong credentials, or no answer: an error message in the form.
LoginFails ==
  /\ submitting
  /\ submitting' = FALSE
  /\ UNCHANGED <<vars, accounts, page, loads, authRequired, user, token, showLogin, session>>

\* Mutant: logout() leaves the link.
LinkLeft == UNCHANGED vars

\* vision.disconnect(), in logout().
LinkEnded == Disconnect

\* logout(), whose button is there when the user is known.
Logout ==
  /\ user
  /\ LinkEnded
  /\ token' = None /\ user' = FALSE
  /\ showLogin' = TRUE
  /\ UNCHANGED <<accounts, page, loads, authRequired, submitting, session>>

\* The page is loaded again: all but localStorage starts afresh.
Reload ==
  /\ loads < MaxLoads
  /\ loads' = loads + 1
  /\ page' = "checking"
  /\ authRequired' = FALSE /\ user' = FALSE
  /\ showLogin' = FALSE /\ submitting' = FALSE
  /\ link' = "none" /\ served' = FALSE /\ connected' = FALSE
  /\ demo' = FALSE /\ timer' = FALSE
  /\ inFlight' = 0 /\ LinkLost
  /\ overlay' = "empty" /\ feed' = <<>>
  /\ asked' = 0 /\ answers' = <<>>
  /\ peer' = "none"
  /\ UNCHANGED <<net, transport, now, shocks, accounts, token, session>>

\* JWT_EXPIRES_IN is over.
TokenExpires ==
  /\ token \notin {None, Expired}
  /\ token' = Expired
  /\ handshake' = IF handshake = token THEN Expired ELSE handshake
  /\ UNCHANGED <<vars, accounts, page, loads, authRequired, user, showLogin,
                 submitting, admitted>>

-----------------------------------------------------------------------------
\* handleConnection verifies the token of the handshake, once.
Connected ==
  /\ up
  /\ OnConnect
  /\ admitted' = B!Verify(handshake)
  /\ UNCHANGED <<accounts, form, handshake>>

Refused == up /\ ~admitted /\ OnRefused

\* events/recent is behind the guard, and only an admitted socket gets
\* analyses and acknowledgements that count.
History == B!Verify(token) /\ Answer

Analyses == (admitted \/ link # "open" \/ down' = down) /\ Report

Alone ==
  /\ \/ OnDisconnect \/ Refused \/ Retry \/ OnConnectError
     \/ SendFrame \/ OnAck \/ OnAnalysis \/ OnStreamError \/ StepDemo
     \/ StartWebrtc \/ GotIceServers \/ ChannelOpens \/ PeerCloses
     \/ OnChannelAnalysis
     \/ (\E i \in DOMAIN answers : LoadHistory(i)) \/ LoadHistoryFails
     \/ History \/ Analyses \/ NetLost \/ (up /\ NetBack)
  /\ UNCHANGED <<accounts, form, session>>

\* The backend starts and stops out of reach of the browser.
Backend ==
  /\ ~net /\ link # "open"
  /\ B!ANext
  /\ UNCHANGED <<vars, form, session>>

BNext ==
  \/ StatusAnswered \/ StatusFails \/ SubmitLogin \/ LoggedIn \/ LoginFails
  \/ Logout \/ Reload \/ TokenExpires
  \/ Connected \/ Alone \/ Backend

\* The network comes back, the client library connects and retries, requests
\* end, and the backend refuses or acknowledges.
BFairness ==
  /\ WF_bvars(NetBack /\ Alone) /\ WF_bvars(Connected)
  /\ WF_bvars((OnConnectError \/ Retry \/ OnDisconnect) /\ Alone)
  /\ WF_bvars((OnAck \/ Refused) /\ Alone)
  /\ WF_bvars(StatusAnswered \/ StatusFails) /\ WF_bvars(LoggedIn \/ LoginFails)

BSpec == BInit /\ [][BNext]_bvars /\ BFairness

-----------------------------------------------------------------------------
\* Every piece of state has its type.
BTypeOK ==
  /\ TypeOK
  /\ B!AccountsTypeOK
  /\ page \in {"checking", "ready"} /\ loads \in 1..MaxLoads
  /\ {authRequired, user, showLogin, submitting, admitted} \subseteq BOOLEAN
  /\ {token, handshake} \subseteq {c.secret : c \in Confs} \cup {None, Expired}

\* The accounts stay usable.
AdminCanLogIn == B!AdminCanLogIn

\* What a page is for its user, of the form, a link that is there or comes
\* back, the demo, and an end: a socket that the backend has closed.
Faces ==
  {face \in {"form", "live", "demo", "refused"} :
     \/ face = "form" /\ showLogin
     \/ face = "live" /\ link \in {"opening", "open", "waiting"}
     \/ face = "demo" /\ demo
     \/ face = "refused" /\ link = "dead"}

\* Until its status is known a page is nothing; then it is always exactly one
\* of the four, whatever logins, logouts, requests, reconnections and restarts
\* come between: never a form over a link, nor neither of them.  The form is
\* there for want of a token only, and on a page that knows that one is
\* required, always then.  The end is for those the backend has refused; that
\* they get no form is what RefusedIsAsked is about
\* (app.component.ts:178-211, auth.service.ts:33-50).
FormOrLink ==
  /\ page = "checking" => Faces = {}
  /\ page = "ready" => \E face \in Faces : Faces = {face}
  /\ showLogin => token = None
  /\ page = "ready" /\ authRequired /\ token = None => showLogin
  /\ link = "dead" => ~admitted

\* README.md:135-136, "Le frontend affiche un formulaire de connexion quand
\* l'auth est requise": a page that the backend refuses for want of a valid
\* token comes to show the form, or gets another connection.
RefusedIsAsked == link = "dead" ~> showLogin \/ link # "dead"
=============================================================================
