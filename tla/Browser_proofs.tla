---------------------------- MODULE Browser_proofs ----------------------------
(***************************************************************************)
(* Proofs about VisionClient and Browser: the credits, the status, the     *)
(* form and the accounts are right for every limit, any number of losses,  *)
(* reloads and restarts, and every set of configurations.  Credits and     *)
(* status have an inductive invariant each, of the client alone; a step of *)
(* the page is a step of the client or a reload.                           *)
(***************************************************************************)
EXTENDS Browser, SequenceTheorems, TLAPS

\* Credits: in range, exact on an open connection, and nothing is owed on
\* one that is not open.
CreditInv ==
  /\ inFlight \in 0..MaxInFlight
  /\ unacked \in 0..MaxInFlight
  /\ link # "open" => unacked = 0
  /\ CreditsExact

LEMMA LimitIsNat == MaxInFlight \in Nat
BY ClientAssumption, Zenon DEF ClientAssumption

\* A client starts with no credit in use.
LEMMA CreditInit == Init => CreditInv
  BY LimitIsNat, SMT DEF Init, CreditInv, CreditsExact

\* No handler makes the credits wrong.
LEMMA CreditStep == CreditInv /\ [Next]_vars => CreditInv'
<1> SUFFICES ASSUME CreditInv, [Next]_vars PROVE CreditInv'
  OBVIOUS
<1> USE LimitIsNat DEF CreditInv, CreditsExact, credits, LinkLost
<1>1. CASE Connect
  <2>1. link = "none" /\ link' \in {"none", "opening"} /\ UNCHANGED <<inFlight, unacked>>
    BY <1>1, Zenon DEF Connect, EnableDemo
  <2> QED
    BY <2>1, SMT
<1>2. CASE OnConnect
  BY <1>2, SMT DEF OnConnect, FreshCredits
<1>3. CASE OnDisconnect \/ OnRefused \/ Disconnect
  <2>1. link' # "open" /\ inFlight' = inFlight /\ unacked' = 0
    BY <1>3, SMT DEF OnDisconnect, OnRefused, Disconnect
  <2> QED
    BY <2>1, SMT
<1>4. CASE Retry \/ OnConnectError
  <2>1. link # "open" /\ link' # "open" /\ UNCHANGED <<inFlight, unacked>>
    BY <1>4, SMT DEF Retry, OnConnectError, EnableDemo
  <2> QED
    BY <2>1, SMT
<1>5. CASE SendFrame
  BY <1>5, SMT DEF SendFrame
<1>6. CASE OnAck
  BY <1>6, SMT DEF OnAck, Freed
<1>7. CASE OnAnalysis \/ OnStreamError \/ StepDemo
  BY <1>7, SMT DEF OnAnalysis, OnStreamError, StepDemo
<1>8. CASE (\E i \in DOMAIN answers : LoadHistory(i)) \/ LoadHistoryFails
  BY <1>8, SMT DEF LoadHistory, LoadHistoryFails
<1>9. CASE Answer \/ Report \/ NetLost \/ NetBack
  BY <1>9, SMT DEF Answer, Report, NetLost, NetBack
<1>10. CASE StartWebrtc \/ GotIceServers \/ ChannelOpens \/ PeerCloses \/ OnChannelAnalysis
  <2>1. UNCHANGED <<link, inFlight, unacked>>
    BY <1>10, Zenon
    DEF StartWebrtc, GotIceServers, ChannelOpens, PeerCloses, OnChannelAnalysis
  <2> QED
    BY <2>1, SMT
<1>11. CASE UNCHANGED vars
  BY <1>11, SMT DEF vars
<1> QED
  BY <1>1, <1>2, <1>3, <1>4, <1>5, <1>6, <1>7, <1>8, <1>9, <1>10, <1>11, Zenon DEF Next

\* However often the connection is lost, an open one has exactly the credits
\* in use that will be acknowledged (vision.service.ts:64,303-320).
THEOREM Credits == Spec => []CreditsExact
<1>1. CreditInv => CreditsExact
  BY DEF CreditInv
<1> QED
  BY <1>1, CreditInit, CreditStep, PTL DEF Spec

-----------------------------------------------------------------------------
\* Status: what the property says, and that a flag is a flag.
StatusInv ==
  /\ connected \in BOOLEAN /\ demo \in BOOLEAN /\ timer \in BOOLEAN
  /\ StatusHonest

\* A client starts offline, out of the demo, with nothing shown.
LEMMA StatusInit == Init => StatusInv
  BY Zenon DEF Init, StatusInv, StatusHonest

\* No handler makes the status wrong.
LEMMA StatusStep == StatusInv /\ [Next]_vars => StatusInv'
<1> SUFFICES ASSUME StatusInv, [Next]_vars PROVE StatusInv'
  OBVIOUS
<1> USE DEF StatusInv, StatusHonest, demoState
<1>0. ASSUME UNCHANGED <<link, connected, demo, timer, overlay>> PROVE StatusInv'
  BY <1>0, Zenon
<1>1. CASE Connect
  <2>1. link # "open" /\ link' # "open" /\ UNCHANGED <<connected, overlay>>
    BY <1>1, Zenon DEF Connect, EnableDemo
  <2>2. ~demo /\ ~timer
    BY <1>1, Zenon DEF Connect
  <2>3. CASE EnableDemo
    BY <2>1, <2>2, <2>3, Zenon DEF EnableDemo
  <2>4. CASE UNCHANGED demoState
    BY <2>1, <2>2, <2>4, Zenon
  <2> QED
    BY <1>1, <2>3, <2>4, Zenon DEF Connect
<1>2. CASE OnConnect
  <2>1. link' = "open" /\ connected' = TRUE /\ link # "none" /\ UNCHANGED <<overlay, demo, timer>>
    BY <1>2, Zenon DEF OnConnect
  <2>2. ~demo
    BY <2>1, Zenon
  <2> QED
    BY <2>1, <2>2, Zenon
<1>3. CASE OnDisconnect \/ OnRefused
  <2>1. link = "open" /\ link' # "open" /\ connected' = FALSE
    BY <1>3, Zenon DEF OnDisconnect, OnRefused
  <2>2. UNCHANGED <<demo, timer, overlay>>
    BY <1>3, Zenon DEF OnDisconnect, OnRefused
  <2>3. ~demo
    BY <2>1, Zenon
  <2> QED
    BY <2>1, <2>2, <2>3, Zenon
<1>4. CASE Disconnect
  BY <1>4, Zenon DEF Disconnect
<1>5. CASE Retry
  BY <1>5, Zenon DEF Retry
<1>6. CASE OnConnectError
  <2>1. link # "none" /\ link # "open" /\ UNCHANGED <<connected, overlay>>
    BY <1>6, Zenon DEF OnConnectError
  <2>2. ~demo /\ ~timer /\ ~connected
    BY <2>1, Zenon
  <2>3. EnableDemo
    BY <1>6, <2>2, Zenon DEF OnConnectError
  <2> QED
    BY <2>1, <2>2, <2>3, Zenon DEF EnableDemo
<1>7. CASE SendFrame \/ OnAck \/ OnStreamError
  <2>1. UNCHANGED <<link, connected, demo, timer, overlay>>
    BY <1>7, Zenon DEF SendFrame, OnAck, OnStreamError
  <2> QED
    BY <1>0, <2>1, Zenon
<1>8. CASE OnAnalysis \/ OnChannelAnalysis
  <2>1. overlay' = "live" /\ UNCHANGED <<link, connected, demo, timer>>
    BY <1>8, Zenon DEF OnAnalysis, OnChannelAnalysis, Analysed
  <2>2. overlay' # "simulated"
    BY <2>1, Zenon
  <2> QED
    BY <2>1, <2>2, Zenon
<1>9. CASE StepDemo
  <2>1. timer /\ UNCHANGED <<link, connected, demo, timer>>
    BY <1>9, Zenon DEF StepDemo
  <2>2. demo'
    BY <2>1, Zenon
  <2> QED
    BY <2>1, <2>2, Zenon
<1>10. CASE (\E i \in DOMAIN answers : LoadHistory(i)) \/ LoadHistoryFails
  <2>1. UNCHANGED <<link, connected, demo, timer, overlay>>
    BY <1>10, Zenon DEF LoadHistory, LoadHistoryFails
  <2> QED
    BY <1>0, <2>1, Zenon
<1>11. CASE Answer \/ Report \/ NetLost \/ NetBack
  <2>1. UNCHANGED <<link, connected, demo, timer, overlay>>
    BY <1>11, Zenon DEF Answer, Report, NetLost, NetBack
  <2> QED
    BY <1>0, <2>1, Zenon
<1>12. CASE StartWebrtc \/ GotIceServers \/ ChannelOpens \/ PeerCloses
  <2>1. UNCHANGED <<link, connected, demo, timer, overlay>>
    BY <1>12, Zenon DEF StartWebrtc, GotIceServers, ChannelOpens, PeerCloses
  <2> QED
    BY <1>0, <2>1, Zenon
<1>13. CASE UNCHANGED vars
  BY <1>13, Zenon DEF vars
<1> QED
  BY <1>1, <1>2, <1>3, <1>4, <1>5, <1>6, <1>7, <1>8, <1>9, <1>10, <1>11, <1>12, <1>13, Zenon
  DEF Next

\* The status shown is that of the socket and of the demo, and simulated
\* objects are shown in the demo only, whatever the peer connection does
\* (vision.service.ts:39-41,67,88-97,198-208,229-232).
THEOREM Status == Spec => []StatusHonest
<1>1. StatusInv => StatusHonest
  BY DEF StatusInv
<1> QED
  BY <1>1, StatusInit, StatusStep, PTL DEF Spec

-----------------------------------------------------------------------------
\* What a page does to its link, it does by steps of the client; a reload
\* drops it.
LEMMA ClientSteps == [BNext]_bvars => [Next]_vars \/ Reload
<1> SUFFICES ASSUME [BNext]_bvars PROVE [Next]_vars \/ Reload
  OBVIOUS
<1>1. ASSUME NEW t, StartConnection(t) PROVE [Next]_vars
  BY <1>1, Zenon DEF StartConnection, Next
<1>2. ASSUME NEW r, Checked(r) PROVE [Next]_vars
  BY <1>1, <1>2, Zenon DEF Checked
<1>3. CASE StatusAnswered \/ StatusFails
  BY <1>2, <1>3, Zenon DEF StatusAnswered, StatusFails
<1>4. CASE LoggedIn
  BY <1>1, <1>4, Zenon DEF LoggedIn
<1>5. CASE SubmitLogin \/ LoginFails \/ TokenExpires \/ Backend
  BY <1>5, Zenon DEF SubmitLogin, LoginFails, TokenExpires, Backend
<1>6. CASE Logout
  BY <1>6, Zenon DEF Logout, LinkEnded, Next
<1>7. CASE Connected
  BY <1>7, Zenon DEF Connected, Next
<1>8. CASE Alone
  BY <1>8, Zenon DEF Alone, Refused, History, Analyses, Next
<1>9. CASE UNCHANGED bvars
  BY <1>9, Zenon DEF bvars
<1> QED
  BY <1>3, <1>4, <1>5, <1>6, <1>7, <1>8, <1>9, Zenon DEF BNext

\* Between two loads, the page uses its client as the client alone allows
\* (app.component.ts:178-211).
THEOREM PageDrivesClient == BSpec => Init /\ [][Next \/ Reload]_vars
<1>1. BInit => Init
  BY Zenon DEF BInit
<1>2. [BNext]_bvars => [Next \/ Reload]_vars
  BY ClientSteps
<1> QED
  BY <1>1, <1>2, PTL DEF BSpec

\* In the page too, the credits in use are those to be acknowledged.
THEOREM PageCredits == BSpec => []CreditsExact
<1>1. BInit => CreditInv
  BY CreditInit, Zenon DEF BInit
<1>2. CreditInv /\ Reload => CreditInv'
  BY LimitIsNat, SMT DEF CreditInv, CreditsExact, Reload, LinkLost
<1>3. CreditInv => CreditsExact
  BY DEF CreditInv
<1> QED
  BY <1>1, <1>2, <1>3, CreditStep, ClientSteps, PTL DEF BSpec

\* In the page too, the status is that of the socket and of the demo, and
\* simulated objects are shown in the demo only.
THEOREM PageStatus == BSpec => []StatusHonest
<1>1. BInit => StatusInv
  BY StatusInit, Zenon DEF BInit
<1>2. StatusInv /\ Reload => StatusInv'
  BY Zenon DEF StatusInv, StatusHonest, Reload
<1>3. StatusInv => StatusHonest
  BY DEF StatusInv
<1> QED
  BY <1>1, <1>2, <1>3, StatusStep, ClientSteps, PTL DEF BSpec

-----------------------------------------------------------------------------
\* The page has no link, live or simulated.
NoLink == link = "none" /\ ~demo

\* The form: it is on a ready page, exactly when that has no link, and for
\* want of a token; a closed socket is one that was refused.
FormInv ==
  /\ page = "ready" => (showLogin <=> NoLink)
  /\ page = "checking" => ~showLogin /\ NoLink
  /\ showLogin \/ submitting \/ user => page = "ready"
  /\ showLogin => token = None
  /\ page = "ready" /\ authRequired /\ token = None => showLogin
  /\ link = "dead" => ~admitted

\* startConnection leaves the page with one.
LEMMA Linked ==
  ASSUME NEW t, StartConnection(t) PROVE ~NoLink'
<1>1. CASE link # "none" \/ demo
  BY <1>1, Zenon DEF StartConnection, vars, demoState, NoLink
<1>2. CASE ~(link # "none" \/ demo)
  <2>1. Connect
    BY <1>2, Zenon DEF StartConnection
  <2>2. demo' = TRUE \/ link' = "opening"
    BY <2>1, Zenon DEF Connect, EnableDemo
  <2> QED
    BY <2>2, Zenon DEF NoLink
<1> QED
  BY <1>1, <1>2

\* The handlers of the client never end the link nor make one.
LEMMA LinkKept ==
  ASSUME Alone \/ Connected PROVE NoLink' <=> NoLink
<1> USE DEF NoLink, demoState
<1>1. CASE Connected
  BY <1>1, Zenon DEF Connected, OnConnect
<1>2. CASE OnDisconnect \/ Refused \/ Retry
  <2>1. link # "none" /\ link' # "none"
    BY <1>2, Zenon DEF OnDisconnect, Refused, OnRefused, Retry
  <2> QED
    BY <2>1
<1>3. CASE OnConnectError
  <2>1. link # "none" /\ (demo' = TRUE \/ link' # "none")
    BY <1>3, Zenon DEF OnConnectError, EnableDemo
  <2> QED
    BY <2>1
<1>4. CASE SendFrame \/ OnAck \/ OnAnalysis \/ OnStreamError \/ StepDemo
  <2>1. CASE SendFrame
    BY <2>1, Zenon DEF SendFrame
  <2>2. CASE OnAck
    BY <2>2, Zenon DEF OnAck
  <2>3. CASE OnAnalysis
    BY <2>3, Zenon DEF OnAnalysis
  <2>4. CASE OnStreamError
    BY <2>4, Zenon DEF OnStreamError
  <2>5. CASE StepDemo
    BY <2>5, Zenon DEF StepDemo
  <2> QED
    BY <1>4, <2>1, <2>2, <2>3, <2>4, <2>5
<1>5. CASE (\E i \in DOMAIN answers : LoadHistory(i)) \/ LoadHistoryFails \/ History
  <2>1. ASSUME NEW i \in DOMAIN answers, LoadHistory(i) PROVE NoLink' <=> NoLink
    BY <2>1, Zenon DEF LoadHistory
  <2>2. CASE LoadHistoryFails
    BY <2>2, Zenon DEF LoadHistoryFails
  <2>3. CASE History
    BY <2>3, Zenon DEF History, Answer
  <2> QED
    BY <1>5, <2>1, <2>2, <2>3
<1>6. CASE Analyses \/ NetLost \/ (up /\ NetBack)
  <2>1. CASE Analyses
    BY <2>1, Zenon DEF Analyses, Report
  <2>2. CASE NetLost
    BY <2>2, Zenon DEF NetLost
  <2>3. CASE NetBack
    BY <2>3, Zenon DEF NetBack
  <2> QED
    BY <1>6, <2>1, <2>2, <2>3
<1>7. CASE StartWebrtc \/ GotIceServers \/ ChannelOpens \/ PeerCloses \/ OnChannelAnalysis
  <2>1. UNCHANGED <<link, demo>>
    BY <1>7, Zenon
    DEF StartWebrtc, GotIceServers, ChannelOpens, PeerCloses, OnChannelAnalysis
  <2> QED
    BY <2>1, Zenon
<1> QED
  BY <1>1, <1>2, <1>3, <1>4, <1>5, <1>6, <1>7, Zenon DEF Alone

\* A connection that is closed for good was refused.
LEMMA ClosedStep ==
  ASSUME link = "dead" => ~admitted, [BNext]_bvars
  PROVE  link' = "dead" => ~admitted'
<1>1. ASSUME NEW t, StartConnection(t) PROVE link' = "dead" => ~admitted'
  <2>1. CASE UNCHANGED <<vars, session>>
    BY <2>1, Zenon DEF vars, session
  <2>2. CASE Connect
    BY <2>2, Zenon DEF Connect, EnableDemo
  <2> QED
    BY <1>1, <2>1, <2>2, Zenon DEF StartConnection
<1>2. ASSUME NEW r, Checked(r) PROVE link' = "dead" => ~admitted'
  <2>1. CASE UNCHANGED <<vars, session>>
    BY <2>1, Zenon DEF vars, session
  <2> QED
    BY <1>1, <1>2, <2>1, Zenon DEF Checked
<1>3. CASE StatusAnswered \/ StatusFails
  BY <1>2, <1>3, Zenon DEF StatusAnswered, StatusFails
<1>4. CASE LoggedIn
  BY <1>1, <1>4, Zenon DEF LoggedIn
<1>5. CASE SubmitLogin \/ LoginFails \/ Backend \/ UNCHANGED bvars
  BY <1>5, Zenon DEF SubmitLogin, LoginFails, Backend, bvars, vars, session
<1>6. CASE TokenExpires
  BY <1>6, Zenon DEF TokenExpires, vars
<1>7. CASE Logout \/ Reload
  BY <1>7, Zenon DEF Logout, LinkEnded, Disconnect, Reload
<1>8. CASE Connected
  BY <1>8, Zenon DEF Connected, OnConnect
<1>9. CASE Alone
  <2>1. UNCHANGED admitted
    BY <1>9, Zenon DEF Alone, session
  <2>2. CASE Refused
    BY <2>1, <2>2, Zenon DEF Refused
  <2>3. CASE OnDisconnect \/ Retry \/ OnConnectError
    BY <2>3, Zenon DEF OnDisconnect, Retry, OnConnectError, EnableDemo
  <2>4. CASE SendFrame \/ OnAck \/ OnAnalysis \/ OnStreamError \/ StepDemo
    BY <2>1, <2>4, Zenon DEF SendFrame, OnAck, OnAnalysis, OnStreamError, StepDemo
  <2>5. CASE StartWebrtc \/ GotIceServers \/ ChannelOpens \/ PeerCloses \/ OnChannelAnalysis
    BY <2>1, <2>5, Zenon
    DEF StartWebrtc, GotIceServers, ChannelOpens, PeerCloses, OnChannelAnalysis
  <2>6. CASE (\E i \in DOMAIN answers : LoadHistory(i)) \/ LoadHistoryFails \/ History
    BY <2>1, <2>6, Zenon DEF LoadHistory, LoadHistoryFails, History, Answer
  <2>7. CASE Analyses \/ NetLost \/ (up /\ NetBack)
    BY <2>1, <2>7, Zenon DEF Analyses, Report, NetLost, NetBack
  <2> QED
    BY <1>9, <2>2, <2>3, <2>4, <2>5, <2>6, <2>7, Zenon DEF Alone
<1> QED
  BY <1>3, <1>4, <1>5, <1>6, <1>7, <1>8, <1>9, Zenon DEF BNext

\* Every step of the page keeps the form where it must be.
LEMMA FormStep == FormInv /\ [BNext]_bvars => FormInv'
<1> SUFFICES ASSUME FormInv, [BNext]_bvars PROVE FormInv'
  OBVIOUS
<1>0. link' = "dead" => ~admitted'
  BY ClosedStep, Zenon DEF FormInv
<1> USE <1>0 DEF FormInv, form
<1>1. ASSUME NEW r \in BOOLEAN, Checked(r) PROVE FormInv'
  <2>1. page = "checking" /\ page' = "ready" /\ authRequired' = r /\ UNCHANGED token
    BY <1>1, Zenon DEF Checked
  <2>2. CASE FormNeeded(r)
    <3>1. showLogin' /\ token = None /\ UNCHANGED <<link, demo>>
      BY <1>1, <2>2, Zenon DEF Checked, FormNeeded, vars, demoState
    <3> QED
      BY <2>1, <3>1, Zenon DEF NoLink
  <2>3. CASE ~FormNeeded(r)
    <3>1. ~showLogin' /\ ~NoLink'
      BY <1>1, <2>1, <2>3, Linked, Zenon DEF Checked
    <3>2. ~(r /\ token = None)
      BY <2>3, Zenon DEF FormNeeded
    <3> QED
      BY <2>1, <3>1, <3>2, Zenon
  <2> QED
    BY <2>2, <2>3
<1>2. CASE StatusAnswered
  <2>1. B!AuthRequired \in BOOLEAN
    BY Zenon DEF B!AuthRequired
  <2> QED
    BY <1>1, <1>2, <2>1, Zenon DEF StatusAnswered
<1>3. CASE StatusFails
  BY <1>1, <1>3, Zenon DEF StatusFails
<1>4. CASE SubmitLogin \/ LoginFails
  <2>1. UNCHANGED <<link, demo, page, authRequired, user, token, showLogin>>
    BY <1>4, Zenon DEF SubmitLogin, LoginFails, vars, demoState
  <2>2. submitting' => showLogin \/ submitting
    BY <1>4, Zenon DEF SubmitLogin, LoginFails
  <2> QED
    BY <2>1, <2>2, Zenon DEF NoLink
<1>5. CASE LoggedIn
  <2>1. submitting /\ token' # None /\ ~showLogin' /\ UNCHANGED page
    BY <1>5, Zenon DEF LoggedIn
  <2>2. ~NoLink'
    BY <1>5, Linked, Zenon DEF LoggedIn
  <2>3. page = "ready"
    BY <2>1, Zenon
  <2> QED
    BY <2>1, <2>2, <2>3, Zenon
<1>6. CASE Logout
  <2>1. /\ link' = "none" /\ demo' = FALSE /\ showLogin' = TRUE /\ page' = "ready"
        /\ token' = None
    BY <1>6, Zenon DEF Logout, LinkEnded, Disconnect
  <2> QED
    BY <2>1, Zenon DEF NoLink
<1>7. CASE Reload
  BY <1>7, Zenon DEF Reload, NoLink
<1>8. CASE TokenExpires
  <2>1. token # None /\ token' # None
    BY <1>8, BrowserAssumption, Zenon DEF TokenExpires, BrowserAssumption
  <2>2. UNCHANGED <<link, demo, page, authRequired, user, showLogin, submitting>>
    BY <1>8, Zenon DEF TokenExpires, vars, demoState
  <2> QED
    BY <2>1, <2>2, Zenon DEF NoLink
<1>9. CASE Connected \/ Alone
  <2>1. NoLink' <=> NoLink
    BY <1>9, LinkKept
  <2>2. UNCHANGED form
    BY <1>9, Zenon DEF Connected, Alone
  <2> QED
    BY <2>1, <2>2, Zenon
<1>10. CASE Backend
  BY <1>10, Zenon DEF Backend, vars, demoState, NoLink
<1>11. CASE UNCHANGED bvars
  BY <1>11, Zenon DEF bvars, vars, demoState, NoLink
<1> QED
  BY <1>2, <1>3, <1>4, <1>5, <1>6, <1>7, <1>8, <1>9, <1>10, <1>11, Zenon DEF BNext

-----------------------------------------------------------------------------
\* Accounts: the table holds the password of the first start that seeded it,
\* the memory of a process without database its own.
AccountsInv ==
  /\ seeded \in Seq(B!Passwords)
  /\ dbUser = IF seeded = <<>> THEN None ELSE Head(seeded)
  /\ memUser \in B!Passwords \cup {None}
  /\ up /\ conf.secret # None /\ ~repo => memUser = conf.password
  /\ up /\ conf.secret # None /\ repo /\ conf.password # None => seeded # <<>>
  /\ conf \in Confs

LEMMA AccountsInit == BInit => AccountsInv
<1>1. <<>> \in Seq(B!Passwords)
  BY SMT
<1> QED
  BY <1>1, Zenon DEF BInit, B!AInit, AccountsInv

\* A start of the database keeps the account there is, or makes one.
LEMMA SeedStep ==
  ASSUME AccountsInv, NEW c \in Confs, B!SeedDatabase(c)
  PROVE  /\ seeded' \in Seq(B!Passwords)
         /\ dbUser' = IF seeded' = <<>> THEN None ELSE Head(seeded')
         /\ c.password # None => seeded' # <<>>
<1>1. None \notin B!Passwords
  BY Zenon DEF B!Passwords
<1>2. CASE c.password = None
  BY <1>2, Zenon DEF B!SeedDatabase, B!Seeded, AccountsInv
<1>3. CASE c.password # None
  <2>1. c.password \in B!Passwords /\ seeded' = Append(seeded, c.password)
    BY <1>3, Zenon DEF B!SeedDatabase, B!Passwords
  <2>2. /\ seeded' \in Seq(B!Passwords) /\ seeded' # <<>>
        /\ Head(seeded') = IF seeded = <<>> THEN c.password ELSE Head(seeded)
    BY <2>1, SMT DEF AccountsInv
  <2>3. seeded # <<>> => Head(seeded) \in B!Passwords
    BY SMT DEF AccountsInv
  <2>4. dbUser' = IF seeded = <<>> THEN c.password ELSE Head(seeded)
    BY <1>1, <1>3, <2>3, Zenon DEF B!SeedDatabase, B!Seeded, AccountsInv
  <2> QED
    BY <2>2, <2>4, Zenon
<1> QED
  BY <1>2, <1>3

LEMMA AccountsStep == AccountsInv /\ [BNext]_bvars => AccountsInv'
<1> SUFFICES ASSUME AccountsInv, [BNext]_bvars PROVE AccountsInv'
  OBVIOUS
<1> USE DEF AccountsInv
<1>1. CASE B!Start
  <2>1. PICK c \in Confs :
          /\ conf' = c
          /\ B!StartWithDatabase(c) \/ B!StartInMemory(c) \/ B!StartOpen(c)
    BY <1>1, Zenon DEF B!Start
  <2>2. CASE B!StartWithDatabase(c)
    <3>1. B!SeedDatabase(c) /\ repo' = TRUE /\ memUser' = None
      BY <2>2, Zenon DEF B!StartWithDatabase
    <3> QED
      BY <2>1, <3>1, SeedStep, Zenon
  <2>3. CASE B!StartInMemory(c)
    <3>1. memUser' = c.password
      BY <2>3, Zenon DEF B!StartInMemory, B!MemorySeeded, B!Seeded
    <3>2. memUser' \in B!Passwords \cup {None}
      BY <3>1, Zenon DEF B!Passwords
    <3> QED
      BY <2>1, <2>3, <3>1, <3>2, Zenon DEF B!StartInMemory
  <2>4. CASE B!StartOpen(c)
    BY <2>1, <2>4, Zenon DEF B!StartOpen
  <2> QED
    BY <2>1, <2>2, <2>3, <2>4
<1>2. CASE B!StartFails
  <2>1. PICK c \in Confs :
          conf' = c /\ (B!SeedDatabase(c) \/ UNCHANGED <<dbUser, seeded>>)
    BY <1>2, Zenon DEF B!StartFails
  <2>2. ~up' /\ UNCHANGED memUser
    BY <1>2, Zenon DEF B!StartFails
  <2>3. CASE B!SeedDatabase(c)
    BY <2>1, <2>2, <2>3, SeedStep, Zenon
  <2>4. CASE UNCHANGED <<dbUser, seeded>>
    BY <2>1, <2>2, <2>4, Zenon
  <2> QED
    BY <2>1, <2>3, <2>4
<1>3. CASE B!Stop
  BY <1>3, Zenon DEF B!Stop
<1>4. CASE UNCHANGED accounts
  BY <1>4, Zenon DEF accounts
<1>5. CASE StatusAnswered \/ StatusFails
  BY <1>4, <1>5, Zenon DEF StatusAnswered, StatusFails, Checked
<1>6. CASE SubmitLogin \/ LoggedIn \/ LoginFails \/ Logout \/ Reload \/ TokenExpires
  BY <1>4, <1>6, Zenon DEF SubmitLogin, LoggedIn, LoginFails, Logout, Reload, TokenExpires
<1>7. CASE Connected \/ Alone
  BY <1>4, <1>7, Zenon DEF Connected, Alone
<1>8. CASE Backend
  BY <1>1, <1>2, <1>3, <1>8, Zenon DEF Backend, B!ANext
<1>9. CASE UNCHANGED bvars
  BY <1>4, <1>9, Zenon DEF bvars
<1> QED
  BY <1>5, <1>6, <1>7, <1>8, <1>9, Zenon DEF BNext

\* Whatever the configurations of its starts and whichever reach the
\* database, a backend that was given a password lets the admin in, with the
\* password of the first start that seeded the database, or without database
\* with its own, and with no other (auth.service.ts:40-115).
THEOREM AdminIn == BSpec => []AdminCanLogIn
<1>1. BInit => AccountsInv
  BY AccountsInit
<1>2. AccountsInv => AdminCanLogIn
  <2> SUFFICES ASSUME AccountsInv, up, B!AuthRequired
               PROVE  /\ conf.password # None => B!AdminPassword # None
                      /\ \A password \in B!Passwords :
                           B!Login(password) # None /\ B!Verify(B!Login(password))
                             <=> password = B!AdminPassword
    BY Zenon DEF AdminCanLogIn, B!AdminCanLogIn
  <2>1. B!User = B!AdminPassword
    BY Zenon DEF AccountsInv, B!AuthRequired, B!User, B!AdminPassword
  <2>2. conf.password # None => B!AdminPassword # None
    <3>1. seeded # <<>> => Head(seeded) \in B!Passwords
      BY SMT DEF AccountsInv
    <3>2. None \notin B!Passwords
      BY Zenon DEF B!Passwords
    <3> QED
      BY <3>1, <3>2, Zenon DEF AccountsInv, B!AuthRequired, B!AdminPassword
  <2>3. ASSUME NEW password \in B!Passwords
        PROVE  B!Login(password) # None /\ B!Verify(B!Login(password))
                 <=> password = B!AdminPassword
    <3>1. password # None
      BY Zenon DEF B!Passwords
    <3> QED
      BY <2>1, <3>1, Zenon DEF B!Login, B!Verify, B!AuthRequired
  <2> QED
    BY <2>2, <2>3
<1> QED
  BY <1>1, <1>2, AccountsStep, PTL DEF BSpec

-----------------------------------------------------------------------------
(***************************************************************************)
(* Types.  The feed is a sequence within its limit because every handler   *)
(* that adds to it cuts it; what it is primed with are rows of the backend.*)
(***************************************************************************)
FeedInv ==
  /\ now \in 0..MaxAt
  /\ feed \in Seq(0..MaxAt) /\ Len(feed) <= FeedLimit
  /\ down \in Seq(1..MaxAt)
  /\ asked \in Nat /\ answers \in Seq(Seq(1..MaxAt))

LinkInv ==
  /\ net \in BOOLEAN /\ served \in BOOLEAN
  /\ connected \in BOOLEAN /\ demo \in BOOLEAN /\ timer \in BOOLEAN
  /\ link \in {"none", "opening", "open", "waiting", "dead"}
  /\ overlay \in {"empty", "live", "simulated"}
  /\ transport \in {"ws", "webrtc"}
  /\ peer \in {"none", "asking", "made", "open"}
  /\ shocks \in 0..MaxShocks

LEMMA Limits == FeedLimit \in Nat /\ HistoryLimit \in Nat /\ MaxAt \in Nat /\ MaxShocks \in Nat
BY ClientAssumption, Zenon DEF ClientAssumption

\* A sequence over S is one over any larger set.
LEMMA Widened ==
  ASSUME NEW S, NEW T, S \subseteq T, NEW seq \in Seq(S) PROVE seq \in Seq(T)
<1>1. seq \in [1..Len(seq) -> T] /\ Len(seq) \in Nat
  BY LenProperties
<1> QED
  BY <1>1, SMT

\* A slice is a sequence of the same elements, not longer than it was cut to.
LEMMA Sliced ==
  ASSUME NEW S, NEW seq \in Seq(S), NEW n \in Nat
  PROVE  Slice(seq, n) \in Seq(S) /\ Len(Slice(seq, n)) <= n
<1> DEFINE m == IF Len(seq) < n THEN Len(seq) ELSE n
<1>1. m \in Nat /\ m <= n /\ m <= Len(seq)
  BY LenProperties, SMT
<1>2. \A i \in 1..m : seq[i] \in S
  BY <1>1, LenProperties, ElementOfSeq, SMT
<1>3. SubSeq(seq, 1, m) \in Seq(S) /\ Len(SubSeq(seq, 1, m)) = IF 1 <= m THEN m - 1 + 1 ELSE 0
  <2>1. m \in Int /\ 1 \in Int
    BY <1>1, SMT
  <2> HIDE DEF m
  <2> QED
    BY <1>2, <2>1, SubSeqProperties
<1>4. Slice(seq, n) = SubSeq(seq, 1, m)
  BY Zenon DEF Slice
<1> HIDE DEF m
<1> QED
  BY <1>1, <1>3, <1>4, SMT

\* pushFeed keeps the feed within its limit.
LEMMA PushedFits ==
  ASSUME FeedInv, NEW at \in 0..MaxAt
  PROVE  Pushed(at) \in Seq(0..MaxAt) /\ Len(Pushed(at)) <= FeedLimit
<1>1. <<at>> \o feed \in Seq(0..MaxAt)
  BY ConcatProperties, SMT DEF FeedInv
<1> QED
  BY <1>1, Sliced, Limits, Zenon DEF Pushed

\* What the backend answers to a history request are rows of it.
LEMMA RecentFits ==
  ASSUME FeedInv PROVE Recent \in Seq(1..MaxAt)
<1>1. now \in Nat /\ \A i \in 1..now : now + 1 - i \in 1..MaxAt
  BY Limits, SMT DEF FeedInv
<1>2. [i \in 1..now |-> now + 1 - i] \in Seq(1..MaxAt)
  BY <1>1, SMT
<1> QED
  BY <1>2, Sliced, Limits, Zenon DEF Recent

LEMMA TypesInit == Init => FeedInv /\ LinkInv
<1> SUFFICES ASSUME Init PROVE FeedInv /\ LinkInv
  OBVIOUS
<1>1. /\ now = 0 /\ feed = <<>> /\ down = <<>> /\ asked = 0 /\ answers = <<>>
      /\ shocks = 0 /\ net \in BOOLEAN /\ served = FALSE /\ connected = FALSE
      /\ demo = FALSE /\ timer = FALSE /\ link = "none" /\ overlay = "empty"
      /\ transport \in {"ws", "webrtc"} /\ peer = "none"
  BY Zenon DEF Init
<1>2. FeedInv
  BY <1>1, Limits, SMT DEF FeedInv
<1>3. shocks \in 0..MaxShocks
  BY <1>1, Limits, SMT
<1> QED
  BY <1>1, <1>2, <1>3, Zenon DEF LinkInv

\* No handler breaks the type of the feed.
LEMMA FeedStep == FeedInv /\ [Next]_vars => FeedInv'
<1> SUFFICES ASSUME FeedInv, [Next]_vars PROVE FeedInv'
  OBVIOUS
<1>n. now \in 0..MaxAt /\ FeedLimit \in Nat /\ MaxAt \in Nat
  BY Limits, Zenon DEF FeedInv
<1>1. ASSUME NEW at \in 0..MaxAt, feed' \in {feed, Pushed(at)}, down' \in {down, <<>>},
             UNCHANGED <<now, asked, answers>>
      PROVE  FeedInv'
  <2>1. feed' \in Seq(0..MaxAt) /\ Len(feed') <= FeedLimit
    BY <1>1, PushedFits, Zenon DEF FeedInv
  <2>2. down' \in Seq(1..MaxAt)
    <3>1. <<>> \in Seq(1..MaxAt)
      BY SMT
    <3> QED
      BY <1>1, <3>1, Zenon DEF FeedInv
  <2> QED
    BY <1>1, <2>1, <2>2, Zenon DEF FeedInv
<1>2. CASE Connect \/ OnConnectError
  BY <1>1, <1>2, <1>n, Zenon DEF Connect, OnConnectError, EnableDemo, history
<1>3. CASE OnDisconnect \/ OnRefused \/ Disconnect \/ Retry \/ SendFrame \/ OnAck
  BY <1>1, <1>3, <1>n, Zenon
  DEF OnDisconnect, OnRefused, Disconnect, Retry, SendFrame, OnAck, LinkLost, history
<1>4. CASE OnStreamError \/ NetLost \/ NetBack \/ UNCHANGED vars
  BY <1>1, <1>4, <1>n, Zenon DEF OnStreamError, NetLost, NetBack, vars, history
<1>5. CASE OnConnect \/ LoadHistoryFails
  <2>1. asked' \in {asked + 1, asked - 1} /\ UNCHANGED <<feed, down, now, answers>>
    BY <1>5, Zenon DEF OnConnect, LoadHistoryFails
  <2>2. asked' \in Nat
    BY <1>5, SMT DEF OnConnect, LoadHistoryFails, FeedInv
  <2> QED
    BY <2>1, <2>2, Zenon DEF FeedInv
<1>6. CASE OnAnalysis
  <2>1. /\ down # <<>> /\ down' = Tail(down) /\ feed' = Pushed(Head(down))
        /\ UNCHANGED <<now, asked, answers>>
    BY <1>6, Zenon DEF OnAnalysis, Analysed, history
  <2>2. Head(down) \in 1..MaxAt /\ Tail(down) \in Seq(1..MaxAt)
    BY <2>1, HeadTailProperties, Zenon DEF FeedInv
  <2>3. Head(down) \in 0..MaxAt
    BY <2>2, <1>n, SMT
  <2>4. feed' \in Seq(0..MaxAt) /\ Len(feed') <= FeedLimit
    BY <2>1, <2>3, PushedFits, Zenon
  <2> QED
    BY <2>1, <2>2, <2>4, Zenon DEF FeedInv
<1>7. CASE StepDemo
  <2>1. PICK n \in 0..FeedLimit : feed' = Slice([i \in 1..n |-> now] \o feed, FeedLimit)
    BY <1>7, Zenon DEF StepDemo
  <2>2. n \in Nat
    BY <1>n, SMT
  <2>3. [i \in 1..n |-> now] \in Seq(0..MaxAt)
    BY <2>2, <1>n, SMT
  <2>4. [i \in 1..n |-> now] \o feed \in Seq(0..MaxAt)
    BY <2>3, ConcatProperties, Zenon DEF FeedInv
  <2>5. feed' \in Seq(0..MaxAt) /\ Len(feed') <= FeedLimit
    BY <2>1, <2>4, <1>n, Sliced, Zenon
  <2> QED
    BY <1>7, <2>5, Zenon DEF StepDemo, FeedInv, history
<1>8. ASSUME NEW i \in DOMAIN answers, LoadHistory(i) PROVE FeedInv'
  <2>1. /\ answers' = SubSeq(answers, 1, i - 1) \o SubSeq(answers, i + 1, Len(answers))
        /\ feed' = Slice(feed \o answers[i], FeedLimit) /\ UNCHANGED <<now, asked, down>>
    BY <1>8, Zenon DEF LoadHistory, Primed, RemoveAt
  <2>2. answers \in Seq(Seq(1..MaxAt)) /\ Len(answers) \in Nat /\ i \in 1..Len(answers)
    BY <1>8, LenProperties, Zenon DEF FeedInv
  <2>3. answers[i] \in Seq(1..MaxAt)
    BY <2>2, ElementOfSeq, Zenon
  <2>4. feed \o answers[i] \in Seq(0..MaxAt)
    <3>1. 1..MaxAt \subseteq 0..MaxAt
      BY <1>n, SMT
    <3>2. answers[i] \in Seq(0..MaxAt)
      BY <2>3, <3>1, Widened
    <3> QED
      BY <3>2, ConcatProperties, Zenon DEF FeedInv
  <2>5. feed' \in Seq(0..MaxAt) /\ Len(feed') <= FeedLimit
    BY <2>1, <2>4, <1>n, Sliced, Zenon
  <2>6. /\ SubSeq(answers, 1, i - 1) \in Seq(Seq(1..MaxAt))
        /\ SubSeq(answers, i + 1, Len(answers)) \in Seq(Seq(1..MaxAt))
    <3>1. /\ \A j \in 1..i - 1 : answers[j] \in Seq(1..MaxAt)
          /\ \A j \in i + 1..Len(answers) : answers[j] \in Seq(1..MaxAt)
      BY <2>2, ElementOfSeq, SMT
    <3>2. 1 \in Int /\ i - 1 \in Int /\ i + 1 \in Int /\ Len(answers) \in Int
      BY <2>2, SMT
    <3> QED
      BY <3>1, <3>2, SubSeqProperties
  <2>7. answers' \in Seq(Seq(1..MaxAt))
    BY <2>1, <2>6, ConcatProperties, Zenon
  <2> QED
    BY <2>1, <2>5, <2>7, Zenon DEF FeedInv
<1>9. CASE Answer
  <2>1. /\ asked > 0 /\ asked' = asked - 1 /\ answers' = Append(answers, Recent)
        /\ UNCHANGED <<now, feed, down>>
    BY <1>9, Zenon DEF Answer
  <2>2. answers' \in Seq(Seq(1..MaxAt))
    BY <2>1, RecentFits, AppendProperties, Zenon DEF FeedInv
  <2>3. asked' \in Nat
    BY <2>1, SMT DEF FeedInv
  <2> QED
    BY <2>1, <2>2, <2>3, Zenon DEF FeedInv
<1>10. CASE Report
  <2>1. /\ now < MaxAt /\ now' = now + 1 /\ down' \in {down, Append(down, now')}
        /\ UNCHANGED <<feed, asked, answers>>
    BY <1>10, Zenon DEF Report, history
  <2>2. now' \in 0..MaxAt /\ now' \in 1..MaxAt
    BY <2>1, <1>n, SMT
  <2>3. down' \in Seq(1..MaxAt)
    <3>1. Append(down, now') \in Seq(1..MaxAt)
      BY <2>2, AppendProperties, Zenon DEF FeedInv
    <3> QED
      BY <2>1, <3>1, Zenon DEF FeedInv
  <2> QED
    BY <2>1, <2>2, <2>3, Zenon DEF FeedInv
<1>11. CASE StartWebrtc \/ GotIceServers \/ ChannelOpens \/ PeerCloses \/ OnChannelAnalysis
  BY <1>1, <1>11, <1>n, Zenon
  DEF StartWebrtc, GotIceServers, ChannelOpens, PeerCloses, OnChannelAnalysis, Analysed, history
<1> QED
  BY <1>2, <1>3, <1>4, <1>5, <1>6, <1>7, <1>8, <1>9, <1>10, <1>11, Zenon DEF Next

\* No handler breaks the type of the link.
LEMMA LinkStep == LinkInv /\ [Next]_vars => LinkInv'
<1> SUFFICES ASSUME LinkInv, [Next]_vars PROVE LinkInv'
  OBVIOUS
<1> USE DEF LinkInv, demoState, webrtc
<1>1. ASSUME UNCHANGED <<net, link, served, connected, demo, timer, transport, shocks>>,
             peer' \in {"none", "asking", "made", "open"},
             overlay' \in {"empty", "live", "simulated"}
      PROVE  LinkInv'
  BY <1>1, Zenon
<1>2. ASSUME UNCHANGED <<net, overlay, transport, peer, shocks>>,
             link' \in {"none", "opening", "open", "waiting", "dead"},
             served' \in BOOLEAN, connected' \in BOOLEAN, demo' \in BOOLEAN, timer' \in BOOLEAN
      PROVE  LinkInv'
  BY <1>2, Zenon
<1>3. CASE Connect
  <2>1. /\ shocks < MaxShocks /\ shocks' = shocks + 1 /\ link' \in {"none", "opening"}
        /\ demo' \in BOOLEAN /\ timer' \in BOOLEAN
        /\ UNCHANGED <<net, served, connected, overlay, transport, peer>>
    BY <1>3, Zenon DEF Connect, EnableDemo
  <2>2. shocks' \in 0..MaxShocks
    BY <2>1, Limits, SMT
  <2> QED
    BY <2>1, <2>2, Zenon
<1>4. CASE NetLost
  <2>1. /\ shocks < MaxShocks /\ shocks' = shocks + 1 /\ net' = FALSE
        /\ UNCHANGED <<link, served, connected, demo, timer, overlay, transport, peer>>
    BY <1>4, Zenon DEF NetLost
  <2>2. shocks' \in 0..MaxShocks
    BY <2>1, Limits, SMT
  <2> QED
    BY <2>1, <2>2, Zenon
<1>5. CASE OnConnect \/ OnDisconnect \/ OnRefused \/ Retry
  BY <1>2, <1>5, Zenon DEF OnConnect, OnDisconnect, OnRefused, Retry
<1>6. CASE OnConnectError
  BY <1>2, <1>6, Zenon DEF OnConnectError, EnableDemo
<1>7. CASE Disconnect
  BY <1>7, Zenon DEF Disconnect, StopWebrtc
<1>8. CASE SendFrame \/ OnAck \/ OnAnalysis \/ OnStreamError \/ StepDemo
  BY <1>1, <1>8, Zenon DEF SendFrame, OnAck, OnAnalysis, Analysed, OnStreamError, StepDemo
<1>9. CASE (\E i \in DOMAIN answers : LoadHistory(i)) \/ LoadHistoryFails
  BY <1>1, <1>9, Zenon DEF LoadHistory, LoadHistoryFails
<1>10. CASE Answer \/ Report \/ UNCHANGED vars
  BY <1>1, <1>10, Zenon DEF Answer, Report, vars
<1>11. CASE NetBack
  BY <1>11, Zenon DEF NetBack
<1>12. CASE StartWebrtc \/ GotIceServers \/ ChannelOpens \/ PeerCloses \/ OnChannelAnalysis
  BY <1>1, <1>12, Zenon
  DEF StartWebrtc, GotIceServers, ChannelOpens, PeerCloses, StopWebrtc, OnChannelAnalysis,
      Analysed
<1> QED
  BY <1>3, <1>4, <1>5, <1>6, <1>7, <1>8, <1>9, <1>10, <1>11, <1>12, Zenon DEF Next

\* A page that is ready is always one of the form, a link, the demo and the
\* end of those the backend has refused, and never two of them; on a page that
\* knows that a token is required, the form is there exactly for want of one
\* (app.component.ts:178-211).
THEOREM FormShown == BSpec => []FormOrLink
<1>1. BInit => FormInv /\ StatusInv /\ LinkInv
  <2> SUFFICES ASSUME BInit PROVE FormInv /\ StatusInv /\ LinkInv
    OBVIOUS
  <2>1. StatusInv /\ LinkInv
    BY StatusInit, TypesInit, Zenon DEF BInit
  <2>2. FormInv
    BY Zenon DEF BInit, Init, FormInv, NoLink
  <2> QED
    BY <2>1, <2>2
<1>2. StatusInv /\ LinkInv /\ Reload => StatusInv' /\ LinkInv'
  BY Zenon DEF StatusInv, StatusHonest, LinkInv, Reload
<1>3. FormInv /\ StatusInv /\ LinkInv => FormOrLink
  <2> SUFFICES ASSUME FormInv, StatusInv, LinkInv PROVE FormOrLink
    OBVIOUS
  <2>1. page = "checking" => Faces = {}
    BY Zenon DEF FormInv, NoLink, Faces
  <2>2. ASSUME page = "ready" PROVE \E face \in Faces : Faces = {face}
    <3>1. CASE showLogin
      <4>1. link = "none" /\ ~demo
        BY <2>2, <3>1, Zenon DEF FormInv, NoLink
      <4>2. Faces = {"form"}
        BY <3>1, <4>1, SMT DEF Faces
      <4> QED
        BY <4>2, Zenon
    <3>2. CASE demo
      <4>1. link = "none" /\ ~showLogin
        BY <2>2, <3>2, Zenon DEF FormInv, NoLink, StatusInv, StatusHonest
      <4>2. Faces = {"demo"}
        BY <3>2, <4>1, SMT DEF Faces
      <4> QED
        BY <4>2, Zenon
    <3>3. CASE ~showLogin /\ ~demo
      <4>1. link # "none"
        BY <2>2, <3>3, Zenon DEF FormInv, NoLink
      <4>2. link \in {"opening", "open", "waiting"} \/ link = "dead"
        BY <4>1, Zenon DEF LinkInv
      <4>3. Faces = {"live"} \/ Faces = {"refused"}
        BY <3>3, <4>2, SMT DEF Faces
      <4> QED
        BY <4>3, Zenon
    <3> QED
      BY <3>1, <3>2, <3>3
  <2> QED
    BY <2>1, <2>2, Zenon DEF FormInv, FormOrLink
<1> QED
  BY <1>1, <1>2, <1>3, FormStep, StatusStep, LinkStep, ClientSteps, PTL DEF BSpec

LEMMA TypesAre == CreditInv /\ FeedInv /\ LinkInv => TypeOK
BY Zenon DEF CreditInv, FeedInv, LinkInv, TypeOK

-----------------------------------------------------------------------------
\* What the page, its tokens and the accounts may be.
Tokens == {c.secret : c \in Confs} \cup {None, Expired}

PageInv ==
  /\ page \in {"checking", "ready"} /\ loads \in 1..MaxLoads
  /\ authRequired \in BOOLEAN /\ user \in BOOLEAN /\ showLogin \in BOOLEAN
  /\ submitting \in BOOLEAN /\ admitted \in BOOLEAN
  /\ token \in Tokens /\ handshake \in Tokens
  /\ conf \in Confs /\ up \in BOOLEAN /\ repo \in BOOLEAN
  /\ starts \in 0..MaxStarts

\* No step of the page, nor of the backend, breaks their type.
LEMMA PageStep == PageInv /\ [BNext]_bvars => PageInv'
<1> SUFFICES ASSUME PageInv, [BNext]_bvars PROVE PageInv'
  OBVIOUS
<1> USE DEF PageInv, accounts, form, session
<1>1. ASSUME NEW t \in Tokens, StartConnection(t)
      PROVE  handshake' \in Tokens /\ admitted' \in BOOLEAN
  BY <1>1, Zenon DEF StartConnection
<1>2. ASSUME NEW r \in BOOLEAN, Checked(r) PROVE PageInv'
  <2>1. /\ page' = "ready" /\ authRequired' = r
        /\ UNCHANGED <<accounts, loads, user, token, submitting>>
    BY <1>2, Zenon DEF Checked
  <2>2. showLogin' \in BOOLEAN /\ handshake' \in Tokens /\ admitted' \in BOOLEAN
    BY <1>1, <1>2, Zenon DEF Checked
  <2> QED
    BY <2>1, <2>2, Zenon
<1>3. CASE StatusAnswered \/ StatusFails
  <2>1. B!AuthRequired \in BOOLEAN
    BY Zenon DEF B!AuthRequired
  <2> QED
    BY <1>2, <1>3, <2>1, Zenon DEF StatusAnswered, StatusFails
<1>4. CASE LoggedIn
  <2>1. PICK password \in B!Passwords : B!Login(password) # None /\ token' = B!Login(password)
    BY <1>4, Zenon DEF LoggedIn
  <2>2. token' = conf.secret
    BY <2>1, Zenon DEF B!Login
  <2>3. token' \in Tokens
    BY <2>2, Zenon DEF Tokens
  <2>4. /\ user' = TRUE /\ showLogin' = FALSE /\ submitting' = FALSE
        /\ StartConnection(token') /\ UNCHANGED <<accounts, page, loads, authRequired>>
    BY <1>4, Zenon DEF LoggedIn
  <2>5. handshake' \in Tokens /\ admitted' \in BOOLEAN
    BY <1>1, <2>3, <2>4, Zenon
  <2> QED
    BY <2>3, <2>4, <2>5, Zenon
<1>5. CASE SubmitLogin \/ LoginFails
  BY <1>5, Zenon DEF SubmitLogin, LoginFails
<1>6. CASE Logout
  BY <1>6, Zenon DEF Logout, Tokens
<1>7. CASE Reload
  <2>1. loads' \in 1..MaxLoads
    BY <1>7, BrowserAssumption, SMT DEF Reload, BrowserAssumption
  <2> QED
    BY <1>7, <2>1, Zenon DEF Reload
<1>8. CASE TokenExpires
  <2>1. /\ token' = Expired /\ handshake' \in {handshake, Expired}
        /\ UNCHANGED <<accounts, page, loads, authRequired, user, showLogin, submitting,
                       admitted>>
    BY <1>8, Zenon DEF TokenExpires
  <2> QED
    BY <2>1, Zenon DEF Tokens
<1>9. CASE Connected
  BY <1>9, Zenon DEF Connected, B!Verify, B!AuthRequired
<1>10. CASE Alone \/ UNCHANGED bvars
  BY <1>10, Zenon DEF Alone, bvars
<1>11. CASE Backend
  <2>1. /\ conf' \in Confs /\ up' \in BOOLEAN /\ repo' \in BOOLEAN
        /\ starts' = starts \/ (starts < MaxStarts /\ starts' = starts + 1)
    BY <1>11, Zenon
    DEF Backend, B!ANext, B!Start, B!StartFails, B!Stop, B!StartWithDatabase,
        B!StartInMemory, B!StartOpen
  <2>2. starts' \in 0..MaxStarts
    BY <2>1, BrowserAssumption, SMT DEF BrowserAssumption
  <2> QED
    BY <1>11, <2>1, <2>2, Zenon DEF Backend
<1> QED
  BY <1>3, <1>4, <1>5, <1>6, <1>7, <1>8, <1>9, <1>10, <1>11, Zenon DEF BNext

\* For every limit and any number of losses, reloads and restarts, every piece
\* of state has its type: above all, the feed keeps its limit and the credits
\* theirs (vision.service.ts:292-345), and every token that is kept or sent
\* was signed with a secret of a configuration (auth.service.ts:88-115).
THEOREM PageTyped == BSpec => []BTypeOK
<1>1. BInit => CreditInv /\ FeedInv /\ LinkInv /\ PageInv /\ AccountsInv
  <2> SUFFICES ASSUME BInit PROVE CreditInv /\ FeedInv /\ LinkInv /\ PageInv /\ AccountsInv
    OBVIOUS
  <2>1. CreditInv /\ FeedInv /\ LinkInv
    BY CreditInit, TypesInit, Zenon DEF BInit
  <2>2. loads \in 1..MaxLoads /\ starts \in 0..MaxStarts
    BY BrowserAssumption, SMT DEF BrowserAssumption, BInit, B!AInit
  <2>3. PageInv
    BY <2>2, Zenon DEF BInit, B!AInit, PageInv, Tokens
  <2> QED
    BY <2>1, <2>3, AccountsInit
<1>2. CreditInv /\ FeedInv /\ LinkInv /\ Reload => CreditInv' /\ FeedInv' /\ LinkInv'
  <2> SUFFICES ASSUME CreditInv, FeedInv, LinkInv, Reload
               PROVE  CreditInv' /\ FeedInv' /\ LinkInv'
    OBVIOUS
  <2>1. CreditInv'
    BY LimitIsNat, SMT DEF CreditInv, CreditsExact, Reload, LinkLost
  <2>2. FeedInv'
    BY Limits, SMT DEF FeedInv, Reload, LinkLost
  <2>3. LinkInv'
    BY Zenon DEF LinkInv, Reload
  <2> QED
    BY <2>1, <2>2, <2>3
<1>3. CreditInv /\ FeedInv /\ LinkInv /\ PageInv /\ AccountsInv => BTypeOK
  <2> SUFFICES ASSUME CreditInv, FeedInv, LinkInv, PageInv, AccountsInv PROVE BTypeOK
    OBVIOUS
  <2>1. dbUser \in B!Passwords \cup {None}
    BY SMT DEF AccountsInv
  <2>2. B!AccountsTypeOK
    BY <2>1, Zenon DEF PageInv, AccountsInv, B!AccountsTypeOK
  <2> QED
    BY <2>2, TypesAre, Zenon DEF BTypeOK, PageInv, Tokens
<1> QED
  BY <1>1, <1>2, <1>3, CreditStep, FeedStep, LinkStep, PageStep, AccountsStep, ClientSteps,
     PTL DEF BSpec
=============================================================================
