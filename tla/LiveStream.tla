------------------------------ MODULE LiveStream ------------------------------
(***************************************************************************)
(* A live camera from end to end: the sender of the browser (sendFrame,    *)
(* one credit per frame under way), the gateway, and the AI service at the *)
(* other end of the call.  The acknowledgement that gives a credit back is *)
(* sent by handleFrame when it has written the frame, not when the frame   *)
(* is analysed.  The gateway and the AI service are those of StreamGateway;*)
(* each socket is a connection of its own, so a reconnecting browser is    *)
(* another socket here (VisionClient has the reconnection).                *)
(***************************************************************************)
EXTENDS StreamGateway

CONSTANT MaxInFlight   \* VisionService.MAX_IN_FLIGHT

ASSUME LiveAssumption == MaxInFlight \in Nat \ {0}

VARIABLES
  inFlight,   \* VisionService.inFlight, for each socket
  wire,       \* frames emitted by the browser, not yet at the gateway
  acks        \* acknowledgements on their way back

browser == <<inFlight, wire, acks>>
lvars == <<vars, browser>>

LInit ==
  /\ Init
  /\ inFlight = [s \in Sockets |-> 0]
  /\ wire = [s \in Sockets |-> 0]
  /\ acks = [s \in Sockets |-> 0]

\* Mutant: one more frame than there are credits.
HasCreditOneMore(s) == inFlight[s] <= MaxInFlight

HasCredit(s) == inFlight[s] < MaxInFlight

\* sendFrame.
Send(s) ==
  /\ conn[s] = "open" /\ HasCredit(s)
  /\ inFlight' = [inFlight EXCEPT ![s] = @ + 1]
  /\ wire' = [wire EXCEPT ![s] = @ + 1]
  /\ UNCHANGED <<vars, acks>>

\* Mutant: a frame whose call is over is not acknowledged.
AckedIfServed(s) == IF call[s] = "open" THEN [acks EXCEPT ![s] = @ + 1] ELSE acks

Acked(s) == [acks EXCEPT ![s] = @ + 1]

\* handleFrame, and the acknowledgement its return value makes.
Accept(s) ==
  /\ wire[s] > 0
  /\ Frame(s)
  /\ wire' = [wire EXCEPT ![s] = @ - 1]
  /\ acks' = Acked(s)
  /\ UNCHANGED inFlight

\* The browser gets an acknowledgement.
Credit(s) ==
  /\ conn[s] = "open" /\ acks[s] > 0
  /\ acks' = [acks EXCEPT ![s] = @ - 1]
  /\ inFlight' = [inFlight EXCEPT ![s] = IF @ > 0 THEN @ - 1 ELSE 0]
  /\ UNCHANGED <<vars, wire>>

\* What the other actions of the gateway leave to the browser.
Gateway(s) ==
  /\ Connect(s) \/ Refuse(s) \/ Disconnect(s) \/ Deliver(s) \/ Serve(s) \/ AiLost(s)
  /\ UNCHANGED browser

LNext ==
  \/ \E s \in Sockets : Send(s) \/ Accept(s) \/ Credit(s) \/ Gateway(s)
  \/ (\E x \in Sockets \X Frames : SaveDone(x) \/ SaveFails(x)) /\ UNCHANGED browser

\* As in StreamGateway, and the connection carries what is on it.
LFairness ==
  \A s \in Sockets :
    /\ WF_lvars(Serve(s) /\ UNCHANGED browser)
    /\ WF_lvars(Deliver(s) /\ UNCHANGED browser)
    /\ WF_lvars(Accept(s)) /\ WF_lvars(Credit(s))

LSpec == LInit /\ [][LNext]_lvars /\ LFairness

-----------------------------------------------------------------------------
\* A credit in use is a frame or an acknowledgement that is really on the
\* connection, even when the AI call is over (vision.service.ts:303-320,
\* stream.gateway.ts:144-153).
CreditsOnTheWire ==
  \A s \in Sockets : conn[s] = "open" =>
    /\ inFlight[s] = wire[s] + acks[s]
    /\ inFlight[s] <= MaxInFlight

\* A browser never stops for want of credits: they come back as long as the
\* connection lives and the bound on frames is not met, the AI call being
\* over or not (vision.service.ts:303-320).
SendingResumes ==
  \A s \in Sockets :
    inFlight[s] = MaxInFlight ~>
      \/ inFlight[s] < MaxInFlight
      \/ conn[s] = "closed"
      \/ sent[s] = MaxFrames
=============================================================================
