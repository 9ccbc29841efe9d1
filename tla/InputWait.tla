----------------------------- MODULE InputWait -----------------------------
(***************************************************************************)
(* How long a netplay peer waits for remote inputs: the poll loop at the   *)
(* end of DllMain::frameStepNormal with its resend timer, its count of     *)
(* polls without data and the ways it has of giving up.  The state is      *)
(* CharaSelect or InGame, where inputs and the host's RngState are waited  *)
(* for.                                                                    *)
(*                                                                         *)
(* Time passes in the poll only: EventManager::poll returns after its      *)
(* whole timeout.  Times are in milliseconds.                              *)
(***************************************************************************)
EXTENDS Integers

CONSTANTS
    PollTimeout,              \* POLL_TIMEOUT, 3 in the code
    ResendInputsInterval,     \* RESEND_INPUTS_INTERVAL, 100 in the code
    MaxWaitInputsInterval,    \* MAX_WAIT_INPUTS_INTERVAL, 10000 in the code
    DisconnectTimeoutFrames   \* DISCONNECT_TIMEOUT_FRAMES, 600 in the code

ASSUME IntervalAssumption ==
    /\ PollTimeout \in Nat \ {0} /\ ResendInputsInterval \in Nat \ {0}
    /\ MaxWaitInputsInterval \in Nat /\ DisconnectTimeoutFrames \in Nat \ {0}
    /\ PollTimeout <= ResendInputsInterval

VARIABLES
    waiting,             \* in the poll loop
    connected,           \* dataSocket->isConnected()
    disconnected,        \* netMan._disconnected, which makes inputs count as ready
    rngMissing,          \* shouldSyncRngState, and the client has no RngState yet;
                         \* never on the host, which makes its own
    isDisconnecting,     \* a timeout was noted
    framesWithoutData,   \* polls that ended without the inputs
    resendTimer,         \* time to its expiry, NoTimer if there is no timer
    waitInputsTimer,     \* resends of this wait, -1 when not waiting
    stopped,             \* delayedStop was executed
    sinceSent            \* time since the local inputs were sent

waitVars == <<waiting, connected, disconnected, rngMissing, isDisconnecting, framesWithoutData,
          resendTimer, waitInputsTimer, stopped, sinceSent>>

NoTimer == -1

InitWait ==
    /\ waiting = FALSE /\ connected = TRUE
    /\ disconnected = FALSE /\ rngMissing = FALSE /\ isDisconnecting = FALSE
    /\ framesWithoutData = 0 /\ resendTimer = NoTimer /\ waitInputsTimer = -1
    /\ stopped = FALSE /\ sinceSent = 0

\* frameStepNormal sends the local inputs and enters the poll loop; a client may
\* have come to a state that wants an RngState, with or without a connection
BeginFrame ==
    /\ ~waiting /\ ~stopped
    /\ waiting' = TRUE /\ sinceSent' = 0
    /\ rngMissing' \in BOOLEAN
    /\ UNCHANGED <<connected, disconnected, isDisconnecting, framesWithoutData,
                   resendTimer, waitInputsTimer, stopped>>

\* Wrong: the inputs are resent only once
ResendsOnce == resendTimer # NoTimer /\ resendTimer <= PollTimeout /\ waitInputsTimer = 0

\* the resend timer expires within this poll
Resends == resendTimer # NoTimer /\ resendTimer <= PollTimeout

\* Wrong: a lost connection keeps the game from closing, as a noted timeout does
GivesUpConnected ==
    /\ waitInputsTimer + 1 > MaxWaitInputsInterval \div ResendInputsInterval
    /\ ~disconnected

\* timerExpired: the wait is too long, delayedStop ( "Timed out!" ), which does
\* nothing once a timeout was noted
GivesUp ==
    /\ waitInputsTimer + 1 > MaxWaitInputsInterval \div ResendInputsInterval
    /\ ~isDisconnecting

\* EventManager::poll: time passes and the resend timer may expire
Poll(timer, resends) ==
    /\ sinceSent' = IF Resends THEN PollTimeout - resendTimer ELSE sinceSent + PollTimeout
    /\ stopped' = (stopped \/ (Resends /\ GivesUp))
    /\ resendTimer' = timer /\ waitInputsTimer' = resends

\* the timer and its count after a poll; beyond the limit the count says no more
TimerAfter ==
    IF resendTimer = NoTimer THEN NoTimer
    ELSE IF Resends THEN ResendInputsInterval - (PollTimeout - resendTimer)
    ELSE resendTimer - PollTimeout
ResendsAfter ==
    IF Resends /\ waitInputsTimer <= MaxWaitInputsInterval \div ResendInputsInterval
    THEN waitInputsTimer + 1 ELSE waitInputsTimer

\* What is waited for is not waited for any more.  A client that has lost its
\* host stays in the mode Client (isF1Active is set on every client, and
\* restoreOfflineGameMode skipped): it goes on waiting for the RngState.
ReadyWithoutData == disconnected /\ ~rngMissing

\* a poll after which everything is there
PollReady ==
    /\ waiting /\ ~stopped /\ (ReadyWithoutData \/ connected)
    /\ waiting' = FALSE /\ rngMissing' = FALSE
    /\ framesWithoutData' = 0
    /\ Poll(NoTimer, -1)
    /\ UNCHANGED <<connected, disconnected, isDisconnecting>>

\* Wrong: the count of polls without data starts again with every resend
WithoutDataRestarting(count) == IF Resends THEN 0 ELSE count + 1

\* the count of polls without data; beyond the limit it says no more
WithoutData(count) == IF count < DisconnectTimeoutFrames THEN count + 1 ELSE count

\* the polls without data are too many for a connected socket
TimesOut ==
    connected /\ WithoutData(framesWithoutData) >= DisconnectTimeoutFrames /\ ~isDisconnecting

\* a poll after which something is missing; the first one starts the timer
PollEmpty ==
    /\ waiting /\ ~stopped /\ ~ReadyWithoutData /\ ~TimesOut
    /\ framesWithoutData' = IF connected THEN WithoutData(framesWithoutData) ELSE framesWithoutData
    /\ IF resendTimer = NoTimer THEN Poll(ResendInputsInterval, 0) ELSE Poll(TimerAfter, ResendsAfter)
    /\ UNCHANGED <<waiting, connected, disconnected, rngMissing, isDisconnecting>>

\* the same, and it was one too many: the frame goes on without data, after which
\* no RngState is wanted any more
PollTimedOut ==
    /\ waiting /\ ~stopped /\ ~ReadyWithoutData /\ TimesOut
    /\ framesWithoutData' = WithoutData(framesWithoutData)
    /\ isDisconnecting' = TRUE /\ disconnected' = TRUE
    /\ waiting' = FALSE /\ rngMissing' = FALSE
    /\ Poll(TimerAfter, ResendsAfter)
    /\ UNCHANGED connected

\* socketDisconnected, called back within a poll: the data socket is gone
SocketDisconnected ==
    /\ waiting /\ ~stopped /\ connected
    /\ connected' = FALSE /\ disconnected' = TRUE
    /\ UNCHANGED <<waiting, rngMissing, isDisconnecting, framesWithoutData, resendTimer,
                   waitInputsTimer, stopped, sinceSent>>

NextWait == BeginFrame \/ PollReady \/ PollEmpty \/ PollTimedOut \/ SocketDisconnected

WaitSpec == InitWait /\ [][NextWait]_waitVars

\* The poll loop runs for as long as the peer waits.
LiveWaitSpec == WaitSpec /\ WF_waitVars(PollReady \/ PollEmpty \/ PollTimedOut)

(***************************************************************************)
(* Properties                                                              *)
(***************************************************************************)
\* A waiting peer repeats its inputs in time: both peers may be waiting because
\* each lost the other's last packet.
ResentInTime == waiting => sinceSent <= ResendInputsInterval + PollTimeout

\* While the socket is connected the game is never closed for waiting: the wait
\* is broken off, and the game goes on alone, before "Timed out!" is reached.
ConnectedIsNotStopped == [][stopped' /\ ~stopped => ~connected]_waitVars

\* A wait ends: what was waited for comes, the polls without data are too many, or
\* the resends are and the game is closed, whichever of them the loss of the
\* connection leaves.  Only a client that goes on after a noted timeout and then wants
\* an RngState has none of the three left.
WaitEnds == waiting /\ ~(isDisconnecting /\ rngMissing) ~> ~waiting \/ stopped
=============================================================================
