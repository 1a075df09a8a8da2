----------------------------- MODULE TimedClose -----------------------------
(***************************************************************************)
(* Close with the seconds counted, on a network that is prompt, and as it  *)
(* is on any other.  The Select of ActiveClose waits two seconds, the      *)
(* Select of PassiveClose three, and both start again at every turn of     *)
(* their loops.  On a prompt network a datagram that is not lost arrives   *)
(* in its turn within the second in which it was sent, and a process that  *)
(* need not wait acts at once; so time passes only when neither is left to *)
(* do.  On any other a datagram may be late or overtaken, and a Select runs*)
(* into its time limit at any time.                                        *)
(***************************************************************************)
EXTENDS Close

CONSTANTS
  ActiveWait, \* seconds in the timeout of ActiveClose
  PassiveWait \* seconds in the timeout of PassiveClose

ASSUME WaitAssumption == ActiveWait \in Nat \ {0} /\ PassiveWait \in Nat \ {0}

VARIABLES
  prompt,      \* the network is prompt, from the beginning to the end
  activeClock, \* seconds that the Select of ActiveClose still waits
  passiveClock \* the same of PassiveClose

timedVars == <<vars, prompt, activeClock, passiveClock>>

TimedInit ==
  /\ Init
  /\ prompt \in BOOLEAN
  /\ activeClock = ActiveWait /\ passiveClock = PassiveWait

(* Every step of a process leaves its clock set for the next Select.       *)
TimedActiveClose ==
  /\ ActiveClose
  /\ ActiveTimeout => ~prompt \/ activeClock = 0
  /\ activeClock' = ActiveWait
  /\ UNCHANGED <<prompt, passiveClock>>

TimedPassiveClose ==
  /\ PassiveClose
  /\ PassiveTimeout => ~prompt \/ passiveClock = 0
  /\ passiveClock' = PassiveWait
  /\ UNCHANGED <<prompt, activeClock>>

TimedExits == Exits /\ UNCHANGED <<prompt, activeClock, passiveClock>>

OutOfTurn ==
  /\ ~prompt
  /\ NetworkReorders
  /\ UNCHANGED <<prompt, activeClock, passiveClock>>

(* One second less for each process that waits in its Select.              *)
SecondsLeft(clock, waiting) == IF waiting THEN clock - 1 ELSE clock

Tick ==
  /\ prompt
  /\ toClient = << >> /\ toServer = << >>
  /\ \/ closer = "waiting" /\ activeClock > 0
     \/ closer \in ActiveEnds
  /\ \/ passive = "reading"
     \/ passive = "waiting" /\ passiveClock > 0
     \/ passive \in PassiveEnds
  /\ activeClock' = SecondsLeft(activeClock, closer = "waiting")
  /\ passiveClock' = SecondsLeft(passiveClock, passive = "waiting")
  /\ UNCHANGED <<vars, prompt>>

TimedNext ==
  TimedActiveClose \/ TimedPassiveClose \/ TimedExits \/ OutOfTurn \/ Tick

TimedSpec == TimedInit /\ [][TimedNext]_timedVars

(* Both processes are scheduled, and time passes.                          *)
FairTimed ==
  /\ TimedSpec
  /\ WF_timedVars(TimedActiveClose) /\ WF_timedVars(TimedPassiveClose)
  /\ WF_timedVars(TimedExits) /\ WF_timedVars(Tick)
-----------------------------------------------------------------------------
(* TIME_WAIT is long enough: on a prompt network PassiveClose never repeats*)
(* its ACK and FIN to a client that has already left TIME_WAIT, whichever  *)
(* of them are lost.                                                       *)
TimeWaitCoversRetries ==
  [][prompt /\ (ReplyAck \/ ReplyFin) => closer # "closed"]_timedVars

(* With the values of the code this is 3 < 4.                              *)
TimeWaitLongEnough == (PassiveRetries - 1) * PassiveWait < TwoMSL * ActiveWait

(* Why it then is: when the client enters TIME_WAIT, PassiveClose has just *)
(* replied or will at once, and from then on what is left of its retries   *)
(* runs out before what is left of TIME_WAIT.                              *)
ClocksRun ==
  /\ prompt \in BOOLEAN
  /\ activeClock \in 0 .. ActiveWait /\ passiveClock \in 0 .. PassiveWait

SegmentsFirst ==
  \A k \in 1 .. Len(toClient) :
    \/ toClient[k].number \in {FIN_REQUEST, ACK_REQUEST}
    \/ k = 1 /\ currentState = "FIN_WAIT1"

TimeWaitWhole ==
  /\ currentState # "TIME_WAIT" => twoMSL = TwoMSL /\ closer # "closed"
  /\ currentState = "TIME_WAIT" => closer # "starting"

NothingReadYet == passive \in {"reading", "ignored"} => ~finRead

(* Something is on its way that PassiveClose will reply to.                *)
ReplyDue == \E k \in 1 .. Len(toServer) : ~IsAck(toServer[k])

SecondsToClose == IF closer = "closed" THEN 0 ELSE activeClock + (twoMSL - 1) * ActiveWait

LastReplyInTime ==
  currentState = "TIME_WAIT" /\ closer \in {"waiting", "closed"} =>
    /\ ReplyDue => closer = "waiting" /\ twoMSL = TwoMSL /\ activeClock = ActiveWait
    /\ passive \in {"replying", "replied"} =>
         (serverRetry - 1) * PassiveWait < SecondsToClose
    /\ passive = "waiting" /\ serverRetry > 1 =>
         passiveClock + (serverRetry - 2) * PassiveWait < SecondsToClose

InStep == SegmentsFirst /\ TimeWaitWhole /\ NothingReadYet /\ LastReplyInTime

TimedInv == Inv /\ ClocksRun /\ (prompt => InStep)
=============================================================================
