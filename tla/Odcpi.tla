-------------------------------- MODULE Odcpi --------------------------------
(***************************************************************************)
(* On-demand coarse position injection of GnssAdapter                      *)
(* (gps/gnss/GnssAdapter.cpp): the modem starts and stops requests, the    *)
(* adapter passes them to the handler that has registered with the highest *)
(* priority, and a timer keeps the requests apart and renews the one that  *)
(* is still wanted.  The timer expires in the LocTimer thread and comes    *)
(* back as a message, behind those already in the adapter's queue.         *)
(***************************************************************************)
EXTENDS Integers, Sequences

CONSTANTS
    Handlers,    \* priorities of the handlers that may register, from 1 on
    Period,      \* ODCPI_EXPECTED_INJECTION_TIME_MS
    MaxTime,     \* bound: requests are made until then
    MaxQueue,    \* bound: the modem acts only while msgQ is shorter
    MaxRestarts  \* bound: engine restarts

ASSUME HandlersAssumption == Handlers \subseteq Nat \ {0}
ASSUME PeriodAssumption == Period \in Nat \ {0}

VARIABLES
    now,
    handler,     \* mOdcpiRequestCb and mCallbackPriority: 0 before the first
    active,      \* mOdcpiRequestActive
    emergency,   \* mOdcpiRequest.isEmergencyMode
    timerFlag,   \* OdcpiTimer::mActive
    due,         \* the LocTimer: its expiration as a set, empty when stopped
    msgQ,
    modem,       \* the request the modem has running
    on,          \* handlers that have been sent a start and no stop since
    lastStart,   \* when the last start was sent, as a set
    hurried,     \* that start came less than Period after the one before,
                 \* and not because an emergency replaced it
    restarts

adapterVars == <<handler, active, emergency, timerFlag>>
sentVars == <<on, lastStart, hurried>>
vars == <<now, adapterVars, due, msgQ, modem, sentVars, restarts>>

Modes == {"normal", "emergency"}

Init ==
    /\ now = 0 /\ handler = 0
    /\ active = FALSE /\ emergency = FALSE
    /\ timerFlag = FALSE /\ due = {}
    /\ msgQ = <<>> /\ modem = "none"
    /\ on = {} /\ lastStart = {} /\ hurried = FALSE
    /\ restarts = 0

-----------------------------------------------------------------------------
(* The adapter's handlers. *)

Arrived(kind) == msgQ # <<>> /\ Head(msgQ).m = kind /\ msgQ' = Tail(msgQ)

NoHandler == handler = 0

\* mOdcpiRequestCb with a start; urgent when an emergency replaces a request.
SendStart(urgent) ==
    /\ on' = on \cup {handler}
    /\ lastStart' = {now}
    /\ hurried' = (~urgent /\ \E t \in lastStart : now < t + Period)

\* OdcpiTimer::start, on a LocTimer that goes on if it is running.
timerStart == /\ timerFlag' = TRUE
              /\ due' = IF due = {} THEN {now + Period} ELSE due

\* Mutant: the timer that has expired is not started again.
timerResume == timerFlag' = TRUE /\ UNCHANGED due

timerRestart == timerFlag' = TRUE /\ due' = {now + Period}

\* Mutant: mActive stays set.
timerEnd == UNCHANGED timerFlag /\ due' = {}

timerStop == timerFlag' = FALSE /\ due' = {}

\* requestOdcpi with a start.
ProcStart ==
    /\ Arrived("start")
    /\ LET e == Head(msgQ).mode = "emergency"
       IN  IF NoHandler THEN UNCHANGED <<adapterVars, due, sentVars>>
           ELSE /\ emergency' = e
                /\ active' = TRUE
                /\ UNCHANGED handler
                /\ \/ /\ ~active /\ ~timerFlag
                      /\ SendStart(FALSE) /\ timerStart
                   \/ /\ active \/ timerFlag
                      /\ ~emergency /\ e
                      /\ SendStart(TRUE)
                      /\ IF timerFlag THEN timerRestart ELSE timerStart
                   \/ /\ active \/ timerFlag
                      /\ emergency \/ ~e
                      /\ UNCHANGED <<sentVars, timerFlag, due>>
    /\ UNCHANGED <<now, modem, restarts>>

\* Mutant: the request stays active.
ProcStopSent ==
    /\ Arrived("stop")
    /\ on' = on \ {handler}
    /\ UNCHANGED <<now, adapterVars, due, modem, lastStart, hurried, restarts>>

\* requestOdcpi with a stop: the timer goes on.
ProcStop ==
    /\ Arrived("stop")
    /\ IF NoHandler THEN UNCHANGED <<active, sentVars>>
       ELSE active' = FALSE /\ on' = on \ {handler} /\ UNCHANGED <<lastStart, hurried>>
    /\ UNCHANGED <<now, handler, emergency, timerFlag, due, modem, restarts>>

odcpiTimerExpire ==
    /\ Arrived("expire")
    /\ IF active THEN SendStart(FALSE) /\ timerRestart
       ELSE timerStop /\ UNCHANGED sentVars
    /\ UNCHANGED <<now, handler, active, emergency, modem, restarts>>

initOdcpi ==
    /\ Arrived("init")
    /\ handler' = IF Head(msgQ).p >= handler THEN Head(msgQ).p ELSE handler
    /\ UNCHANGED <<now, active, emergency, timerFlag, due, modem, sentVars,
                   restarts>>

\* restartSessions after the engine has come up again.
ProcEngineUp ==
    /\ Arrived("engineUp")
    /\ active' = FALSE
    /\ UNCHANGED <<now, handler, emergency, timerFlag, due, modem, sentVars,
                   restarts>>

Proc == ProcStart \/ ProcStop \/ odcpiTimerExpire \/ initOdcpi \/ ProcEngineUp

-----------------------------------------------------------------------------
(* Modem, handlers, timer. *)

Post(msg) == msgQ' = Append(msgQ, msg)
Room == Len(msgQ) < MaxQueue

ModemStart(mode) ==
    /\ Room /\ now < MaxTime
    /\ modem' = mode
    /\ Post([m |-> "start", mode |-> mode])
    /\ UNCHANGED <<now, adapterVars, due, sentVars, restarts>>

ModemStop ==
    /\ Room /\ modem # "none"
    /\ modem' = "none"
    /\ Post([m |-> "stop"])
    /\ UNCHANGED <<now, adapterVars, due, sentVars, restarts>>

ModemRestart ==
    /\ Room /\ restarts < MaxRestarts
    /\ restarts' = restarts + 1
    /\ modem' = "none"
    /\ Post([m |-> "engineUp"])
    /\ UNCHANGED <<now, adapterVars, due, sentVars>>

Register(p) ==
    /\ Room /\ now < MaxTime
    /\ Post([m |-> "init", p |-> p])
    /\ UNCHANGED <<now, adapterVars, due, modem, sentVars, restarts>>

\* The LocTimer has stopped itself before it calls timeOutCallback.
TimerExpires ==
    /\ \E t \in due : t <= now
    /\ due' = {}
    /\ Post([m |-> "expire"])
    /\ UNCHANGED <<now, adapterVars, modem, sentVars, restarts>>

\* Time, as long as something can still happen.
Tick ==
    /\ now < MaxTime + Period
    /\ now' = now + 1
    /\ UNCHANGED <<adapterVars, due, msgQ, modem, sentVars, restarts>>

Next ==
    \/ Proc
    \/ \E mode \in Modes : ModemStart(mode)
    \/ ModemStop \/ ModemRestart
    \/ \E p \in Handlers : Register(p)
    \/ TimerExpires \/ Tick

Spec == Init /\ [][Next]_vars

\* The message and the timer threads run, and time goes on.
FairSpec == Spec /\ WF_vars(Proc) /\ WF_vars(TimerExpires) /\ WF_vars(Tick)

-----------------------------------------------------------------------------

Message == [m : {"start"}, mode : Modes] \cup [m : {"stop", "expire", "engineUp"}]
           \cup [m : {"init"}, p : Handlers]

TypeOK ==
    /\ now \in Nat
    /\ handler \in Handlers \cup {0}
    /\ active \in BOOLEAN /\ emergency \in BOOLEAN /\ timerFlag \in BOOLEAN
    /\ due \subseteq Nat
    /\ msgQ \in Seq(Message)
    /\ modem \in Modes \cup {"none"}
    /\ on \subseteq Handlers /\ lastStart \subseteq Nat /\ hurried \in BOOLEAN
    /\ restarts \in Nat

Expiring == due # {} \/ \E i \in 1..Len(msgQ) : msgQ[i].m = "expire"

\* A request that is active, or held back because the timer is, has a timer
\* running or expired behind it: else it would never be sent (again).
ActiveIsTimed == active \/ timerFlag => Expiring

\* What the modem has asked for last is what the adapter holds, when nothing is
\* on its way: neither a restart nor an expiration of the timer changes it.  And a handler
\* is not left with a request that nobody wants: it is sent the stop (but not when the
\* engine restarts, or another handler takes its place).
OnlyWhatIsWanted ==
    /\ handler # 0 /\ msgQ = <<>> /\ active =>
           modem = (IF emergency THEN "emergency" ELSE "normal")
    /\ restarts = 0 => \A p \in on : p = handler => active

\* "mOdcpiTimer helps avoid spamming the framework" (GnssAdapter.cpp:4830): a
\* start is sent Period after the one before, or because of an emergency.  A stale
\* expiration breaks it (Odcpi_spam.cfg).
NoSpam == ~hurried

\* A start reaches the handler, at once or when the timer has run out, unless
\* the modem withdraws it.
StartServed ==
    active /\ on = {} ~> on # {} \/ ~active
=============================================================================
