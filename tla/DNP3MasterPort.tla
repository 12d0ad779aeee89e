--------------------------- MODULE DNP3MasterPort ---------------------------
(***************************************************************************)
(* A DNP3 master port and its link (Code/Ports/DNP3Port: DNP3MasterPort,   *)
(* DNP3Port, ChannelHandler, ChannelLinksWatchdog), composed with its      *)
(* CommsRideThroughTimer.  Five things run side by side:                   *)
(*   - the main thread, which calls Enable() and Disable();                *)
(*   - the upstream port, whose ConnectState events arrive at Event();     *)
(*   - opendnp3's threads, which report the channel and the link;          *)
(*   - the strands of the ChannelHandler, of the watchdog and of the timer,*)
(*     each of which runs its handlers one at a time and in order;         *)
(*   - the tasks posted to the pool, under no strand.                      *)
(* The port has its channel for itself.                                    *)
(***************************************************************************)
EXTENDS CommsRideThroughTimer, FiniteSets, SequencesExt

CONSTANTS
    Confs,          \* the configurations to check, see ConfType
    MaxHeard        \* frames are heard while fewer handlers than this wait

\* server: ServerType;  watchdog: ChannelLinksWatchdogBark is not NEVER;
\* trigger: LinkUpIntegrityTrigger;  quality: SetQualityOnLinkStatus;
\* stability: ConnectionStabilityTimems # 0; the others are bounds.
ConfType ==
    [server : {"ONDEMAND", "PERSISTENT", "MANUAL"}, watchdog : BOOLEAN,
     trigger : {"NEVER", "ON_FIRST", "ON_EVERY"}, quality : BOOLEAN, stability : BOOLEAN,
     enables : Nat, disables : Nat, changes : Nat, opens : Nat,
     demands : Nat]

ASSUME ConfsAssumption == Confs \subseteq ConfType /\ MaxHeard \in Nat

VARIABLES
    conf,                \* the configuration of this behaviour
    left,                \* what is left of its bounds
    enabled, stack_enabled,
    demand,              \* InDemand(): the upstream port is connected
    tasks,               \* EnableStack and DisableStack running on the pool
    stack,               \* pMaster is enabled
    channel,             \* the channel is open
    peer,                \* the outstation: "up", "silent" or "gone"
    link_deadness,
    chanStrand,          \* handlers waiting on ChannelHandler's pSyncStrand
    IntegrityScanNeeded, IntegrityScanDone,
    scanned,             \* a scan was made since the stack was enabled
    stability,           \* pConnectionStabilityTimer holds a wait
    expired,             \* waits that have run out, their handlers not yet run
    published,           \* the last ConnectState the port published
    overrun,             \* history: the link has gone down with a handler due
    UpSet,               \* the port is in the watchdog's UpSet
    dogStrand, bark      \* the watchdog's strand, and where Bark() is

external == <<channel, peer>>
scan == <<IntegrityScanNeeded, IntegrityScanDone>>
told == <<stability, expired, published, overrun>>
dog == <<UpSet, dogStrand, bark>>
port == <<enabled, stack_enabled, demand>>
portVars == <<timer, conf, left, port, tasks, stack, external, link_deadness, chanStrand,
              scan, scanned, told, dog>>

PortInit ==
    /\ TimerInit
    /\ conf \in Confs
    /\ left = [what \in {"enables", "disables", "changes", "opens", "demands"} |-> conf[what]]
    /\ enabled = FALSE /\ stack_enabled = FALSE /\ demand = FALSE
    /\ tasks = <<>>
    /\ stack = FALSE /\ channel = FALSE /\ peer = "up"
    /\ link_deadness = "LinkDownChannelDown"
    /\ chanStrand = <<>>
    /\ IntegrityScanNeeded = FALSE /\ IntegrityScanDone = FALSE
    /\ scanned = FALSE
    /\ stability = FALSE /\ expired = 0 /\ published = "none" /\ overrun = FALSE
    /\ UpSet = FALSE /\ dogStrand = <<>> /\ bark = "no"

Spend(what) == left[what] > 0 /\ left' = [left EXCEPT ![what] = @ - 1]

LinkIsUp == link_deadness = "LinkUpChannelUp"

-----------------------------------------------------------------------------
(* EnableStack() and DisableStack(): three statements and two, run by a     *)
(* pool thread, or by the main thread inside Enable() and Disable().        *)
Task(at, by) == [at |-> at, by |-> by]
MainIsFree == \A i \in DOMAIN tasks : tasks[i].by # "main"

\* pMaster->Disable(): the only stack of the channel closes it.
StackDisable ==
    /\ stack' = FALSE
    /\ channel' = FALSE
    /\ chanStrand' = IF channel THEN Append(chanStrand, "closed") ELSE chanStrand
    /\ UNCHANGED peer

StackTask(i) ==
    LET t == tasks[i]
        Goes(at) == tasks' = [tasks EXCEPT ![i].at = at]
        Ends == tasks' = RemoveAt(tasks, i)
    IN  /\ \/ /\ t.at = "EnableStack"
              /\ chanStrand' = Append(chanStrand, "stackEnabled")
              /\ Goes("enable")
              /\ UNCHANGED <<stack, stack_enabled, external, scanned>>
           \/ /\ t.at = "enable"
              /\ stack' = TRUE
              /\ scanned' = (scanned /\ stack)
              /\ Goes("enabled")
              /\ UNCHANGED <<stack_enabled, chanStrand, external>>
           \/ /\ t.at = "enabled"
              /\ stack_enabled' = TRUE
              /\ Ends
              /\ UNCHANGED <<stack, chanStrand, external, scanned>>
           \/ /\ t.at = "DisableStack"
              /\ stack_enabled' = FALSE
              /\ Goes("disabling")
              /\ UNCHANGED <<stack, chanStrand, external, scanned>>
           \/ /\ t.at = "disabling"
              /\ StackDisable
              /\ Ends
              /\ UNCHANGED <<stack_enabled, scanned>>
        /\ UNCHANGED <<timer, conf, left, enabled, demand, link_deadness, scan, told, dog>>

-----------------------------------------------------------------------------
(* The port's own operations.                                              *)

\* PortDown(): Trigger(), and FastForward() when intentionally disabled.
PortDown(on) == TimerPost(IF on THEN <<"Trigger">> ELSE <<"Trigger", "FastForward">>)

Enable ==
    /\ ~enabled /\ MainIsFree
    /\ Spend("enables")
    /\ enabled' = TRUE
    /\ PortDown(TRUE)
    /\ tasks' = IF ~stack_enabled /\ \/ conf.server = "PERSISTENT"
                                     \/ conf.server = "ONDEMAND" /\ demand
                THEN Append(tasks, Task("EnableStack", "main"))
                ELSE tasks
    /\ UNCHANGED <<conf, stack_enabled, demand, stack, external, link_deadness, chanStrand,
                   scan, scanned, told, dog>>

Disable ==
    /\ enabled /\ MainIsFree
    /\ Spend("disables")
    /\ enabled' = FALSE
    /\ tasks' = IF stack_enabled THEN Append(tasks, Task("DisableStack", "main")) ELSE tasks
    /\ UNCHANGED <<timer, conf, stack_enabled, demand, stack, external, link_deadness,
                   chanStrand, scan, scanned, told, dog>>

\* A ConnectState event from upstream: the demand map first, then Event(),
\* which answers UNDEFINED when the port is disabled.
UpstreamEvent(connected) ==
    /\ demand # connected
    /\ Spend("demands")
    /\ demand' = connected
    /\ tasks' = IF enabled /\ conf.server = "ONDEMAND" /\ stack_enabled # connected
                THEN Append(tasks, Task(IF connected THEN "EnableStack" ELSE "DisableStack", "pool"))
                ELSE tasks
    /\ UNCHANGED <<timer, conf, enabled, stack_enabled, stack, external, link_deadness,
                   chanStrand, scan, scanned, told, dog>>

-----------------------------------------------------------------------------
(* What opendnp3 reports, in this order, to the ChannelHandler's strand.   *)
Reports(what) == chanStrand' = chanStrand \o what
Hears == stack /\ channel /\ Len(chanStrand) < MaxHeard
OutsideStays == UNCHANGED <<timer, conf, port, tasks, stack, link_deadness, scan, scanned, told, dog>>

\* The channel connects; it is retried for as long as the stack is enabled.
ChannelOpens == /\ stack /\ ~channel /\ peer # "gone"
                /\ Spend("opens")
                /\ channel' = TRUE
                /\ Reports(<<"open">>)
                /\ UNCHANGED peer /\ OutsideStays

\* The outstation comes, goes silent, or takes the connection down.
PeerBecomes(p) == /\ peer # p
                  /\ Spend("changes")
                  /\ peer' = p
                  /\ channel' = (channel /\ p # "gone")
                  /\ Reports(IF channel /\ p = "gone" THEN <<"closed">> ELSE <<>>)
                  /\ OutsideStays

\* OnKeepAliveSuccess, OnKeepAliveReset, OnKeepAliveFailure, OnReceiveIIN.
KeepAliveSuccess == /\ Hears /\ peer = "up"
                    /\ Reports(<<"linkUp">>)
                    /\ UNCHANGED <<external, left>> /\ OutsideStays

KeepAliveFailure == /\ Hears /\ peer = "silent"
                    /\ Reports(<<"linkDown">>)
                    /\ UNCHANGED <<external, left>> /\ OutsideStays

\* An IIN that tells of a restart or an overflow is one of the changes.
ReceiveIIN(iin) == /\ Hears /\ peer = "up"
                   /\ IF iin = "iinRestart" THEN Spend("changes") ELSE UNCHANGED left
                   /\ Reports(<<"linkUp", iin>>)
                   /\ UNCHANGED external /\ OutsideStays

-----------------------------------------------------------------------------
(* The handlers of the ChannelHandler's strand.                            *)
ChanRuns(what, andThen) == /\ chanStrand # <<>>
                           /\ Head(chanStrand) = what
                           /\ chanStrand' = Tail(chanStrand)
                           /\ andThen
                           /\ UNCHANGED <<conf, left, port, stack, external, UpSet, bark>>

\* expires_from_now() gives up the wait the timer holds, not one that ran out.
NotifyOfConnection ==
    /\ IF conf.stability THEN stability' = TRUE /\ UNCHANGED published
                          ELSE published' = "CONNECTED" /\ UNCHANGED stability
    /\ UNCHANGED <<expired, overrun>>

DisconnectWithoutCancel ==
    /\ published' = "DISCONNECTED"
    /\ overrun' = (overrun \/ expired > 0)
    /\ UNCHANGED <<stability, expired>>

\* cancel() stops a timer that waits; one that ran out is not stopped.
NotifyOfDisconnection ==
    /\ IF stability THEN stability' = FALSE /\ UNCHANGED published
                    ELSE published' = "DISCONNECTED" /\ UNCHANGED stability
    /\ overrun' = (overrun \/ expired > 0)
    /\ UNCHANGED expired

LinkGoesUp ==
    /\ link_deadness' = "LinkUpChannelUp"
    /\ TimerPost(<<"Cancel">>)
    /\ IntegrityScanNeeded' = (IntegrityScanNeeded \/ conf.trigger = "ON_EVERY")
    /\ NotifyOfConnection
    /\ dogStrand' = Append(dogStrand, "LinkUp")
    /\ UNCHANGED <<IntegrityScanDone, scanned, tasks>>

\* LinkDeadnessChange() acts when the link was up, and the watchdog is told.
LinkGoesDown(to) ==
    /\ link_deadness' = to
    /\ dogStrand' = Append(dogStrand, "LinkDown")
    /\ IF LinkIsUp
       THEN /\ PortDown(enabled)
            /\ NotifyOfDisconnection
            /\ IntegrityScanDone' = FALSE
            /\ tasks' = IF stack_enabled /\ conf.server # "PERSISTENT" /\ ~demand
                        THEN Append(tasks, Task("DisableStack", "pool")) ELSE tasks
       ELSE UNCHANGED <<timer, told, IntegrityScanDone, tasks>>
    /\ UNCHANGED <<IntegrityScanNeeded, scanned>>

LinkStays == UNCHANGED <<timer, link_deadness, scan, scanned, told, dogStrand, tasks>>

StateListener ==
    \/ ChanRuns("open", IF link_deadness = "LinkDownChannelDown"
                        THEN LinkGoesDown("LinkDownChannelUp") ELSE LinkStays)
    \/ ChanRuns("closed", IF link_deadness # "LinkDownChannelDown"
                          THEN LinkGoesDown("LinkDownChannelDown") ELSE LinkStays)

LinkUp == ChanRuns("linkUp", IF LinkIsUp THEN LinkStays ELSE LinkGoesUp)

LinkDown == ChanRuns("linkDown", IF LinkIsUp THEN LinkGoesDown("LinkDownChannelUp") ELSE LinkStays)

\* OnReceiveIIN's handler: the stack scans by itself after a restart or an
\* overflow, and the port scans when a scan is needed and none has been made.
HandleIIN(iin) ==
    ChanRuns(iin,
        IF ~LinkIsUp THEN LinkStays
        ELSE /\ IntegrityScanDone' = (IntegrityScanDone \/ IntegrityScanNeeded \/ iin = "iinRestart")
             /\ IntegrityScanNeeded' = FALSE
             /\ scanned' = (scanned \/ iin = "iinRestart" \/ (IntegrityScanNeeded /\ ~IntegrityScanDone))
             /\ UNCHANGED <<timer, link_deadness, told, dogStrand, tasks>>)

NeededWhenUp ==
    ChanRuns("stackEnabled",
        /\ IntegrityScanNeeded' = (IntegrityScanNeeded \/ (LinkIsUp /\ conf.trigger # "NEVER"))
        /\ UNCHANGED <<timer, link_deadness, IntegrityScanDone, scanned, told, dogStrand, tasks>>)

\* The handler EnableStack() posts.
StackEnabled ==
    ChanRuns("stackEnabled",
        /\ IntegrityScanNeeded' = (IntegrityScanNeeded \/ (~LinkIsUp /\ conf.trigger # "NEVER"))
        /\ UNCHANGED <<timer, link_deadness, IntegrityScanDone, scanned, told, dogStrand, tasks>>)

\* The handler SetCommsGood() posts.
CommsGood ==
    ChanRuns("commsGood",
        /\ IntegrityScanNeeded' = (IntegrityScanNeeded \/ (~IntegrityScanDone /\ LinkIsUp))
        /\ UNCHANGED <<timer, link_deadness, IntegrityScanDone, scanned, told, dogStrand, tasks>>)

ChannelStep == \/ StateListener \/ LinkUp \/ LinkDown \/ StackEnabled \/ CommsGood
               \/ \E iin \in {"iin", "iinRestart"} : HandleIIN(iin)

-----------------------------------------------------------------------------
(* The ride-through timer's strand; CommsGoodCB is SetCommsGood().         *)
LinkSide == <<conf, left, port, tasks, stack, external, link_deadness, scan, scanned, told, dog>>

TimerStep ==
    /\ \/ (RunTrigger \/ RunFastForward \/ RunCancelRiding \/ RunWait) /\ UNCHANGED chanStrand
       \/ RunCancelGood /\ chanStrand' = IF conf.quality THEN Append(chanStrand, "commsGood")
                                                          ELSE chanStrand
    /\ UNCHANGED LinkSide

TimerCompletes == (Expire \/ Dispatch) /\ UNCHANGED <<LinkSide, chanStrand>>

\* The connection's stability timer, and its handler, under no strand.
StabilityTimer ==
    /\ \/ /\ stability
          /\ stability' = FALSE /\ expired' = expired + 1
          /\ UNCHANGED published
       \/ /\ expired > 0
          /\ expired' = expired - 1 /\ published' = "CONNECTED"
          /\ UNCHANGED stability
    /\ UNCHANGED <<overrun, timer, conf, left, port, tasks, stack, external, link_deadness,
                   chanStrand, scan, scanned, dog>>

-----------------------------------------------------------------------------
(* The watchdog.  With one link on the channel ONFIRST and ONFINAL agree.  *)
(* Bark() calls ChannelWatchdogTrigger(true), then (false); each reads     *)
(* stack_enabled before it touches the stack.                              *)
DogRuns == dogStrand # <<>> /\ bark = "no" /\ dogStrand' = Tail(dogStrand)

DefaultUnresolved == FALSE   \* DEFAULT left for the switch to ignore
Barks == conf.watchdog /\ UpSet

Watchdog ==
    /\ \/ /\ DogRuns
          /\ UpSet' = (Head(dogStrand) = "LinkUp")
          /\ bark' = IF Head(dogStrand) = "LinkDown" /\ Barks THEN "on" ELSE "no"
          /\ UNCHANGED <<stack, channel, peer, chanStrand>>
       \/ /\ bark = "on"
          /\ bark' = IF stack_enabled THEN "disable" ELSE "off"
          /\ UNCHANGED <<UpSet, dogStrand, stack, channel, peer, chanStrand>>
       \/ /\ bark = "disable"
          /\ StackDisable
          /\ bark' = "off"
          /\ UNCHANGED <<UpSet, dogStrand>>
       \/ /\ bark = "off"
          /\ bark' = IF stack_enabled THEN "enable" ELSE "no"
          /\ UNCHANGED <<UpSet, dogStrand, stack, channel, peer, chanStrand>>
       \/ /\ bark = "enable"
          /\ stack' = TRUE
          /\ bark' = "no"
          /\ UNCHANGED <<UpSet, dogStrand, channel, peer, chanStrand>>
    /\ UNCHANGED <<timer, conf, left, port, tasks, link_deadness, scan, scanned, told>>

-----------------------------------------------------------------------------
PortNext == \/ Enable \/ Disable
            \/ \E c \in BOOLEAN : UpstreamEvent(c)
            \/ \E i \in DOMAIN tasks : StackTask(i)
            \/ ChannelOpens \/ KeepAliveSuccess \/ KeepAliveFailure
            \/ \E p \in {"up", "silent", "gone"} : PeerBecomes(p)
            \/ \E iin \in {"iin", "iinRestart"} : ReceiveIIN(iin)
            \/ ChannelStep \/ TimerStep \/ TimerCompletes \/ StabilityTimer \/ Watchdog

\* The pool runs what is posted, timers run out, the channel is retried, and
\* the stack polls an outstation that answers and misses one that does not
\* (SF: a poll's answer waits whenever another frame is heard first).
PortFairness ==
    /\ WF_portVars(\E i \in DOMAIN tasks : StackTask(i))
    /\ WF_portVars(ChannelStep)
    /\ WF_portVars(TimerStep)
    /\ WF_portVars(TimerCompletes)
    /\ WF_portVars(StabilityTimer)
    /\ WF_portVars(Watchdog)
    /\ WF_portVars(ChannelOpens)
    /\ WF_portVars(KeepAliveFailure)
    /\ SF_portVars(ReceiveIIN("iin"))

PortSpec == PortInit /\ [][PortNext]_portVars /\ PortFairness

-----------------------------------------------------------------------------
\* The type invariant.
PortTypeOK ==
    /\ TimerTypeOK
    /\ conf \in Confs
    /\ enabled \in BOOLEAN /\ stack_enabled \in BOOLEAN /\ demand \in BOOLEAN
    /\ stack \in BOOLEAN /\ channel \in BOOLEAN /\ peer \in {"up", "silent", "gone"}
    /\ link_deadness \in {"LinkDownChannelDown", "LinkDownChannelUp", "LinkUpChannelUp"}
    /\ stability \in BOOLEAN /\ expired \in Nat /\ overrun \in BOOLEAN
    /\ published \in {"none", "CONNECTED", "DISCONNECTED"}

(***************************************************************************)
(* A failure is reported once: CommsBadCB is not called again before       *)
(* CommsGoodCB has been, and no ride-through starts in between.            *)
(***************************************************************************)
FailureReportedOnce ==
    /\ CommsIsBad => ~RideThroughInProgress
    /\ CommsIsBad <=> commsPoint = "failed"

(***************************************************************************)
(* "How long to wait before admitting the link is down": the comms point   *)
(* is not reported as failed while the wait of this ride-through runs on.  *)
(***************************************************************************)
RidesThrough ==
    [][commsPoint' = "failed" /\ commsPoint # "failed" => ~pending]_portVars

Talks == stack /\ channel /\ peer = "up"

(***************************************************************************)
(* Once nothing changes outside, the comms point tells whether master and  *)
(* outstation talk, through three strands, the timer and the watchdog's    *)
(* restarts.                                                               *)
(***************************************************************************)
CommsPointExact == <>[](commsPoint # "unset" => (commsPoint = "good" <=> Talks))

(***************************************************************************)
(* A channel whose only link went silent is restarted by the watchdog: it  *)
(* is taken down and the stack is left enabled, to open it again, when the *)
(* watchdog is done.  Or the link comes back, or the port itself lets go   *)
(* of the stack.                                                           *)
(***************************************************************************)
SilentChannelRestarted ==
    (conf.watchdog /\ link_deadness = "LinkDownChannelUp" /\ UpSet)
        ~> (LinkIsUp \/ ~stack_enabled \/ (~channel /\ stack /\ bark = "no"))

(***************************************************************************)
(* Integrity data is fetched at least once after the stack was enabled     *)
(* (LinkUpIntegrityTrigger other than NEVER), once the link stays up.      *)
(***************************************************************************)
EventuallyScanned == <>[](conf.trigger # "NEVER" /\ Talks => scanned)

(***************************************************************************)
(* What the subscribers were last told of the connection is what it is,    *)
(* also when a connection has to be stable before it counts and bounces    *)
(* while the stability timer runs, expires or is cancelled.  Not once the  *)
(* link has gone down between the timer's expiry and its handler.          *)
(***************************************************************************)
PublishedExact == <>[](~overrun => (published = "CONNECTED" <=> LinkIsUp))

(***************************************************************************)
(* "How long the datalink layer has to stay up to publish 'connected'": a  *)
(* port that publishes CONNECTED has its link up.                          *)
(***************************************************************************)
ConnectedWhileUp ==
    [][published' = "CONNECTED" /\ published # "CONNECTED" => LinkIsUp']_portVars

(***************************************************************************)
(* "If an upstream port is connected, attempt a connection (if on demand)",*)
(* and disconnect when the last is gone: once the demand stays as it is,   *)
(* the stack of an enabled port follows it.                                *)
(***************************************************************************)
FollowsDemand == <>[](conf.server = "ONDEMAND" /\ enabled => stack_enabled = demand)
=============================================================================
