------------------------------ MODULE Broadcaster ------------------------------
(***************************************************************************)
(* The pubsub-broadcaster service: one process consumes                    *)
(* telemetry.authorized.v1 with autocommit and publishes each signed       *)
(* envelope once to a GossipSub topic.  It dials its reserved peers again  *)
(* and again; a monitor polls how many are connected and pauses or resumes *)
(* the Kafka stream once that has been too few, or enough, for a while.    *)
(* SIGTERM and SIGINT start a graceful stop; a start that fails is rolled  *)
(* back.                                                                   *)
(*                                                                         *)
(* An action is the code between two awaits.  Timers fire at any time: the *)
(* poll, the debounce and the reconnect interval are not related.          *)
(***************************************************************************)
EXTENDS Integers, Sequences, FiniteSetsExt

CONSTANTS
  PeerCount,         (* length of config.reservedPeers                     *)
  MinConnectedPeers, (* config.minConnectedPeers; 0 disables the monitor   *)
  MaxMessages,       (* bound: length of the log                           *)
  MaxFaults          (* bound: failed calls, crashes and kills             *)

ASSUME BroadcasterAssumption ==
  /\ PeerCount \in Nat /\ MinConnectedPeers \in Nat
  /\ MaxMessages \in Nat /\ MaxFaults \in Nat

VARIABLES
  log,          (* telemetry.authorized.v1: what its messages are          *)
  committed,    (* the offset autocommitted                                *)
  published,    (* the messages handed to GossipSub                        *)
  wellFormed,   (* config.reservedPeers are multiaddrs, which loading the  *)
                (* configuration does not check                            *)
  reachable,    (* the reserved peers that would answer a dial             *)
  connected,    (* connectedReservedPeers                                  *)
  dialing,      (* the peers whose dial a sweep awaits                     *)
  node,         (* the libp2p node is running                              *)
  client,       (* `started' of the pubsub client                          *)
  redial,       (* reconnectTimer is set                                   *)
  sampled,      (* metrics.connectedPeerCount, what the last poll saw      *)
  polling,      (* connectivityPollTimer is set                            *)
  paused,       (* `paused' of the monitor                                 *)
  pending,      (* pendingDesiredPaused: "none", or the side waited for    *)
  timer,        (* the debounce timer is armed                             *)
  streamPaused, (* the Kafka stream is paused                              *)
  position,     (* messages the loop has taken                             *)
  loopPc,       (* where the run loop is                                   *)
  leftOpen,     (* the rollback failed to close the consumer or the client *)
  phase,        (* where start() or stop() is                              *)
  listeners,    (* the signals installShutdownHandler() still listens to   *)
  shuttingDown, (* its flag                                                *)
  faults        (* failed calls, crashes and kills so far                  *)

lasting  == <<log, committed, published, wellFormed>>
dialer   == <<connected, dialing, node, client, redial>>
monitor  == <<sampled, polling, paused, pending, timer, streamPaused>>
consumer == <<position, loopPc, leftOpen>>
signals  == <<listeners, shuttingDown>>
vars     == <<log, committed, published, wellFormed, reachable, connected, dialing, node,
              client, redial, sampled, polling, paused, pending, timer, streamPaused,
              position, loopPc, leftOpen, phase, listeners, shuttingDown, faults>>

(* An authorized envelope is published; a null value, another event type   *)
(* and bytes that do not parse are passed over.                            *)
MessageKinds == {"authorized", "ignored"}
Signals      == {"SIGTERM", "SIGINT"}
Peers        == 1..PeerCount
Monitored    == MinConnectedPeers > 0

Starting == {"creating", "booting", "dialing", "joining"}
Undoing  == {"undoConsumer", "undoClient", "failed"}
Stopping == {"closing", "draining", "leaving", "unserving", "stopped"}
Phases   == Starting \cup Undoing \cup {"running"} \cup Stopping \cup {"down"}

(* desiredPaused, of a number of connected peers.                          *)
Side(count) == IF count < MinConnectedPeers THEN "pause" ELSE "resume"
Applied     == IF paused THEN "pause" ELSE "resume"
Desired     == Side(Cardinality(connected))

Init ==
  /\ log \in [1..MaxMessages -> MessageKinds]
  /\ committed = 0 /\ published = {} /\ wellFormed \in BOOLEAN
  /\ reachable \in SUBSET Peers
  /\ connected = {} /\ dialing = {}
  /\ node = FALSE /\ client = FALSE /\ redial = FALSE
  /\ sampled = 0 /\ polling = FALSE
  /\ paused = Monitored /\ pending = "none" /\ timer = FALSE
  /\ streamPaused = FALSE
  /\ position = 0 /\ loopPc = "idle" /\ leftOpen = FALSE
  /\ phase = "creating"
  /\ listeners = {} /\ shuttingDown = FALSE
  /\ faults = 0

-----------------------------------------------------------------------------
(* The reserved peers come and go, connect by themselves and drop their    *)
(* connections.  Who would answer matters only while the node is up.       *)
Elsewhere == UNCHANGED <<lasting, monitor, consumer, phase, signals, faults>>

PeerTurns(p) ==
  /\ node
  /\ reachable' = IF p \in reachable THEN reachable \ {p} ELSE reachable \cup {p}
  /\ UNCHANGED dialer /\ Elsewhere

LinkTurns(p) ==
  /\ node /\ wellFormed
  /\ \/ p \in connected /\ connected' = connected \ {p}
     \/ p \in reachable \ connected /\ connected' = connected \cup {p}
  /\ UNCHANGED <<reachable, dialing, node, client, redial>> /\ Elsewhere

(* A sweep that is done with peer p goes on to the first one after it that *)
(* is not connected.                                                       *)
DialAfter(p, up) ==
  LET left == {q \in (p + 1)..PeerCount : q \notin up}
  IN IF left = {} THEN {} ELSE {Min(left)}

(* The reconnect interval starts a sweep while others may be waiting for a *)
(* dial.  libp2p joins dials of one peer, so sweeps that wait for the same *)
(* peer go on together.                                                    *)
Sweep ==
  /\ redial
  /\ dialing' = dialing \cup DialAfter(0, connected)
  /\ UNCHANGED <<reachable, connected, node, client, redial>> /\ Elsewhere

(* Mutant of EndDial: a dial that fails ends the sweep.                    *)
EndDialOrSweep(p) ==
  /\ node /\ p \in dialing
  /\ connected' = connected \cup ({p} \cap reachable)
  /\ dialing' = (dialing \ {p}) \cup (IF p \in reachable THEN DialAfter(p, connected') ELSE {})
  /\ UNCHANGED <<reachable, node, client, redial>> /\ Elsewhere

(* A dial succeeds, fails or times out.                                    *)
EndDial(p) ==
  /\ node /\ p \in dialing
  /\ connected' = connected \cup ({p} \cap reachable)
  /\ dialing' = (dialing \ {p}) \cup DialAfter(p, connected')
  /\ UNCHANGED <<reachable, node, client, redial>> /\ Elsewhere

-----------------------------------------------------------------------------
(* The connectivity monitor.                                               *)
InMonitor    == UNCHANGED <<lasting, reachable, dialer, polling, consumer, phase, signals, faults>>
ClearPending == pending' = "none" /\ timer' = FALSE

(* Mutant of Notify: a pending flip is not cancelled.                      *)
NotifyKeepingPending ==
  \/ /\ Desired = Applied \/ pending = Desired
     /\ UNCHANGED <<pending, timer>>
  \/ /\ Desired # Applied /\ pending # Desired
     /\ pending' = Desired /\ timer' = TRUE

Notify ==
  \/ /\ Desired = Applied
     /\ ClearPending
  \/ /\ Desired # Applied /\ pending = Desired
     /\ UNCHANGED <<pending, timer>>
  \/ /\ Desired # Applied /\ pending # Desired
     /\ pending' = Desired /\ timer' = TRUE

Poll ==
  /\ polling
  /\ sampled' = Cardinality(connected)
  /\ Notify
  /\ UNCHANGED <<paused, streamPaused>> /\ InMonitor

(* applyState(), with the onPause and onResume of the service.             *)
Apply(side) ==
  /\ paused' = (side = "pause")
  /\ streamPaused' = IF paused' = paused THEN streamPaused ELSE paused'

(* Mutant of TimerFires: pendingDesiredPaused is reset only with a flip.   *)
TimerFiresPending ==
  /\ timer /\ timer' = FALSE
  /\ \/ Desired = pending /\ pending' = "none" /\ Apply(pending)
     \/ Desired # pending /\ UNCHANGED <<pending, paused, streamPaused>>
  /\ UNCHANGED sampled /\ InMonitor

(* The flip is applied if the count is still on its side.                  *)
TimerFires ==
  /\ timer /\ ClearPending
  /\ \/ Desired = pending /\ Apply(pending)
     \/ Desired # pending /\ UNCHANGED <<paused, streamPaused>>
  /\ UNCHANGED sampled /\ InMonitor

-----------------------------------------------------------------------------
(* A call fails, or the process is killed.                                 *)
Fault == faults < MaxFaults /\ faults' = faults + 1

(* start() or stop() goes on to its next await; Proceed changes no more.   *)
MoveTo(from, to) ==
  /\ phase = from /\ phase' = to
  /\ UNCHANGED <<lasting, reachable>>

Proceed(from, to) == MoveTo(from, to) /\ UNCHANGED <<dialer, monitor, consumer, signals>>

(* createLibp2pPubsubClient(): createLibp2p() starts the node it makes.    *)
(* Only then are the reserved peers parsed; if that throws, start() has no *)
(* client to roll back.                                                    *)
CreateClient ==
  /\ MoveTo("creating", IF wellFormed THEN "booting" ELSE "undoConsumer")
  /\ node' = TRUE
  /\ UNCHANGED <<connected, dialing, client, redial, monitor, consumer, signals, faults>>

(* start() of the client, up to its first sweep: the node runs already.    *)
StartClient ==
  /\ MoveTo("booting", "dialing")
  /\ client' = TRUE
  /\ dialing' = DialAfter(0, connected)
  /\ UNCHANGED <<connected, node, redial, monitor, consumer, signals, faults>>

EndFirstSweep ==
  /\ dialing = {}
  /\ MoveTo("dialing", "joining")
  /\ redial' = TRUE
  /\ UNCHANGED <<connected, dialing, node, client, monitor, consumer, signals, faults>>

(* consume() answers: the rest of start() and installShutdownHandler().    *)
Joined ==
  /\ MoveTo("joining", "running")
  /\ polling' = Monitored
  /\ loopPc' = "await"
  /\ listeners' = Signals
  /\ UNCHANGED <<dialer, sampled, paused, pending, timer, position, leftOpen, shuttingDown, faults>>

(* Mutant of JoinGroup: the stream is not told that the monitor is paused. *)
JoinGroupFlowing == Joined /\ UNCHANGED streamPaused

JoinGroup == Joined /\ streamPaused' = paused

(* createLibp2p() or consume() fails, and start() rolls back: the consumer *)
(* is closed, then the client stopped, if there is one.  Their own         *)
(* failures are swallowed.                                                 *)
StartFails == Fault /\ \E from \in {"creating", "joining"} : Proceed(from, "undoConsumer")

UndoConsumer ==
  /\ MoveTo("undoConsumer", "undoClient")
  /\ \/ UNCHANGED <<leftOpen, faults>>
     \/ Fault /\ leftOpen' = TRUE
  /\ UNCHANGED <<dialer, monitor, position, loopPc, signals>>

ClientStopped == client' = FALSE /\ redial' = FALSE
NodeStopped   == node' = FALSE /\ connected' = {} /\ dialing' = {}

(* Mutant of UndoClient: the node is left running.                         *)
UndoClientNotNode ==
  /\ MoveTo("undoClient", "failed")
  /\ ClientStopped
  /\ UNCHANGED <<connected, dialing, node, monitor, consumer, signals, faults>>

(* stop() of a client that is not started, or not there, does nothing.     *)
UndoClient ==
  /\ MoveTo("undoClient", "failed")
  /\ ClientStopped
  /\ \/ client /\ NodeStopped /\ UNCHANGED <<leftOpen, faults>>
     \/ client /\ Fault /\ leftOpen' = TRUE /\ UNCHANGED <<node, connected, dialing>>
     \/ ~client /\ UNCHANGED <<node, connected, dialing, leftOpen, faults>>
  /\ UNCHANGED <<monitor, position, loopPc, signals>>

-----------------------------------------------------------------------------
(* The run loop.                                                           *)
InLoop == UNCHANGED <<log, wellFormed, leftOpen, reachable, dialer, monitor, phase, signals>>

Take(kind) ==
  /\ phase \in {"running", "closing"} /\ loopPc = "await" /\ ~streamPaused
  /\ position < Len(log) /\ log[position + 1] = kind
  /\ position' = position + 1
  /\ UNCHANGED <<committed, published, faults>> /\ InLoop

SkipMessage == Take("ignored") /\ UNCHANGED loopPc
TakeMessage == Take("authorized") /\ loopPc' = "publish"

Published ==
  /\ loopPc = "publish" /\ loopPc' = "await"
  /\ UNCHANGED <<committed, position>> /\ InLoop

(* handleTelemetryMessage(): publish() throws unless the client is         *)
(* started; whatever happens, it is not tried again.                       *)
Publish ==
  /\ Published
  /\ published' = IF client THEN published \cup {position} ELSE published
  /\ UNCHANGED faults

PublishFails == Published /\ Fault /\ UNCHANGED published

(* The consumer commits by itself, when it likes, what it has delivered.   *)
AutoCommit ==
  /\ phase \in {"running", "closing"}
  /\ committed' = position
  /\ UNCHANGED <<published, position, loopPc, faults>> /\ InLoop

(* The stream of a closed consumer ends.                                   *)
LoopEnds ==
  /\ phase \in {"closing", "draining"} /\ loopPc = "await"
  /\ loopPc' = "done"
  /\ UNCHANGED <<committed, published, position, faults>> /\ InLoop

-----------------------------------------------------------------------------
(* Mutant of Resume: the committed offset is taken for the last message    *)
(* processed, not for the next one.                                        *)
ResumeOneBefore == position' = committed - 1

(* The group resumes from its committed offset.                            *)
Resume == position' = committed

(* The process ends; the next one finds its own variables as Init says.    *)
ProcessLost ==
  /\ phase' = "down"
  /\ NodeStopped /\ ClientStopped
  /\ sampled' = 0 /\ polling' = FALSE
  /\ paused' = Monitored /\ ClearPending
  /\ streamPaused' = FALSE
  /\ Resume /\ loopPc' = "idle" /\ leftOpen' = FALSE
  /\ listeners' = {} /\ shuttingDown' = FALSE
  /\ UNCHANGED <<lasting, reachable>>

(* Mutant of Stop: the monitor is left alone.                              *)
StopWithoutMonitor ==
  /\ MoveTo("running", "closing")
  /\ polling' = FALSE
  /\ UNCHANGED <<dialer, sampled, paused, streamPaused, pending, timer, consumer>>

(* stop() of a started service, up to consumer.close().                    *)
Stop ==
  /\ MoveTo("running", "closing")
  /\ polling' = FALSE /\ ClearPending
  /\ UNCHANGED <<dialer, sampled, paused, streamPaused, consumer>>

(* shutdown() of the installed handler, up to its first await.             *)
Shutdown ==
  \/ ~shuttingDown /\ shuttingDown' = TRUE /\ Stop
  \/ shuttingDown /\ UNCHANGED <<lasting, reachable, dialer, monitor, consumer, phase, shuttingDown>>

(* once() takes the listener away before it calls it.                      *)
Signal(s) ==
  /\ s \in listeners
  /\ Shutdown
  /\ listeners' = listeners \ {s}
  /\ UNCHANGED faults

(* Without a listener a signal ends the process: before the handler is     *)
(* installed, and when one signal comes twice.  A start that has failed    *)
(* may hang until then; its end does not count against the bound.          *)
Kill(s) ==
  /\ s \notin listeners /\ phase # "down"
  /\ \/ phase = "failed" /\ UNCHANGED faults
     \/ phase # "failed" /\ Fault
  /\ ProcessLost

CloseConsumer == Proceed("closing", "draining") /\ UNCHANGED faults

LeaveTopicNow ==
  /\ MoveTo("draining", "leaving")
  /\ ClientStopped
  /\ UNCHANGED <<connected, dialing, node, monitor, consumer, signals, faults>>

(* Mutant of LeaveTopic: the run loop is not awaited.                      *)
LeaveTopicAtOnce == LeaveTopicNow

(* The run loop has ended; the client is stopped, up to node.stop().       *)
LeaveTopic == loopPc = "done" /\ LeaveTopicNow

StopNode ==
  /\ MoveTo("leaving", "unserving")
  /\ NodeStopped
  /\ UNCHANGED <<client, redial, monitor, consumer, signals, faults>>

CloseServer == Proceed("unserving", "stopped") /\ UNCHANGED faults

(* exit(0) after stop(); a failed start only ends by itself, if nothing    *)
(* keeps the process alive.                                                *)
Exit ==
  /\ phase = "stopped" \/ (phase = "failed" /\ ~node /\ ~leftOpen)
  /\ ProcessLost
  /\ UNCHANGED faults

(* A call of stop() fails, and exit(1) follows.                            *)
StopFails == phase \in {"closing", "leaving", "unserving"} /\ Fault /\ ProcessLost

(* The process dies, of an error in the stream for instance: nobody        *)
(* handles the rejection of the run promise.                               *)
Crash == phase # "down" /\ Fault /\ ProcessLost

Restart == Proceed("down", "creating") /\ UNCHANGED faults

-----------------------------------------------------------------------------
StartStep == CreateClient \/ StartClient \/ EndFirstSweep \/ JoinGroup \/ UndoConsumer \/ UndoClient
LoopStep  == SkipMessage \/ TakeMessage \/ Publish \/ LoopEnds
StopStep  == CloseConsumer \/ LeaveTopic \/ StopNode \/ CloseServer \/ Exit

Next ==
  \/ \E p \in Peers : PeerTurns(p)
  \/ \E p \in Peers : LinkTurns(p)
  \/ Sweep
  \/ \E p \in Peers : EndDial(p)
  \/ Poll
  \/ TimerFires
  \/ StartStep
  \/ StartFails
  \/ LoopStep
  \/ PublishFails
  \/ AutoCommit
  \/ \E s \in Signals : Signal(s)
  \/ \E s \in Signals : Kill(s)
  \/ StopStep
  \/ StopFails
  \/ Crash
  \/ Restart

Spec == Init /\ [][Next]_vars

(* Fairness: intervals and timers fire, every call returns, a dial ends,   *)
(* and the orchestrator restarts the process.  Peers, failures and signals *)
(* are under no obligation.                                                *)
Fairness ==
  /\ WF_vars(Sweep)
  /\ \A p \in Peers : WF_vars(EndDial(p))
  /\ WF_vars(Poll)
  /\ WF_vars(TimerFires)
  /\ WF_vars(StartStep)
  /\ WF_vars(LoopStep)
  /\ WF_vars(StopStep)
  /\ WF_vars(Restart)

LiveSpec == Spec /\ Fairness

-----------------------------------------------------------------------------
(* Every variable has its type.                                            *)
DataTyped ==
  /\ log \in [1..MaxMessages -> MessageKinds]
  /\ committed \in 0..MaxMessages /\ position \in 0..MaxMessages
  /\ published \subseteq 1..MaxMessages
  /\ reachable \subseteq Peers /\ connected \subseteq Peers /\ dialing \subseteq Peers
  /\ sampled \in 0..PeerCount
  /\ pending \in {"none", "pause", "resume"}
  /\ loopPc \in {"idle", "await", "publish", "done"}
  /\ phase \in Phases
  /\ listeners \subseteq Signals
  /\ faults \in 0..MaxFaults

FlagsTyped ==
  /\ node \in BOOLEAN /\ client \in BOOLEAN /\ redial \in BOOLEAN
  /\ polling \in BOOLEAN /\ paused \in BOOLEAN /\ timer \in BOOLEAN
  /\ streamPaused \in BOOLEAN /\ shuttingDown \in BOOLEAN
  /\ wellFormed \in BOOLEAN /\ leftOpen \in BOOLEAN

TypeOK == DataTyped /\ FlagsTyped

(* The stream flows exactly when the monitor says so, from the first       *)
(* message on and through every flip (pubsub-broadcaster/README.md,        *)
(* Connectivity gating).                                                   *)
StreamFollowsMonitor == phase \in {"running"} \cup Stopping => streamPaused = paused

(* Nothing is paused or resumed on a side that the last poll did not see,  *)
(* or that the count has left since (createConnectivityMonitor's comment:  *)
(* "only paused/resumed once connectivity has stabilized").                *)
FlipsAreDebounced ==
  [][(paused' # paused /\ phase' = phase) => Side(sampled) = Applied' /\ Desired = Applied']_vars

(* stop() awaits what is in flight: until the process fails or is killed,  *)
(* an autocommitted message has been published, or its publish is on the   *)
(* way and the client still there to do it (comment in stop()).            *)
NoSilentLoss ==
  faults = 0 =>
    \A m \in 1..committed : log[m] = "authorized" =>
      m \in published \/ (loopPc = "publish" /\ m = position /\ client)

(* Once stop() has begun nothing can pause or resume the stream, and once  *)
(* the client is stopped no timer is left that would use it.               *)
StoppedIsQuiet ==
  /\ phase \in Stopping => ~polling /\ ~timer
  /\ phase \in {"leaving", "unserving", "stopped", "failed"} => ~redial

(* Connectivity that stays on one side of the minimum for good decides: no *)
(* flip is forgotten, whatever the timer and the polls did before.         *)
SettlesOnSide ==
  \A side \in {"pause", "resume"} :
    <>[](phase = "running" /\ Desired = side) => <>[](streamPaused = (side = "pause"))

(* A reserved peer that stays reachable is connected again and again, even *)
(* if the others never answer (createLibp2pPubsubClient's comment:         *)
(* "automatically redialed after disconnects").                            *)
ReachablePeersRedialed ==
  \A p \in Peers : <>[](phase = "running" /\ p \in reachable) => []<>(p \in connected)

(* A graceful stop ends, and so does a start that has failed, unless its   *)
(* rollback failed too, or left behind the node of a client that could not *)
(* be made: the process is gone and can be restarted.                      *)
StopCompletes ==
  /\ phase \in Stopping ~> phase = "down"
  /\ phase \in Undoing /\ wellFormed ~> (phase = "down" \/ leftOpen)

-----------------------------------------------------------------------------
(* The inductive invariant of the safety properties.                       *)

(* The debounce timer runs exactly while a flip is pending, and the flip   *)
(* is to the side that the last poll saw.                                  *)
Debouncing ==
  /\ timer <=> pending # "none"
  /\ timer => pending = Side(sampled)

(* While the loop can still publish, the client is started.                *)
Serving ==
  /\ loopPc \in {"await", "publish"} => phase \in {"running", "closing", "draining"}
  /\ phase \in {"dialing", "joining", "running", "closing", "draining"} => client

(* Without a failure every message taken is published, but the one that    *)
(* the loop is publishing, and only what was taken is committed.           *)
Delivered ==
  /\ committed <= position
  /\ loopPc = "publish" => position > 0
  /\ faults = 0 =>
       \A m \in 1..position : log[m] = "authorized" =>
         m \in published \/ (loopPc = "publish" /\ m = position)

IInv ==
  /\ TypeOK
  /\ StreamFollowsMonitor
  /\ StoppedIsQuiet
  /\ Debouncing
  /\ Serving
  /\ Delivered

=============================================================================
