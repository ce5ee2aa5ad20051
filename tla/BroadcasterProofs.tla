-------------------------- MODULE BroadcasterProofs --------------------------
(***************************************************************************)
(* What the broadcaster promises, for any number of peers, minimum, log    *)
(* and number of faults.                                                   *)
(***************************************************************************)
EXTENDS Broadcaster, FiniteSetTheorems, WellFoundedInduction, TLAPS

-----------------------------------------------------------------------------
(* Lemmas about the data the model is built from.                          *)

(* A nonempty set of naturals has a minimum.                               *)
LEMMA MinOfNaturals ==
  ASSUME NEW S, S \subseteq Nat, S # {}
  PROVE  Min(S) \in S
<1>1. \E t \in S : \A u \in S : ~ (<<u, t>> \in OpToRel(<, Nat))
  BY WFMin, NatLessThanWellFounded
<1>2. \A t, u \in S : ~ (<<u, t>> \in OpToRel(<, Nat)) => t <= u
  BY DEF OpToRel
<1> QED BY <1>1, <1>2 DEF Min

(* A sweep goes on to a reserved peer.                                     *)
LEMMA SweepStaysInPeers ==
  ASSUME NEW p \in Nat, NEW up
  PROVE  DialAfter(p, up) \subseteq Peers
<1> DEFINE left == {q \in (p + 1)..PeerCount : q \notin up}
<1>1. left \subseteq Nat /\ left \subseteq Peers
  BY BroadcasterAssumption DEF Peers
<1>2. DialAfter(p, up) = IF left = {} THEN {} ELSE {Min(left)}
  BY DEF DialAfter
<1>3. left # {} => Min(left) \in left
  <2> HIDE DEF left
  <2> QED BY <1>1, MinOfNaturals
<1> QED BY <1>1, <1>2, <1>3

(* No more peers are connected than are reserved.                          *)
LEMMA ConnectedCount ==
  ASSUME connected \subseteq Peers
  PROVE  Cardinality(connected) \in 0..PeerCount
<1>1. PeerCount \in Nat
  BY BroadcasterAssumption
<1>2. IsFiniteSet(Peers) /\ Cardinality(Peers) = PeerCount
  BY <1>1, FS_Interval DEF Peers
<1>3. IsFiniteSet(connected) /\ Cardinality(connected) <= Cardinality(Peers)
  BY <1>2, FS_Subset
<1>4. Cardinality(connected) \in Nat
  BY <1>3, FS_CardinalityType
<1> QED BY <1>1, <1>2, <1>3, <1>4

-----------------------------------------------------------------------------
(* Every process starts in the invariant.                                  *)
LEMMA Initially ==
  ASSUME Init
  PROVE  IInv
<1>1. TypeOK
  <2>1. DataTyped
    BY BroadcasterAssumption DEF Init, DataTyped, Phases, Starting
  <2>2. FlagsTyped
    <3>1. Monitored \in BOOLEAN
      BY DEF Monitored
    <3> QED BY <3>1 DEF Init, FlagsTyped
  <2> QED BY <2>1, <2>2 DEF TypeOK
<1>2. StreamFollowsMonitor /\ StoppedIsQuiet /\ Debouncing /\ Serving
  BY DEF Init, StreamFollowsMonitor, StoppedIsQuiet, Debouncing, Serving, Stopping
<1>3. Delivered
  BY DEF Init, Delivered
<1> QED BY <1>1, <1>2, <1>3 DEF IInv

(* Every step keeps the types of the data ...                              *)
LEMMA DataKept ==
  ASSUME IInv, [Next]_vars
  PROVE  DataTyped'
<1> USE DEF DataTyped, TypeOK, IInv
<1>1. ASSUME NEW p \in Peers, PeerTurns(p) PROVE DataTyped'
  BY <1>1 DEF PeerTurns, Elsewhere, lasting, dialer, monitor, consumer, signals
<1>2. ASSUME NEW p \in Peers, LinkTurns(p) PROVE DataTyped'
  BY <1>2 DEF LinkTurns, Elsewhere, lasting, monitor, consumer, signals
<1>3. CASE Sweep
  BY <1>3, SweepStaysInPeers DEF Sweep, Elsewhere, lasting, monitor, consumer, signals
<1>4. ASSUME NEW p \in Peers, EndDial(p) PROVE DataTyped'
  <2>1. p \in Nat
    BY BroadcasterAssumption DEF Peers
  <2>2. DialAfter(p, connected') \subseteq Peers
    BY <2>1, SweepStaysInPeers
  <2> QED BY <1>4, <2>2 DEF EndDial, Elsewhere, lasting, monitor, consumer, signals
<1>5. CASE Poll
  <2>1. Desired \in {"pause", "resume"} /\ Cardinality(connected) \in 0..PeerCount
    BY ConnectedCount DEF Desired, Side
  <2> QED BY <1>5, <2>1 DEF Poll, Notify, ClearPending, InMonitor, lasting, dialer, consumer, signals
<1>6. CASE TimerFires
  BY <1>6 DEF TimerFires, Apply, ClearPending, InMonitor, lasting, dialer, consumer, signals
<1>7. CASE StartStep
  <2>1. DialAfter(0, connected) \subseteq Peers
    BY SweepStaysInPeers
  <2> USE DEF MoveTo, Phases, Starting, Undoing, lasting, monitor, consumer, signals
  <2>2. CASE CreateClient
    BY <2>2 DEF CreateClient
  <2>7. CASE UndoConsumer
    BY <2>7, BroadcasterAssumption DEF UndoConsumer, Fault, dialer
  <2>3. CASE StartClient
    BY <2>1, <2>3 DEF StartClient
  <2>4. CASE EndFirstSweep
    BY <2>4 DEF EndFirstSweep
  <2>5. CASE JoinGroup
    BY <2>5 DEF JoinGroup, Joined, dialer
  <2>6. CASE UndoClient
    BY <2>6, BroadcasterAssumption DEF UndoClient, Fault, ClientStopped, NodeStopped
  <2> QED BY <1>7, <2>2, <2>3, <2>4, <2>5, <2>6, <2>7 DEF StartStep
<1>8. CASE StartFails
  BY <1>8, BroadcasterAssumption DEF StartFails, Fault, Proceed, MoveTo,
     Phases, Undoing, lasting, dialer, monitor, consumer, signals
<1>9. CASE LoopStep \/ PublishFails \/ AutoCommit
  <2> USE DEF InLoop, dialer, monitor, signals
  <2>1. Len(log) = MaxMessages
    BY BroadcasterAssumption
  <2>2. CASE SkipMessage \/ TakeMessage
    <3>1. position' \in 0..MaxMessages
      BY <2>1, <2>2, BroadcasterAssumption DEF SkipMessage, TakeMessage, Take
    <3>2. UNCHANGED <<log, committed, published, reachable, connected, dialing, sampled, pending,
                      phase, listeners, faults>>
      BY <2>2 DEF SkipMessage, TakeMessage, Take
    <3>3. loopPc' \in {loopPc, "publish"}
      BY <2>2 DEF SkipMessage, TakeMessage
    <3> QED BY <3>1, <3>2, <3>3
  <2>3. CASE Publish
    <3>1. position \in 1..MaxMessages
      BY <2>3, BroadcasterAssumption DEF Publish, Published, Delivered
    <3>2. published' \subseteq 1..MaxMessages
      BY <2>3, <3>1 DEF Publish, Published
    <3> QED BY <2>3, <3>2 DEF Publish, Published
  <2>4. CASE PublishFails
    BY <2>4, BroadcasterAssumption DEF PublishFails, Published, Fault
  <2>5. CASE AutoCommit \/ LoopEnds
    BY <2>5 DEF AutoCommit, LoopEnds, consumer
  <2> QED BY <1>9, <2>2, <2>3, <2>4, <2>5 DEF LoopStep
<1>10. ASSUME NEW s \in Signals, Signal(s) PROVE DataTyped'
  BY <1>10 DEF Signal, Shutdown, Stop, ClearPending, MoveTo, Phases, Stopping,
     lasting, dialer, monitor, consumer
<1>11. CASE ProcessLost /\ faults' \in 0..MaxFaults
  BY <1>11, BroadcasterAssumption DEF ProcessLost, NodeStopped, ClientStopped, ClearPending, Resume, Phases, lasting
<1>12. CASE (\E s \in Signals : Kill(s)) \/ Crash \/ StopFails \/ Exit
  BY <1>11, <1>12, BroadcasterAssumption DEF Kill, Crash, StopFails, Exit, Fault
<1>13. CASE CloseConsumer \/ LeaveTopic \/ StopNode \/ CloseServer \/ Restart
  <2> USE DEF MoveTo, Phases, Starting, Stopping, lasting, monitor, consumer, signals
  <2>1. CASE CloseConsumer \/ CloseServer \/ Restart
    BY <2>1 DEF CloseConsumer, CloseServer, Restart, Proceed, dialer
  <2>2. CASE LeaveTopic
    BY <2>2 DEF LeaveTopic, LeaveTopicNow, ClientStopped
  <2>3. CASE StopNode
    BY <2>3 DEF StopNode, NodeStopped
  <2> QED BY <1>13, <2>1, <2>2, <2>3
<1>14. CASE UNCHANGED vars
  BY <1>14 DEF vars
<1> QED BY <1>1, <1>2, <1>3, <1>4, <1>5, <1>6, <1>7, <1>8, <1>9, <1>10, <1>12, <1>13, <1>14
        DEF Next, StopStep

(* ... and of the flags.                                                   *)
LEMMA FlagsKept ==
  ASSUME IInv, [Next]_vars
  PROVE  FlagsTyped'
<1> USE DEF FlagsTyped, TypeOK, IInv, lasting, consumer
<1>1. CASE UNCHANGED <<node, client, redial, polling, paused, timer, streamPaused, shuttingDown,
                      wellFormed, leftOpen>>
  BY <1>1
<1>2. CASE \E p \in Peers : PeerTurns(p) \/ LinkTurns(p) \/ EndDial(p)
  BY <1>1, <1>2 DEF PeerTurns, LinkTurns, EndDial, Elsewhere, dialer, monitor, signals
<1>3. CASE Sweep \/ StartFails \/ CloseConsumer \/ CloseServer \/ Restart
  BY <1>1, <1>3 DEF Sweep, Elsewhere, StartFails, CloseConsumer, CloseServer, Restart,
     Proceed, MoveTo, dialer, monitor, signals
<1>14. CASE CreateClient \/ UndoConsumer
  BY <1>14 DEF CreateClient, UndoConsumer, MoveTo, dialer, monitor, signals
<1>4. CASE LoopStep \/ PublishFails \/ AutoCommit
  BY <1>1, <1>4 DEF LoopStep, SkipMessage, TakeMessage, Take, Publish, PublishFails, Published,
     AutoCommit, LoopEnds, InLoop, dialer, monitor, signals
<1>5. CASE Poll
  BY <1>5 DEF Poll, Notify, ClearPending, InMonitor, dialer, signals
<1>6. CASE TimerFires
  BY <1>6 DEF TimerFires, Apply, ClearPending, InMonitor, dialer, signals
<1>7. CASE StartClient \/ EndFirstSweep \/ LeaveTopic \/ StopNode
  BY <1>7 DEF MoveTo, StartClient, EndFirstSweep, LeaveTopic, LeaveTopicNow, StopNode,
     ClientStopped, NodeStopped, monitor, signals
<1>8. CASE JoinGroup
  BY <1>8 DEF MoveTo, JoinGroup, Joined, Monitored, dialer
<1>9. CASE UndoClient
  BY <1>9 DEF MoveTo, UndoClient, ClientStopped, NodeStopped, monitor, signals
<1>10. CASE \E s \in Signals : Signal(s)
  BY <1>10 DEF Signal, Shutdown, Stop, MoveTo, ClearPending, dialer, monitor
<1>11. CASE ProcessLost
  <2>1. Monitored \in BOOLEAN
    BY DEF Monitored
  <2> QED BY <1>11, <2>1 DEF ProcessLost, NodeStopped, ClientStopped, ClearPending
<1>12. CASE (\E s \in Signals : Kill(s)) \/ Crash \/ StopFails \/ Exit
  BY <1>11, <1>12 DEF Kill, Crash, StopFails, Exit
<1>13. CASE UNCHANGED vars
  BY <1>1, <1>13 DEF vars
<1> QED BY <1>2, <1>3, <1>4, <1>5, <1>6, <1>7, <1>8, <1>9, <1>10, <1>12, <1>13, <1>14
        DEF Next, StartStep, StopStep

(* The stream goes where the monitor goes.                                 *)
LEMMA StreamKept ==
  ASSUME IInv, [Next]_vars
  PROVE  StreamFollowsMonitor'
<1> USE DEF StreamFollowsMonitor, IInv, Stopping
<1>1. CASE UNCHANGED <<phase, paused, streamPaused>>
  BY <1>1
<1>2. CASE \E p \in Peers : PeerTurns(p) \/ LinkTurns(p) \/ EndDial(p)
  BY <1>1, <1>2 DEF PeerTurns, LinkTurns, EndDial, Elsewhere, monitor
<1>3. CASE Sweep \/ Poll
  BY <1>1, <1>3 DEF Sweep, Elsewhere, Poll, InMonitor, monitor
<1>4. CASE TimerFires
  BY <1>4 DEF TimerFires, Apply, InMonitor
<1>5. CASE CreateClient \/ StartClient \/ EndFirstSweep \/ UndoConsumer \/ UndoClient \/ StartFails \/ Restart
  BY <1>5 DEF CreateClient, StartClient, EndFirstSweep, UndoConsumer, UndoClient, StartFails, Restart,
     Proceed, MoveTo
<1>6. CASE JoinGroup
  BY <1>6 DEF JoinGroup, Joined
<1>7. CASE LoopStep \/ PublishFails \/ AutoCommit
  BY <1>1, <1>7 DEF LoopStep, SkipMessage, TakeMessage, Take, Publish, PublishFails, Published,
     AutoCommit, LoopEnds, InLoop, monitor
<1>8. CASE \E s \in Signals : Signal(s)
  BY <1>8 DEF Signal, Shutdown, Stop, MoveTo, monitor
<1>9. CASE CloseConsumer \/ LeaveTopic \/ StopNode \/ CloseServer
  BY <1>9 DEF CloseConsumer, LeaveTopic, LeaveTopicNow, StopNode, CloseServer, Proceed, MoveTo, monitor
<1>10. CASE (\E s \in Signals : Kill(s)) \/ Crash \/ StopFails \/ Exit
  BY <1>10 DEF Kill, Crash, StopFails, Exit, ProcessLost
<1>11. CASE UNCHANGED vars
  BY <1>1, <1>11 DEF vars
<1> QED BY <1>2, <1>3, <1>4, <1>5, <1>6, <1>7, <1>8, <1>9, <1>10, <1>11 DEF Next, StartStep, StopStep

(* A stopped timer stays stopped.                                          *)
LEMMA QuietKept ==
  ASSUME IInv, [Next]_vars
  PROVE  StoppedIsQuiet'
<1> USE DEF StoppedIsQuiet, IInv, Stopping
<1>1. CASE UNCHANGED <<phase, polling, timer, redial>>
  BY <1>1
<1>2. CASE \E p \in Peers : PeerTurns(p) \/ LinkTurns(p) \/ EndDial(p)
  BY <1>1, <1>2 DEF PeerTurns, LinkTurns, EndDial, Elsewhere, dialer, monitor
<1>3. CASE Sweep
  BY <1>1, <1>3 DEF Sweep, Elsewhere, monitor
<1>4. CASE Poll \/ TimerFires
  BY <1>4 DEF Poll, TimerFires, ClearPending, InMonitor, dialer
<1>5. CASE CreateClient \/ StartClient \/ EndFirstSweep \/ JoinGroup \/ UndoConsumer \/ StartFails \/ Restart
  BY <1>5 DEF CreateClient, StartClient, EndFirstSweep, JoinGroup, Joined, UndoConsumer, StartFails, Restart,
     Proceed, MoveTo
<1>6. CASE UndoClient
  BY <1>6 DEF UndoClient, ClientStopped, MoveTo
<1>7. CASE LoopStep \/ PublishFails \/ AutoCommit
  BY <1>1, <1>7 DEF LoopStep, SkipMessage, TakeMessage, Take, Publish, PublishFails, Published,
     AutoCommit, LoopEnds, InLoop, dialer, monitor
<1>8. CASE \E s \in Signals : Signal(s)
  BY <1>1, <1>8 DEF Signal, Shutdown, Stop, ClearPending, MoveTo, dialer, monitor
<1>9. CASE CloseConsumer \/ LeaveTopic \/ StopNode \/ CloseServer
  BY <1>9 DEF CloseConsumer, LeaveTopic, LeaveTopicNow, StopNode, CloseServer, ClientStopped,
     Proceed, MoveTo, dialer, monitor
<1>10. CASE (\E s \in Signals : Kill(s)) \/ Crash \/ StopFails \/ Exit
  BY <1>10 DEF Kill, Crash, StopFails, Exit, ProcessLost
<1>11. CASE UNCHANGED vars
  BY <1>1, <1>11 DEF vars
<1> QED BY <1>2, <1>3, <1>4, <1>5, <1>6, <1>7, <1>8, <1>9, <1>10, <1>11 DEF Next, StartStep, StopStep

(* Only polls and the timer itself touch a pending flip; all else leaves   *)
(* the monitor alone or clears it.                                         *)
LEMMA DebouncingKept ==
  ASSUME IInv, [Next]_vars
  PROVE  Debouncing'
<1> USE DEF Debouncing, IInv
<1>1. CASE UNCHANGED <<sampled, pending, timer>>
  BY <1>1 DEF Side
<1>2. CASE ClearPending
  BY <1>2 DEF ClearPending
<1>3. CASE Poll
  <2>1. sampled' = Cardinality(connected) /\ Desired = Side(sampled') /\ Desired # "none"
    BY <1>3 DEF Poll, Desired, Side
  <2> QED BY <1>3, <2>1 DEF Poll, Notify, ClearPending
<1>4. CASE TimerFires \/ ProcessLost
  BY <1>2, <1>4 DEF TimerFires, ProcessLost
<1>5. CASE \E s \in Signals : Signal(s)
  BY <1>1, <1>2, <1>5 DEF Signal, Shutdown, Stop, monitor
<1>6. CASE (\E p \in Peers : PeerTurns(p) \/ LinkTurns(p) \/ EndDial(p)) \/ Sweep
  BY <1>1, <1>6 DEF PeerTurns, LinkTurns, EndDial, Sweep, Elsewhere, monitor
<1>7. CASE StartStep \/ StartFails \/ Restart
  BY <1>1, <1>7 DEF StartStep, CreateClient, StartClient, EndFirstSweep, JoinGroup, Joined,
     UndoConsumer, UndoClient, StartFails, Restart, Proceed, monitor
<1>8. CASE LoopStep \/ PublishFails \/ AutoCommit
  BY <1>1, <1>8 DEF LoopStep, SkipMessage, TakeMessage, Take, Publish, PublishFails, Published,
     AutoCommit, LoopEnds, InLoop, monitor
<1>9. CASE CloseConsumer \/ LeaveTopic \/ StopNode \/ CloseServer
  BY <1>1, <1>9 DEF CloseConsumer, LeaveTopic, LeaveTopicNow, StopNode, CloseServer, Proceed, monitor
<1>10. CASE (\E s \in Signals : Kill(s)) \/ Crash \/ StopFails \/ Exit
  BY <1>4, <1>10 DEF Kill, Crash, StopFails, Exit
<1>11. CASE UNCHANGED vars
  BY <1>1, <1>11 DEF vars
<1> QED BY <1>3, <1>4, <1>5, <1>6, <1>7, <1>8, <1>9, <1>10, <1>11 DEF Next, StopStep

(* The client outlives the loop.                                           *)
LEMMA ServingKept ==
  ASSUME IInv, [Next]_vars
  PROVE  Serving'
<1> USE DEF Serving, IInv
<1>1. CASE UNCHANGED <<loopPc, phase, client>>
  BY <1>1
<1>2. CASE \E p \in Peers : PeerTurns(p) \/ LinkTurns(p) \/ EndDial(p)
  BY <1>1, <1>2 DEF PeerTurns, LinkTurns, EndDial, Elsewhere, dialer, consumer
<1>3. CASE Sweep \/ Poll \/ TimerFires
  BY <1>1, <1>3 DEF Sweep, Elsewhere, Poll, TimerFires, InMonitor, dialer, consumer
<1>4. CASE CreateClient \/ StartClient \/ EndFirstSweep
  BY <1>4 DEF CreateClient, StartClient, EndFirstSweep, Proceed, MoveTo, dialer, consumer
<1>5. CASE JoinGroup
  BY <1>5 DEF JoinGroup, Joined, MoveTo, dialer
<1>6. CASE UndoConsumer \/ UndoClient \/ StartFails \/ Restart
  BY <1>6 DEF UndoConsumer, UndoClient, StartFails, Restart, Proceed, MoveTo, consumer
<1>7. CASE LoopStep \/ PublishFails \/ AutoCommit
  BY <1>7 DEF LoopStep, SkipMessage, TakeMessage, Take, Publish, PublishFails, Published,
     AutoCommit, LoopEnds, InLoop, dialer, consumer
<1>8. CASE \E s \in Signals : Signal(s)
  BY <1>1, <1>8 DEF Signal, Shutdown, Stop, MoveTo, dialer, consumer
<1>9. CASE CloseConsumer \/ LeaveTopic \/ StopNode \/ CloseServer
  BY <1>9 DEF CloseConsumer, LeaveTopic, LeaveTopicNow, StopNode, CloseServer, Proceed, MoveTo,
     dialer, consumer
<1>10. CASE (\E s \in Signals : Kill(s)) \/ Crash \/ StopFails \/ Exit
  BY <1>10 DEF Kill, Crash, StopFails, Exit, ProcessLost
<1>11. CASE UNCHANGED vars
  BY <1>1, <1>11 DEF vars
<1> QED BY <1>2, <1>3, <1>4, <1>5, <1>6, <1>7, <1>8, <1>9, <1>10, <1>11 DEF Next, StartStep, StopStep

(* Nothing taken is dropped.                                               *)
LEMMA DeliveredKept ==
  ASSUME IInv, [Next]_vars
  PROVE  Delivered'
<1>1. /\ committed \in Nat /\ position \in Nat /\ faults \in Nat
  BY BroadcasterAssumption DEF IInv, TypeOK, DataTyped
<1> USE <1>1 DEF Delivered, IInv
<1>2. CASE UNCHANGED <<log, committed, published, position, loopPc, faults>>
  BY <1>2
<1>3. CASE (\E p \in Peers : PeerTurns(p) \/ LinkTurns(p) \/ EndDial(p)) \/ Sweep \/ Poll \/ TimerFires
  BY <1>2, <1>3 DEF PeerTurns, LinkTurns, EndDial, Sweep, Elsewhere, Poll, TimerFires, InMonitor,
     lasting, consumer
<1>4. CASE CreateClient \/ StartClient \/ EndFirstSweep \/ Restart
  BY <1>2, <1>4 DEF CreateClient, StartClient, EndFirstSweep, Restart,
     Proceed, MoveTo, lasting, consumer
<1>17. CASE UndoConsumer \/ UndoClient
  <2>1. /\ UNCHANGED <<log, committed, published, position, loopPc>>
        /\ faults' = faults \/ faults' = faults + 1
    BY <1>17 DEF UndoConsumer, UndoClient, Fault, MoveTo, lasting
  <2> QED BY <2>1
<1>5. CASE JoinGroup
  <2>1. loopPc # "publish"
    BY <1>5 DEF JoinGroup, Joined, MoveTo, Serving
  <2> QED BY <1>5, <2>1 DEF JoinGroup, Joined, MoveTo, lasting
<1>6. CASE StartFails
  BY <1>6 DEF StartFails, Fault, Proceed, MoveTo, lasting, consumer
<1>7. CASE SkipMessage \/ TakeMessage
  <2>1. /\ position' = position + 1 /\ loopPc = "await"
        /\ UNCHANGED <<log, committed, published, faults>>
    BY <1>7 DEF SkipMessage, TakeMessage, Take, InLoop
  <2>2. \/ loopPc' = "await" /\ log[position + 1] # "authorized"
        \/ loopPc' = "publish"
    BY <1>7 DEF SkipMessage, TakeMessage, Take
  <2> QED BY <2>1, <2>2
<1>8. CASE Publish
  <2>1. client
    BY <1>8 DEF Publish, Published, Serving
  <2> QED BY <1>8, <2>1 DEF Publish, Published, InLoop
<1>9. CASE PublishFails
  BY <1>9 DEF PublishFails, Published, Fault, InLoop
<1>10. CASE AutoCommit
  BY <1>10 DEF AutoCommit, InLoop, consumer
<1>11. CASE LoopEnds
  BY <1>11 DEF LoopEnds, InLoop
<1>12. CASE \E s \in Signals : Signal(s)
  BY <1>2, <1>12 DEF Signal, Shutdown, Stop, MoveTo, lasting, consumer
<1>13. CASE CloseConsumer \/ LeaveTopic \/ StopNode \/ CloseServer
  BY <1>2, <1>13 DEF CloseConsumer, LeaveTopic, LeaveTopicNow, StopNode, CloseServer, Proceed, MoveTo,
     lasting, consumer
<1>14. CASE Exit
  <2>1. loopPc # "publish"
    BY <1>14 DEF Exit, Serving
  <2> QED BY <1>14, <2>1 DEF Exit, ProcessLost, Resume, lasting
<1>15. CASE (\E s \in Signals : Kill(s)) \/ Crash \/ StopFails
  <2>1. /\ committed' = committed /\ position' = committed /\ loopPc' = "idle"
        /\ log' = log /\ published' = published
    BY <1>15 DEF Kill, Crash, StopFails, ProcessLost, Resume, lasting
  <2>2. faults' = faults + 1 \/ (faults' = faults /\ loopPc # "publish")
    BY <1>15 DEF Kill, Crash, StopFails, Fault, Serving
  <2> QED BY <2>1, <2>2
<1>16. CASE UNCHANGED vars
  BY <1>2, <1>16 DEF vars
<1> QED BY <1>3, <1>4, <1>5, <1>6, <1>7, <1>8, <1>9, <1>10, <1>11, <1>12, <1>13, <1>14, <1>15, <1>16,
       <1>17
    DEF Next, StartStep, LoopStep, StopStep

-----------------------------------------------------------------------------
(* What holds in every reachable state.                                    *)
THEOREM Invariant == Spec => []IInv
<1>1. Init => IInv
  BY Initially
<1>2. IInv /\ [Next]_vars => IInv'
  BY DataKept, FlagsKept, StreamKept, QuietKept, DebouncingKept, ServingKept, DeliveredKept
     DEF IInv, TypeOK
<1> QED BY <1>1, <1>2, PTL DEF Spec

(* Every variable has its type.                                            *)
THEOREM TypeCorrect == Spec => []TypeOK
<1>1. IInv => TypeOK
  BY DEF IInv
<1> QED BY <1>1, Invariant, PTL

(* The stream flows exactly when the monitor says so.                      *)
THEOREM StreamIsGated == Spec => []StreamFollowsMonitor
<1>1. IInv => StreamFollowsMonitor
  BY DEF IInv
<1> QED BY <1>1, Invariant, PTL

(* A stop leaves no timer behind.                                          *)
THEOREM StopIsQuiet == Spec => []StoppedIsQuiet
<1>1. IInv => StoppedIsQuiet
  BY DEF IInv
<1> QED BY <1>1, Invariant, PTL

(* Until a call fails or the process is killed, an autocommitted message   *)
(* is published, or is being published by a client that is started.        *)
THEOREM NothingLost == Spec => []NoSilentLoss
<1>1. IInv => NoSilentLoss
  <2> SUFFICES ASSUME IInv PROVE NoSilentLoss
    OBVIOUS
  <2>1. committed \in Nat /\ position \in Nat
    BY BroadcasterAssumption DEF IInv, TypeOK, DataTyped
  <2>2. loopPc = "publish" => client
    BY DEF IInv, Serving
  <2> QED BY <2>1, <2>2 DEF IInv, Delivered, NoSilentLoss
<1> QED BY <1>1, Invariant, PTL

(* A flip is to a side on which the last poll and the timer agree.         *)
THEOREM Debounced == Spec => FlipsAreDebounced
<1>1. IInv /\ [Next]_vars =>
        [(paused' # paused /\ phase' = phase) => Side(sampled) = Applied' /\ Desired = Applied']_vars
  <2> SUFFICES ASSUME IInv, [Next]_vars, paused' # paused, phase' = phase
               PROVE  Side(sampled) = Applied' /\ Desired = Applied'
    OBVIOUS
  <2>1. TimerFires
    <3>1. ~ \E p \in Peers : PeerTurns(p) \/ LinkTurns(p) \/ EndDial(p)
      BY DEF PeerTurns, LinkTurns, EndDial, Elsewhere, monitor
    <3>2. ~ (Sweep \/ Poll)
      BY DEF Sweep, Elsewhere, Poll, monitor
    <3>3. ~ (StartStep \/ StartFails \/ Restart)
      BY DEF StartStep, CreateClient, StartClient, EndFirstSweep, JoinGroup, Joined, UndoConsumer,
         UndoClient, StartFails, Restart, Proceed, MoveTo, monitor
    <3>4. ~ (LoopStep \/ PublishFails \/ AutoCommit)
      BY DEF LoopStep, SkipMessage, TakeMessage, Take, Publish, PublishFails, Published,
         AutoCommit, LoopEnds, InLoop, monitor
    <3>5. ~ \E s \in Signals : Signal(s)
      BY DEF Signal, Shutdown, Stop, monitor
    <3>6. ~ ((\E s \in Signals : Kill(s)) \/ Crash \/ StopStep \/ StopFails)
      BY DEF Kill, Crash, StopStep, StopFails, CloseConsumer, LeaveTopic, LeaveTopicNow, StopNode,
         CloseServer, Exit, ProcessLost, Proceed, MoveTo, monitor
    <3> QED BY <3>1, <3>2, <3>3, <3>4, <3>5, <3>6 DEF Next, vars
  <2>2. Desired = pending /\ Side(sampled) = pending /\ pending \in {"pause", "resume"}
    BY <2>1 DEF TimerFires, IInv, Debouncing, Side
  <2>3. paused' = (pending = "pause")
    BY <2>1, <2>2 DEF TimerFires, Apply
  <2> QED BY <2>2, <2>3 DEF Applied
<1> QED BY <1>1, Invariant, PTL DEF Spec, FlipsAreDebounced

=============================================================================
