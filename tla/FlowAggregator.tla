--------------------------- MODULE FlowAggregator ---------------------------
(* The capture of packets into flows (traffic_capture/): the sniffer's thread   *)
(* schedules a coroutine per packet on the event loop; the aggregator counts     *)
(* packets into flows and closes them by FIN, silence or age, under a lock that  *)
(* it keeps while the database stores the record.  (The locks of asyncio are     *)
(* fair, so that the coroutines get them in the order of capture; that the       *)
(* process ends without stop() is left out.)                                     *)
EXTENDS Integers, Sequences, FiniteSets

CONSTANTS
    FlowKeys,        \* 5-tuples
    IdleTimeout, ActiveTimeout,
    MaxPackets,      \* BOUND: packets
    MaxTick,         \* BOUND: the clock
    MaxFlowFaults    \* BOUND: rows that the database refuses

ASSUME CaptureAssumption ==
    {IdleTimeout, ActiveTimeout, MaxPackets, MaxTick, MaxFlowFaults} \subseteq Nat

VARIABLES
    tick,            \* the clock, of packets and of the loop
    captured,        \* what the sniffer saw: [key, at, fin]
    flowTurn,        \* who waits for the aggregator's lock: packets by number, or a check
    flows,           \* _active: [FlowKeys -> [n, first, last] or NoFlow]
    closing,         \* the records and keys that the holder of that lock still closes
    flowRows,        \* FlowRecords given to the callback: [key, n, first, last]
    flowFaults

captureVars == <<tick, captured, flowTurn, flows, closing, flowRows, flowFaults>>

NoFlow == [n |-> 0, first |-> 0, last |-> 0]
NoClosing == [record |-> <<>>, rest |-> {}]

CaptureInit ==
    /\ tick = 0 /\ captured = <<>> /\ flowTurn = <<>>
    /\ flows = [k \in FlowKeys |-> NoFlow] /\ closing = NoClosing /\ flowRows = <<>>
    /\ flowFaults = 0

ClockTicks ==
    /\ tick < MaxTick /\ tick' = tick + 1
    /\ UNCHANGED <<captured, flowTurn, flows, closing, flowRows, flowFaults>>

\* _on_packet_scapy, in the sniffer's thread: one coroutine for the aggregator.
Sniffs ==
    /\ Len(captured) < MaxPackets
    /\ \E k \in FlowKeys, fin \in BOOLEAN :
        captured' = Append(captured, [key |-> k, at |-> tick, fin |-> fin])
    /\ flowTurn' = Append(flowTurn, [packet |-> Len(captured'), now |-> 0])
    /\ UNCHANGED <<tick, flows, closing, flowRows, flowFaults>>

\* _timeout_loop reads the time, and then waits for the lock.  (One check at a time.)
ChecksTimeouts ==
    /\ \A i \in DOMAIN flowTurn : flowTurn[i].packet # 0
    /\ flowTurn' = Append(flowTurn, [packet |-> 0, now |-> tick])
    /\ UNCHANGED <<tick, captured, flows, closing, flowRows, flowFaults>>

FaultyFlowLockFree == TRUE
FlowLockFree == closing = NoClosing

Counted(flow, at) == [n |-> flow.n + 1, first |-> IF flow.n = 0 THEN at ELSE flow.first, last |-> at]
RecordOf(k, flow) == <<[key |-> k, n |-> flow.n, first |-> flow.first, last |-> flow.last]>>

\* on_packet: a FIN or RST takes its flow out, and the lock is kept for its record.
CountsPacket ==
    /\ FlowLockFree /\ flowTurn # <<>> /\ Head(flowTurn).packet # 0
    /\ LET pkt == captured[Head(flowTurn).packet]
           flow == Counted(flows[pkt.key], pkt.at) IN
       /\ flows' = [flows EXCEPT ![pkt.key] = IF pkt.fin THEN NoFlow ELSE flow]
       /\ closing' = IF pkt.fin THEN [record |-> RecordOf(pkt.key, flow), rest |-> {}] ELSE NoClosing
    /\ flowTurn' = Tail(flowTurn)
    /\ UNCHANGED <<tick, captured, flowRows, flowFaults>>

TimedOut(flow, now) == now - flow.last > IdleTimeout \/ now - flow.first > ActiveTimeout

FindsTimeouts ==
    /\ FlowLockFree /\ flowTurn # <<>> /\ Head(flowTurn).packet = 0
    /\ closing' = [record |-> <<>>, rest |-> {k \in FlowKeys :
                      flows[k].n > 0 /\ TimedOut(flows[k], Head(flowTurn).now)}]
    /\ flowTurn' = Tail(flowTurn)
    /\ UNCHANGED <<tick, captured, flows, flowRows, flowFaults>>

\* _close_flow, for the next flow that has timed out.
ClosesNext(k) ==
    /\ closing.record = <<>> /\ k \in closing.rest
    /\ closing' = [record |-> RecordOf(k, flows[k]), rest |-> closing.rest \ {k}]
    /\ flows' = [flows EXCEPT ![k] = NoFlow]
    /\ UNCHANGED <<tick, captured, flowTurn, flowRows, flowFaults>>

RowRefused == flowFaults < MaxFlowFaults /\ flowFaults' = flowFaults + 1

\* _persist_flow; an exception is logged, and the record is gone.
StoresFlow ==
    /\ closing.record # <<>>
    /\ \/ flowRows' = flowRows \o closing.record /\ flowFaults' = flowFaults
       \/ flowRows' = flowRows /\ RowRefused
    /\ closing' = [closing EXCEPT !.record = <<>>]
    /\ UNCHANGED <<tick, captured, flowTurn, flows>>

CaptureNext ==
    \/ ClockTicks \/ Sniffs \/ ChecksTimeouts
    \/ CountsPacket \/ FindsTimeouts \/ (\E k \in FlowKeys : ClosesNext(k)) \/ StoresFlow

CaptureSpec == CaptureInit /\ [][CaptureNext]_captureVars
-----------------------------------------------------------------------------
(* Properties *)

CaptureTypeOK ==
    /\ tick \in 0..MaxTick /\ flowFaults \in 0..MaxFlowFaults
    /\ captured \in Seq([key : FlowKeys, at : 0..MaxTick, fin : BOOLEAN])
    /\ flows \in [FlowKeys -> [n : 0..MaxPackets, first : 0..MaxTick, last : 0..MaxTick]]
    /\ closing.rest \subseteq FlowKeys

Waiting == {flowTurn[i].packet : i \in DOMAIN flowTurn}
CountedOf(k) == {i \in DOMAIN captured \ Waiting : captured[i].key = k}
Closed == flowRows \o closing.record
\* The packets of a 5-tuple's records: a record counts n of them.
InRecords(k) == UNION {{i} \X (1..Closed[i].n) : i \in {j \in DOMAIN Closed : Closed[j].key = k}}

\* Every packet that was handled is counted in one flow, which is open or recorded: also one
\* that arrives while its flow is closed and the database is waited for.
EveryPacketCounted ==
    \A k \in FlowKeys :
        LET n == Cardinality(InRecords(k)) + flows[k].n IN
        n <= Cardinality(CountedOf(k)) /\ (flowFaults = 0 => n = Cardinality(CountedOf(k)))

\* The records of a 5-tuple follow each other in time: timers that read the clock before
\* they wait for the lock do not make flows that overlap.
SpansInOrder ==
    /\ \A i \in DOMAIN Closed :
        LET r == Closed[i] IN r.first <= r.last /\ (flows[r.key].n > 0 => r.last <= flows[r.key].first)
    /\ \A i, j \in DOMAIN Closed :
        i < j /\ Closed[i].key = Closed[j].key => Closed[i].last <= Closed[j].first
    /\ \A k \in FlowKeys : flows[k].first <= flows[k].last

\* Packets are neither lost nor counted twice on their way into flows.
FlowsCounted == CaptureTypeOK /\ EveryPacketCounted /\ SpansInOrder
=============================================================================
