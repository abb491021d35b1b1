----------------------------- MODULE PcapFiles ------------------------------
(* The files of captured packets (traffic_capture/pcap_store.py): a coroutine    *)
(* per packet waits for the lock of the store, writes into the current file, and *)
(* rotates it by size or age; the lock is kept while the row of the closed file  *)
(* is stored, for the file counts as the current one until then.  (The clean-up  *)
(* of old files is left out.)                                                    *)
EXTENDS Integers, Sequences, FiniteSets

CONSTANTS
    PacketsPerFile,  \* rotation_mb
    MaxWritten,      \* BOUND: packets
    MaxMetaFaults    \* BOUND: rows that the database refuses

ASSUME PcapAssumption == PacketsPerFile \in Nat \ {0} /\ {MaxWritten, MaxMetaFaults} \subseteq Nat

VARIABLES
    sniffed,         \* how many packets were scheduled; a packet is named by its number
    fileTurn,        \* packets that wait for the lock
    open,            \* packets of the current file
    rotating,        \* the current file is closed, and its row is being stored
    files,           \* closed files: [packets, told: the packets that its row tells of]
    metaFaults

pcapVars == <<sniffed, fileTurn, open, rotating, files, metaFaults>>

PcapInit ==
    /\ sniffed = 0 /\ fileTurn = <<>>
    /\ open = <<>> /\ rotating = FALSE /\ files = <<>>
    /\ metaFaults = 0

SchedulesWrite ==
    /\ sniffed < MaxWritten /\ sniffed' = sniffed + 1
    /\ fileTurn' = Append(fileTurn, sniffed')
    /\ UNCHANGED <<open, rotating, files, metaFaults>>

FileLockFree == ~rotating

\* on_packet: opens a file if there is none, writes (a file that is closed refuses that), and
\* rotates by size, or at any time by age.
WritesPacket ==
    /\ FileLockFree /\ fileTurn # <<>>
    /\ open' = IF rotating THEN open ELSE Append(open, Head(fileTurn))
    /\ rotating' \in {TRUE, Len(open') >= PacketsPerFile}
    /\ fileTurn' = Tail(fileTurn)
    /\ UNCHANGED <<sniffed, files, metaFaults>>

\* _rotate behind its callback, whose failure is passed over: no file is open any more.
Rotates ==
    /\ rotating /\ rotating' = FALSE
    /\ \/ files' = Append(files, [packets |-> open, told |-> Len(open)]) /\ UNCHANGED metaFaults
       \/ /\ metaFaults < MaxMetaFaults /\ metaFaults' = metaFaults + 1
          /\ files' = Append(files, [packets |-> open, told |-> 0])
    /\ open' = <<>>
    /\ UNCHANGED <<sniffed, fileTurn>>

PcapNext == SchedulesWrite \/ WritesPacket \/ Rotates

PcapSpec == PcapInit /\ [][PcapNext]_pcapVars
-----------------------------------------------------------------------------
(* Properties *)

PcapTypeOK ==
    /\ sniffed \in 0..MaxWritten /\ rotating \in BOOLEAN /\ metaFaults \in 0..MaxMetaFaults
    /\ files \in Seq([packets : Seq(1..MaxWritten), told : 0..MaxWritten])

\* The number of the last packet of the first i files.
UpTo(i) == IF i = 0 THEN 0 ELSE files[i].packets[Len(files[i].packets)]
Follow(packets, n) == \A i \in DOMAIN packets : packets[i] = n + i

\* The files hold all packets in the order of their capture, also those that arrive during a
\* rotation, and each closed file has a row with its packets, unless its row was refused.
FilesHoldAll ==
    /\ \A i \in DOMAIN files : files[i].packets # <<>> /\ Follow(files[i].packets, UpTo(i - 1))
    /\ Follow(open \o fileTurn, UpTo(Len(files)))
    /\ UpTo(Len(files)) + Len(open \o fileTurn) = sniffed
    /\ Cardinality({i \in DOMAIN files : files[i].told # Len(files[i].packets)}) <= metaFaults

\* No packet is lost on its way into the files.
FilesSound == PcapTypeOK /\ FilesHoldAll
=============================================================================
