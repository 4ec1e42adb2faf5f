--------------------------- MODULE WriteAheadLog ---------------------------
(***************************************************************************)
(* WalManger (pkg/wal): the double buffer, the direct writes, rotation,    *)
(* closing, and replay of what a crash or a failed write left in the       *)
(* segments.  SamStore takes a segment for a set of whole records; here a  *)
(* record is the frame the code writes, so that it can be torn.            *)
(*                                                                         *)
(* writeMu is the variable owner; a critical section of bufmu is an        *)
(* action.  There is one client, because the store calls the log under     *)
(* st.mu; it runs against the ticker, Flush callers and Close.             *)
(*                                                                         *)
(* Operators named Bug... are used by no definition: each is a mistake the *)
(* code could make in the definition that follows it.                      *)
(***************************************************************************)
EXTENDS Integers, Sequences, SequencesExt

CONSTANTS SyncPolicy,    \* "SyncEveryWrite" or "SyncInterval"
          BufferSize,    \* capacity of the buffer, in records
          SegmentSize,   \* size that triggers a rotation, in units
          MaxData,       \* records in one AppendLog call
          MaxRecord,     \* bound on the records ever appended
          MaxFailures,   \* bound on the I/O failures
          Misread,       \* payload length read from bytes that are no header
          Faults         \* the I/O failures that may happen

FaultKinds == {"fail",     \* a write stops between two frames, or a Sync,
                           \* rotation or close fails
               "tear",     \* a failed write stops inside a frame
               "header"}   \* a crash leaves a header and none of its payload

ASSUME WriteAheadLogAssumption ==
    /\ SyncPolicy \in {"SyncEveryWrite", "SyncInterval"}
    /\ BufferSize \in Nat \ {0}
    /\ SegmentSize \in Nat \ {0}
    /\ MaxData \in Nat \ {0}
    /\ MaxRecord \in Nat
    /\ MaxFailures \in Nat
    /\ Misread \in Nat
    /\ Faults \subseteq FaultKinds

VARIABLES
    segments,      \* the segment files, as units; the last one is active
    size,          \* activeWriter.segment.Size
    phase,         \* "open"; "closing": wm.closed is set; "closed": the file
                   \* is closed too; "down": the process died; "corrupt": a
                   \* restart was refused
    buffer,        \* wm.buffer
    bufferCap,     \* cap(wm.buffer)
    batch,         \* wm.flushBatch while it is being written
    batchCap,      \* cap(wm.flushBatch)
    flushErr,      \* wm.flushErr # nil
    owner,         \* who holds writeMu
    stage,         \* where the holder is in flushBufferLocked, "then" when
                   \* it has returned nil
    client,        \* where the client is
    data,          \* the records the client appends
    appended,      \* number of records ever given to AppendLog
    failures,      \* number of I/O failures so far
    acked,         \* history: records AppendLog accepted in this process, or
                   \* in an earlier one that had them secured
    secured        \* history: records AppendLog or a flush reported durable

logVars    == <<segments, size>>
bufferVars == <<buffer, bufferCap, batch, batchCap, flushErr>>
lockVars   == <<owner, stage>>
clientVars == <<client, data>>
counters   == <<appended, failures>>
history    == <<acked, secured>>
vars == <<logVars, phase, bufferVars, lockVars, clientVars, counters, history>>

-----------------------------------------------------------------------------
(* Frames.  Encode: an 8-byte header and a payload.  Two units of header   *)
(* and one of payload are enough to tell every tear apart.                 *)

HeaderSize == 2
FrameSize  == 3

Units(records) == FrameSize * Len(records)

(* The frame that unit u belongs to.                                       *)
FrameOf(u) == (u + FrameSize - 1) \div FrameSize

(* Unit u of the frames of records: whose it is, and which of its frame.   *)
Encoded(records) ==
    [u \in 1..Units(records) |->
        <<records[FrameOf(u)], u - FrameSize * (FrameOf(u) - 1)>>]

IsHeader(c, i) == /\ c[i][2] = 1
                  /\ c[i + 1] = <<c[i][1], 2>>

PayloadLength(c, i) == IF IsHeader(c, i) THEN FrameSize - HeaderSize ELSE Misread

(* What the checksum in the header accepts.                                *)
ChecksumOK(c, i) == /\ IsHeader(c, i)
                    /\ c[i + HeaderSize] = <<c[i][1], 3>>

BugKeepsTail(c, i) == i + HeaderSize >= Len(c) + 1

(* ReadRecord returned io.EOF: nothing left, but also a header at the very *)
(* end, because io.ReadFull says EOF when it reads no byte of the payload. *)
CleanEOF(c, i) ==
    \/ i = Len(c) + 1
    \/ i + HeaderSize = Len(c) + 1 /\ PayloadLength(c, i) > 0

(* ReadRecord returned io.ErrUnexpectedEOF.                                *)
Truncated(c, i) ==
    \/ i + HeaderSize > Len(c) + 1
    \/ i + HeaderSize + PayloadLength(c, i) > Len(c) + 1

(* replaySegment: a whole frame whose checksum is wrong is skipped; good   *)
(* is lastGoodOffset, where a torn tail is cut off.                        *)
Scan(c) ==
    LET from[i \in 1..(Len(c) + 1)] ==
          IF CleanEOF(c, i) \/ Truncated(c, i)
          THEN [records |-> <<>>, good |-> i - 1, torn |-> ~CleanEOF(c, i)]
          ELSE [from[i + HeaderSize + PayloadLength(c, i)] EXCEPT
                   !.records = IF ChecksumOK(c, i) THEN <<c[i][1]>> \o @ ELSE @]
    IN from[1]

(* ReplaySegments stops at a torn segment that is not the last one.        *)
Refused == \E s \in DOMAIN segments :
               s < Len(segments) /\ Scan(segments[s]).torn

(* The records that each segment gives back, one segment after the other.  *)
Replayed == [s \in DOMAIN segments |-> Scan(segments[s]).records]

-----------------------------------------------------------------------------
Init ==
    /\ segments = <<<<>>>>
    /\ size = 0
    /\ phase = "open"
    /\ buffer = <<>>
    /\ bufferCap = BufferSize
    /\ batch = <<>>
    /\ batchCap = BufferSize
    /\ flushErr = FALSE
    /\ owner = "none"
    /\ stage = "none"
    /\ client = "idle"
    /\ data = <<>>
    /\ appended = 0
    /\ failures = 0
    /\ acked = {}
    /\ secured = {}

-----------------------------------------------------------------------------
(* Writing to the active segment.                                          *)

(* shouldRotateSegment, by size: an empty segment takes any record.        *)
ShouldRotate(sz) == sz > 0 /\ sz + FrameSize > SegmentSize

(* The size of the segment a rotation made once the next frame is in it.   *)
BugForgetsFrame == 0
FirstFrame == FrameSize

(* writeAndSyncLocked decides before each of n frames whether to rotate:   *)
(* the segment that frame i ends in and its size then.                     *)
Layout(n) ==
    LET at[i \in 0..n] ==
          IF i = 0
          THEN [segment |-> Len(segments), size |-> size]
          ELSE IF ShouldRotate(at[i - 1].size)
          THEN [segment |-> at[i - 1].segment + 1, size |-> FirstFrame]
          ELSE [at[i - 1] EXCEPT !.size = @ + FrameSize]
    IN at

(* writeAndSyncLocked got as far as unit n of the records.                 *)
WriteUnits(records, n) ==
    LET at == Layout(Len(records))
        last == at[FrameOf(n)]
        units(s) == {u \in 1..n : at[FrameOf(u)].segment = s}
        part(s) == IF units(s) = {} THEN <<>>
                   ELSE SubSeq(Encoded(records), Min(units(s)), Max(units(s)))
        old(s) == IF s \in DOMAIN segments THEN segments[s] ELSE <<>>
    IN /\ segments' = [s \in 1..last.segment |-> old(s) \o part(s)]
       /\ size' = last.size - (FrameOf(n) * FrameSize - n)

(* How far a write that fails may get, and one that a crash cuts off.      *)
FailurePoints(records) ==
    {n \in 0..Units(records) : n % FrameSize = 0 \/ "tear" \in Faults}
CrashPoints(records) ==
    {n \in 0..Units(records) : n % FrameSize # HeaderSize \/ "header" \in Faults}

Fail ==
    /\ Faults \cap {"fail", "tear"} # {}
    /\ failures < MaxFailures
    /\ failures' = failures + 1

-----------------------------------------------------------------------------
(* writeMu, and flushBufferLocked under it.                                *)

Running == phase \in {"open", "closing", "closed"}

LockBy(p) ==
    /\ Running
    /\ owner = "none"
    /\ owner' = p
    /\ stage' = "flush"
    /\ UNCHANGED <<logVars, phase, bufferVars, clientVars, counters, history>>

(* The ticker, or Flush.  Close waits for the ticker before it locks, and  *)
(* a Flush that comes later finds the buffer empty.                        *)
TickerLocks == phase # "closed" /\ LockBy("ticker")

ClientLocks == client \in {"flush", "direct", "rotate"} /\ LockBy("client")

CloserLocks == phase = "closing" /\ LockBy("closer")

Release == owner' = "none" /\ stage' = "none"

(* appendAndSync and the path for large data look at closed and flushErr   *)
(* again before they flush.                                                *)
DirectRefused ==
    /\ owner = "client" /\ client = "direct" /\ stage = "flush"
    /\ phase # "open" \/ flushErr
    /\ Release
    /\ client' = "idle"
    /\ data' = <<>>
    /\ UNCHANGED <<logVars, phase, bufferVars, counters, history>>

MayFlush ==
    /\ Running
    /\ stage = "flush"
    /\ ~(owner = "client" /\ client = "direct" /\ (phase # "open" \/ flushErr))

(* Nothing is buffered: return nil at once, even if flushErr is set.       *)
FlushEmpty ==
    /\ MayFlush
    /\ buffer = <<>>
    /\ stage' = "then"
    /\ UNCHANGED <<logVars, phase, bufferVars, owner, clientVars, counters,
                   history>>

(* The two buffers swap, capacities included.                              *)
Swap ==
    /\ MayFlush
    /\ buffer # <<>>
    /\ batch' = buffer
    /\ batchCap' = bufferCap
    /\ buffer' = <<>>
    /\ bufferCap' = batchCap
    /\ stage' = "write"
    /\ UNCHANGED <<logVars, phase, flushErr, owner, clientVars, counters,
                   history>>

BatchWritten ==
    /\ stage = "write"
    /\ phase # "closed"
    /\ WriteUnits(batch, Units(batch))
    /\ batch' = <<>>
    /\ flushErr' = FALSE
    /\ secured' = secured \cup ToSet(batch)
    /\ stage' = "then"
    /\ UNCHANGED <<phase, buffer, bufferCap, batchCap, owner, clientVars,
                   counters, acked>>

BugAppendsBatch == buffer \o batch
BugDropsBatch == buffer
Restored == batch \o buffer

(* The batch returns in front of what was appended meanwhile, in a slice   *)
(* that is exactly long enough; whoever asked for the flush gets the       *)
(* error, and Close closes the file all the same.                          *)
PutBack ==
    /\ buffer' = Restored
    /\ bufferCap' = Len(Restored)
    /\ batch' = <<>>
    /\ batchCap' = bufferCap
    /\ flushErr' = TRUE
    /\ Release
    /\ phase' = IF owner = "closer" THEN "closed" ELSE phase
    /\ client' = IF owner = "client" THEN "idle" ELSE client
    /\ data' = IF owner = "client" THEN <<>> ELSE data
    /\ UNCHANGED <<appended, history>>

BatchFails ==
    /\ stage = "write"
    /\ phase # "closed"
    /\ Fail
    /\ \E n \in FailurePoints(batch) : WriteUnits(batch, n)
    /\ PutBack

(* On a closed file every write returns an error at once.                  *)
BatchRefused ==
    /\ stage = "write"
    /\ phase = "closed"
    /\ PutBack
    /\ UNCHANGED <<logVars, failures>>

TickerDone ==
    /\ owner = "ticker"
    /\ stage = "then"
    /\ Release
    /\ UNCHANGED <<logVars, phase, bufferVars, clientVars, counters, history>>

-----------------------------------------------------------------------------
(* AppendLog.                                                              *)

BugAlwaysBuffers(records) == SyncPolicy = "SyncEveryWrite"
Direct(records) ==
    \/ SyncPolicy = "SyncEveryWrite"
    \/ Len(records) > BufferSize

(* The first look at closed and flushErr passed.                           *)
AppendBegin(n) ==
    /\ phase = "open"
    /\ client = "idle"
    /\ ~flushErr
    /\ appended + n <= MaxRecord
    /\ data' = [i \in 1..n |-> appended + i]
    /\ appended' = appended + n
    /\ client' = IF Direct(data') THEN "direct" ELSE "loop"
    /\ UNCHANGED <<logVars, phase, bufferVars, lockVars, failures, history>>

AppendRefused ==
    /\ client = "loop"
    /\ phase # "open" \/ flushErr
    /\ client' = "idle"
    /\ data' = <<>>
    /\ UNCHANGED <<logVars, phase, bufferVars, lockVars, counters, history>>

BugAcceptsWhenClosed == Running /\ ~flushErr
Accepting == phase = "open" /\ ~flushErr

AppendBuffered ==
    /\ client = "loop"
    /\ Accepting
    /\ Len(buffer) + Len(data) <= bufferCap
    /\ buffer' = buffer \o data
    /\ acked' = acked \cup ToSet(data)
    /\ client' = "idle"
    /\ data' = <<>>
    /\ UNCHANGED <<logVars, phase, bufferCap, batch, batchCap, flushErr,
                   lockVars, counters, secured>>

(* No room: triggerFlush, then try again.                                  *)
AppendFull ==
    /\ client = "loop"
    /\ Accepting
    /\ Len(buffer) + Len(data) > bufferCap
    /\ client' = "flush"
    /\ UNCHANGED <<logVars, phase, bufferVars, lockVars, data, counters,
                   history>>

FlushReturns ==
    /\ owner = "client" /\ client = "flush" /\ stage = "then"
    /\ Release
    /\ client' = "loop"
    /\ UNCHANGED <<logVars, phase, bufferVars, data, counters, history>>

DirectWritten ==
    /\ owner = "client" /\ client = "direct" /\ stage = "then"
    /\ WriteUnits(data, Units(data))
    /\ acked' = acked \cup ToSet(data)
    /\ secured' = secured \cup ToSet(data)
    /\ Release
    /\ client' = "idle"
    /\ data' = <<>>
    /\ UNCHANGED <<phase, bufferVars, counters>>

(* The caller gets the error; flushErr is not set, and the log goes on.    *)
DirectFails ==
    /\ owner = "client" /\ client = "direct" /\ stage = "then"
    /\ Fail
    /\ \E n \in FailurePoints(data) : WriteUnits(data, n)
    /\ Release
    /\ client' = "idle"
    /\ data' = <<>>
    /\ UNCHANGED <<phase, bufferVars, appended, history>>

-----------------------------------------------------------------------------
(* Rotate, Close, crash and restart.                                       *)

RotateBegin ==
    /\ Running
    /\ client = "idle"
    /\ client' = "rotate"
    /\ UNCHANGED <<logVars, phase, bufferVars, lockVars, data, counters,
                   history>>

(* An active segment of size 0 is not sealed.                              *)
RotateSeals ==
    /\ owner = "client" /\ client = "rotate" /\ stage = "then"
    /\ phase # "closed" \/ size = 0
    /\ IF size = 0
       THEN UNCHANGED logVars
       ELSE /\ segments' = Append(segments, <<>>)
            /\ size' = 0
    /\ Release
    /\ client' = "idle"
    /\ UNCHANGED <<phase, bufferVars, data, counters, history>>

(* The file is closed, or creating the next segment fails.                 *)
RotateFails ==
    /\ owner = "client" /\ client = "rotate" /\ stage = "then"
    /\ size > 0
    /\ IF phase = "closed" THEN UNCHANGED failures ELSE Fail
    /\ Release
    /\ client' = "idle"
    /\ UNCHANGED <<logVars, phase, bufferVars, data, appended, history>>

CloseBegin ==
    /\ phase = "open"
    /\ phase' = "closing"
    /\ UNCHANGED <<logVars, bufferVars, lockVars, clientVars, counters,
                   history>>

CloseEnd ==
    /\ owner = "closer"
    /\ stage = "then"
    /\ phase' = "closed"
    /\ Release
    /\ UNCHANGED <<logVars, bufferVars, clientVars, counters, history>>

(* The memory of a process that ended is gone.                             *)
Fresh ==
    /\ buffer' = <<>>
    /\ bufferCap' = BufferSize
    /\ batch' = <<>>
    /\ batchCap' = BufferSize
    /\ flushErr' = FALSE
    /\ Release
    /\ client' = "idle"
    /\ data' = <<>>

(* What the holder of writeMu is about to write, or has begun to.          *)
InFlight == IF stage = "write" THEN batch
            ELSE IF owner = "client" /\ client = "direct" /\ stage = "then"
            THEN data
            ELSE <<>>

Crash ==
    /\ Running
    /\ phase' = "down"
    /\ \E n \in CrashPoints(InFlight) : WriteUnits(InFlight, n)
    /\ Fresh
    /\ acked' = acked \cap secured
    /\ UNCHANGED <<counters, secured>>

(* NewWithOptions takes the size of the newest segment; the store then     *)
(* replays the log and cuts the torn tail off that segment, and the size   *)
(* stays what it was.                                                      *)
Open ==
    /\ phase = "down" \/ (phase = "closed" /\ client = "idle")
    /\ size' = Len(Last(segments))
    /\ IF Refused
       THEN /\ phase' = "corrupt"
            /\ UNCHANGED segments
       ELSE /\ phase' = "open"
            /\ LET scan == Scan(Last(segments))
               IN segments' =
                    IF scan.torn
                    THEN [segments EXCEPT ![Len(segments)] = SubSeq(@, 1, scan.good)]
                    ELSE segments
    /\ Fresh
    /\ acked' = acked \cap secured
    /\ UNCHANGED <<counters, secured>>

-----------------------------------------------------------------------------
ClientStep ==
    \/ AppendRefused \/ AppendBuffered \/ AppendFull
    \/ FlushReturns \/ DirectWritten
    \/ RotateSeals \/ RotateFails

HolderStep ==
    \/ DirectRefused \/ FlushEmpty \/ Swap
    \/ BatchWritten \/ BatchRefused
    \/ TickerDone \/ CloseEnd

Failures == BatchFails \/ DirectFails

Next ==
    \/ \E n \in 1..MaxData : AppendBegin(n)
    \/ RotateBegin
    \/ CloseBegin
    \/ TickerLocks \/ ClientLocks \/ CloserLocks
    \/ ClientStep \/ HolderStep \/ Failures
    \/ Crash \/ Open

Spec == Init /\ [][Next]_vars

(* A goroutine that can run does, sync.Mutex starves nobody, and the       *)
(* ticker ticks.  A write comes to an end: on an open file it may fail,    *)
(* but need not; on a closed one it does.  Nobody has to append, rotate,   *)
(* close or restart.                                                       *)
Fairness ==
    /\ WF_vars(ClientStep)
    /\ WF_vars(HolderStep)
    /\ SF_vars(ClientLocks)
    /\ SF_vars(TickerLocks)
    /\ SF_vars(CloserLocks)

FairSpec == Spec /\ Fairness

-----------------------------------------------------------------------------
(* Properties.                                                             *)

(* Whatever is on file now can be replayed, and the replay has every       *)
(* record that AppendLog or a flush reported durable, with no older record *)
(* after it: neither a crash inside a write nor a retry of a batch that    *)
(* failed half-way hides or outdates one.                                  *)
DurableReplayed ==
    /\ ~Refused
    /\ \A r \in secured : \E s \in DOMAIN Replayed : \E i \in DOMAIN Replayed[s] :
          /\ Replayed[s][i] = r
          /\ \A t \in DOMAIN Replayed : \A j \in DOMAIN Replayed[t] :
                t > s \/ (t = s /\ j > i) => Replayed[t][j] >= r

(* An accepted record that is not durable yet is in one of the buffers, in *)
(* the order of acceptance, and behind every durable one: a crash loses a  *)
(* suffix of what was accepted, also around swaps, retries and data that   *)
(* bypasses the buffer.                                                    *)
AcceptedHeldInOrder ==
    Running =>
        LET held == batch \o buffer
        IN /\ acked \ secured = ToSet(held)
           /\ \A i, j \in DOMAIN held : i < j => held[i] < held[j]
           /\ \A r \in secured : \A i \in DOMAIN held : r < held[i]

(* The size the log believes its active segment to have is never below the *)
(* size of the file, or Rotate would report a segment that still holds     *)
(* records as unused.  It may be above, once Open has cut a torn tail.     *)
SizeCoversFile == Running => size >= Len(Last(segments))

(* Once Close has returned nil, all that AppendLog ever accepted is        *)
(* durable, also when appends raced with it.                               *)
ClosedKeepsAll == phase = "closed" /\ ~flushErr => acked \subseteq secured

(* AppendLog returns: neither a full buffer, nor data larger than it, nor  *)
(* a concurrent Close keeps the caller waiting (wal.go:102, wal.go:159).   *)
AppendReturns ==
    client \in {"direct", "loop", "flush"} ~> client = "idle" \/ ~Running

(* AppendLog and Rotate return as long as no I/O operation has failed.     *)
AppendReturnsUnlessFailed ==
    client # "idle" ~> client = "idle" \/ ~Running \/ failures > 0

(* What is buffered gets durable without any further call, also after a    *)
(* flush that failed, unless the process ends first.                       *)
BufferDrains ==
    \A r \in 1 .. MaxRecord : r \in acked ~> r \in secured \/ phase # "open"
=============================================================================
