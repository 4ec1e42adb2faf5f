------------------------- MODULE WriteAheadLogProofs -------------------------
(***************************************************************************)
(* Theorems of WriteAheadLog, for every capacity of the buffer, size of a  *)
(* segment and number of records in a call, both sync policies and every   *)
(* set of faults, except that DurableIsReplayed names the faults it needs  *)
(* to be absent.                                                           *)
(***************************************************************************)
EXTENDS WriteAheadLog, NaturalSets, SequenceTheorems

Increasing(s) == \A i, j \in DOMAIN s : i < j => s[i] < s[j]
Below(A, B)   == \A x \in A, y \in B : x < y

(* Two sequences of records one behind the other.                          *)
LEMMA ConcatSet ==
    ASSUME NEW s \in Seq(Nat), NEW t \in Seq(Nat)
    PROVE  /\ s \o t \in Seq(Nat)
           /\ ToSet(s \o t) = ToSet(s) \cup ToSet(t)
<1>1. s \o t \in Seq(Nat)
  OBVIOUS
<1>2. \A i \in DOMAIN (s \o t) : (s \o t)[i] \in ToSet(s) \cup ToSet(t)
  <2> SUFFICES ASSUME NEW i \in DOMAIN (s \o t) PROVE (s \o t)[i] \in ToSet(s) \cup ToSet(t)
    OBVIOUS
  <2>1. i \in 1..(Len(s) + Len(t))
    OBVIOUS
  <2>2. CASE i <= Len(s)
    <3>1. (s \o t)[i] = s[i] /\ i \in DOMAIN s
      BY <2>1, <2>2
    <3> QED BY <3>1 DEF ToSet
  <2>3. CASE ~(i <= Len(s))
    <3>1. (s \o t)[i] = t[i - Len(s)] /\ i - Len(s) \in DOMAIN t
      BY <2>1, <2>3
    <3> QED BY <3>1 DEF ToSet
  <2> QED BY <2>2, <2>3
<1>3. \A i \in DOMAIN s : s[i] = (s \o t)[i] /\ i \in DOMAIN (s \o t)
  OBVIOUS
<1>4. \A i \in DOMAIN t : t[i] = (s \o t)[Len(s) + i] /\ Len(s) + i \in DOMAIN (s \o t)
  OBVIOUS
<1>5. ToSet(s) \cup ToSet(t) \subseteq ToSet(s \o t)
  BY <1>3, <1>4 DEF ToSet
<1>6. ToSet(s \o t) \subseteq ToSet(s) \cup ToSet(t)
  BY <1>2 DEF ToSet
<1> QED BY <1>1, <1>5, <1>6

LEMMA ConcatIncreasing ==
    ASSUME NEW s \in Seq(Nat), NEW t \in Seq(Nat),
           Increasing(s), Increasing(t), Below(ToSet(s), ToSet(t))
    PROVE  Increasing(s \o t)
<1> DEFINE st == s \o t
<1> SUFFICES ASSUME NEW i \in DOMAIN st, NEW j \in DOMAIN st, i < j PROVE st[i] < st[j]
  BY DEF Increasing
<1>1. i \in 1..(Len(s) + Len(t)) /\ j \in 1..(Len(s) + Len(t))
  OBVIOUS
<1>2. CASE j <= Len(s)
  <2>1. st[i] = s[i] /\ st[j] = s[j] /\ i \in DOMAIN s /\ j \in DOMAIN s
    BY <1>1, <1>2
  <2> QED BY <2>1 DEF Increasing
<1>3. CASE i <= Len(s) /\ ~(j <= Len(s))
  <2>1. st[i] = s[i] /\ st[j] = t[j - Len(s)] /\ i \in DOMAIN s /\ j - Len(s) \in DOMAIN t
    BY <1>1, <1>3
  <2>2. st[i] \in ToSet(s) /\ st[j] \in ToSet(t)
    BY <2>1 DEF ToSet
  <2> QED BY <2>2 DEF Below
<1>4. CASE ~(i <= Len(s))
  <2>1. /\ st[i] = t[i - Len(s)] /\ st[j] = t[j - Len(s)]
        /\ i - Len(s) \in DOMAIN t /\ j - Len(s) \in DOMAIN t /\ i - Len(s) < j - Len(s)
    BY <1>1, <1>4
  <2> QED BY <2>1 DEF Increasing
<1> QED BY <1>1, <1>2, <1>3, <1>4

-----------------------------------------------------------------------------
(* The inductive invariant.                                                *)

Types ==
    /\ buffer \in Seq(Nat) /\ batch \in Seq(Nat) /\ data \in Seq(Nat)
    /\ acked \in SUBSET Nat /\ secured \in SUBSET Nat
    /\ appended \in Nat
    /\ flushErr \in BOOLEAN
    /\ phase \in {"open", "closing", "closed", "down", "corrupt"}
    /\ owner \in {"none", "ticker", "client", "closer"}
    /\ stage \in {"none", "flush", "write", "then"}
    /\ client \in {"idle", "loop", "flush", "direct", "rotate"}

(* Who holds writeMu, and what that says of the buffers: a client or Close *)
(* that has flushed finds nothing buffered, because the one client waits   *)
(* for writeMu itself, and after Close nothing is accepted.                *)
LockHeld ==
    /\ owner = "none" <=> stage = "none"
    /\ ~Running => owner = "none" /\ client = "idle"
    /\ owner = "client" => client \in {"flush", "direct", "rotate"}
    /\ owner = "closer" => phase = "closing"
    /\ stage # "write" => batch = <<>>
    /\ owner \in {"client", "closer"} /\ stage \in {"write", "then"} => buffer = <<>>
    /\ client \in {"idle", "rotate"} => data = <<>>
    /\ phase = "closed" /\ ~flushErr => buffer = <<>> /\ batch = <<>>

(* Durable records, the batch, the buffer and the data of the call, each   *)
(* older than the next.                                                    *)
AgeOrder ==
    /\ acked \ secured = ToSet(batch) \cup ToSet(buffer)
    /\ Increasing(batch) /\ Increasing(buffer) /\ Increasing(data)
    /\ Below(ToSet(batch), ToSet(buffer))
    /\ Below(secured, ToSet(batch) \cup ToSet(buffer))
    /\ Below(acked \cup secured, ToSet(data))
    /\ \A r \in acked \cup secured \cup ToSet(data) : r <= appended

BufferInv == Types /\ LockHeld /\ AgeOrder

LEMMA NoRecords == <<>> \in Seq(Nat) /\ ToSet(<<>>) = {} /\ Increasing(<<>>)
<1>1. <<>> \in Seq(Nat) /\ DOMAIN <<>> = {}
  OBVIOUS
<1> QED BY <1>1 DEF ToSet, Increasing

LEMMA BufferInvInit == Init => BufferInv
<1> SUFFICES ASSUME Init PROVE BufferInv
  OBVIOUS
<1>1. Types
  BY NoRecords DEF Init, Types
<1>2. LockHeld
  BY DEF Init, LockHeld, Running
<1>3. AgeOrder
  BY NoRecords DEF Init, AgeOrder, Below
<1> QED BY <1>1, <1>2, <1>3 DEF BufferInv

(* The process begins or ends: nothing is held.                            *)
LEMMA FreshKeeps ==
    ASSUME BufferInv, Fresh, acked' = acked \cap secured, UNCHANGED <<counters, secured>>,
           phase' \in {"open", "down", "corrupt"}
    PROVE  BufferInv'
<1> USE DEF Fresh, Release, counters
<1>1. Types'
  BY NoRecords DEF BufferInv, Types
<1>2. LockHeld'
  BY DEF LockHeld, Running
<1>3. AgeOrder'
  BY NoRecords DEF BufferInv, Types, AgeOrder, Below
<1> QED BY <1>1, <1>2, <1>3 DEF BufferInv

(* The lock changes hands, and whoever holds it goes on, without touching  *)
(* a record.                                                               *)
LEMMA OrderSame ==
    ASSUME AgeOrder, UNCHANGED <<buffer, batch, acked, secured, appended>>,
           data' = data \/ data' = <<>>
    PROVE  AgeOrder'
BY NoRecords DEF AgeOrder, Below

LEMMA LockStepKeeps ==
    ASSUME BufferInv,
           TickerLocks \/ ClientLocks \/ CloserLocks \/ TickerDone \/ FlushEmpty \/ FlushReturns
             \/ DirectRefused \/ DirectFails \/ RotateSeals \/ RotateFails \/ RotateBegin
             \/ CloseBegin \/ CloseEnd \/ AppendRefused \/ AppendFull
    PROVE  BufferInv'
<1> USE DEF BufferInv, TickerLocks, ClientLocks, CloserLocks, LockBy, TickerDone, FlushEmpty,
            FlushReturns, DirectRefused, DirectFails, RotateSeals, RotateFails, RotateBegin,
            CloseBegin, CloseEnd, AppendRefused, AppendFull, Release, MayFlush
<1>1. /\ UNCHANGED <<buffer, batch, flushErr, acked, secured, appended>>
      /\ data' = data \/ data' = <<>>
  BY DEF bufferVars, clientVars, counters, history, Fail
<1>2. Types'
  <2>1. /\ phase' \in {phase, "closing", "closed"}
        /\ owner' \in {owner, "none", "ticker", "client", "closer"}
        /\ stage' \in {stage, "none", "flush", "then"}
        /\ client' \in {client, "idle", "loop", "flush", "rotate"}
    BY DEF clientVars, lockVars
  <2>2. data' \in Seq(Nat)
    BY <1>1, NoRecords DEF Types
  <2>3. /\ phase' \in {"open", "closing", "closed", "down", "corrupt"}
        /\ owner' \in {"none", "ticker", "client", "closer"}
    BY <2>1 DEF Types
  <2>4. /\ stage' \in {"none", "flush", "write", "then"}
        /\ client' \in {"idle", "loop", "flush", "direct", "rotate"}
    BY <2>1 DEF Types
  <2> HIDE DEF TickerLocks, ClientLocks, CloserLocks, TickerDone, FlushEmpty, FlushReturns,
               DirectRefused, DirectFails, RotateSeals, RotateFails, RotateBegin, CloseBegin,
               CloseEnd, AppendRefused, AppendFull
  <2> QED BY <1>1, <2>2, <2>3, <2>4 DEF Types
<1>3. LockHeld'
  BY <1>1 DEF Types, LockHeld, Running, clientVars, lockVars
<1>4. AgeOrder'
  BY <1>1, OrderSame
<1> QED BY <1>2, <1>3, <1>4

LEMMA AppendBeginKeeps ==
    ASSUME BufferInv, NEW n \in 1..MaxData, AppendBegin(n)
    PROVE  BufferInv'
<1> USE DEF BufferInv
<1>1. /\ data' = [i \in 1..n |-> appended + i]
      /\ appended' = appended + n
      /\ client' \in {"direct", "loop"}
      /\ UNCHANGED <<buffer, batch, flushErr, acked, secured, phase, owner, stage>>
      /\ phase = "open" /\ client = "idle"
  BY DEF AppendBegin, bufferVars, lockVars, history
<1>2. data' \in Seq(Nat) /\ \A i \in DOMAIN data' : data'[i] = appended + i /\ i \in 1..n
  BY <1>1, WriteAheadLogAssumption DEF Types
<1>3. Types'
  BY <1>1, <1>2, WriteAheadLogAssumption DEF Types
<1>4. LockHeld'
  BY <1>1 DEF LockHeld, Running
<1>5. Increasing(data')
  BY <1>1, <1>2 DEF Increasing, Types
<1>6. \A r \in ToSet(data') : r > appended /\ r <= appended'
  BY <1>1, <1>2 DEF ToSet, Types
<1>7. Below(acked' \cup secured', ToSet(data'))
  <2> SUFFICES ASSUME NEW x \in acked \cup secured, NEW y \in ToSet(data') PROVE x < y
    BY <1>1 DEF Below
  <2>1. x \in Nat /\ x <= appended
    BY DEF Types, AgeOrder
  <2>2. y \in Nat /\ y > appended
    BY <1>2, <1>6 DEF ToSet, Types
  <2> QED BY <2>1, <2>2 DEF Types
<1>8. \A r \in acked' \cup secured' \cup ToSet(data') : r <= appended'
  <2>1. \A r \in acked \cup secured : r \in Nat /\ r <= appended
    BY DEF Types, AgeOrder
  <2> QED BY <1>1, <1>6, <2>1 DEF Types
<1>9. AgeOrder'
  BY <1>1, <1>5, <1>7, <1>8 DEF AgeOrder
<1> QED BY <1>3, <1>4, <1>9

LEMMA AppendBufferedKeeps ==
    ASSUME BufferInv, AppendBuffered
    PROVE  BufferInv'
<1> USE DEF BufferInv
<1>1. /\ buffer' = buffer \o data
      /\ acked' = acked \cup ToSet(data)
      /\ client' = "idle" /\ data' = <<>>
      /\ UNCHANGED <<batch, flushErr, secured, appended, phase, owner, stage>>
      /\ phase = "open" /\ client = "loop"
  BY DEF AppendBuffered, Accepting, lockVars, counters
<1>2. buffer' \in Seq(Nat) /\ ToSet(buffer') = ToSet(buffer) \cup ToSet(data)
  BY <1>1, ConcatSet DEF Types
<1>3. ToSet(data) \subseteq Nat
  BY DEF Types, ToSet
<1>4. Types'
  BY <1>1, <1>2, <1>3, NoRecords DEF Types
<1>5. LockHeld'
  BY <1>1 DEF LockHeld, Running, Types
<1>6. /\ ToSet(buffer) \subseteq acked /\ ToSet(batch) \subseteq acked
      /\ secured \cap ToSet(data) = {}
  <2>1. \A x \in secured \cap ToSet(data) : x < x /\ x \in Nat
    BY <1>3 DEF AgeOrder, Below
  <2> QED BY <2>1 DEF AgeOrder
<1>7. acked' \ secured' = ToSet(batch') \cup ToSet(buffer')
  BY <1>1, <1>2, <1>6 DEF AgeOrder
<1>8. Increasing(buffer')
  BY <1>1, <1>6, ConcatIncreasing DEF Types, AgeOrder, Below
<1>9. Below(ToSet(batch'), ToSet(buffer')) /\ Below(secured', ToSet(batch') \cup ToSet(buffer'))
  BY <1>1, <1>2, <1>6 DEF AgeOrder, Below
<1>10. AgeOrder'
  BY <1>1, <1>7, <1>8, <1>9, NoRecords DEF AgeOrder, Below
<1> QED BY <1>4, <1>5, <1>10

LEMMA SwapKeeps ==
    ASSUME BufferInv, Swap
    PROVE  BufferInv'
<1> USE DEF BufferInv
<1>1. /\ batch' = buffer /\ buffer' = <<>> /\ batch = <<>> /\ stage' = "write"
      /\ UNCHANGED <<flushErr, acked, secured, appended, data, phase, owner, client>>
      /\ buffer # <<>> /\ Running /\ stage = "flush"
  BY DEF Swap, MayFlush, clientVars, counters, history, LockHeld
<1>2. Types'
  BY <1>1, NoRecords DEF Types
<1>3. LockHeld'
  BY <1>1 DEF LockHeld, Running, Types
<1>4. AgeOrder'
  BY <1>1, NoRecords DEF AgeOrder, Below
<1> QED BY <1>2, <1>3, <1>4

LEMMA BatchWrittenKeeps ==
    ASSUME BufferInv, BatchWritten
    PROVE  BufferInv'
<1> USE DEF BufferInv
<1>1. /\ batch' = <<>> /\ flushErr' = FALSE /\ stage' = "then"
      /\ secured' = secured \cup ToSet(batch)
      /\ UNCHANGED <<buffer, acked, appended, data, phase, owner, client>>
      /\ stage = "write" /\ phase # "closed"
  BY DEF BatchWritten, clientVars, counters
<1>2. ToSet(batch) \subseteq Nat
  BY DEF Types, ToSet
<1>3. Types'
  BY <1>1, <1>2, NoRecords DEF Types
<1>4. LockHeld'
  BY <1>1 DEF LockHeld, Running, Types
<1>5. ToSet(batch) \cap ToSet(buffer) = {}
  <2>1. \A x \in ToSet(batch) \cap ToSet(buffer) : x < x /\ x \in Nat
    BY <1>2 DEF AgeOrder, Below
  <2> QED BY <2>1
<1>6. acked' \ secured' = ToSet(batch') \cup ToSet(buffer')
  BY <1>1, <1>5, NoRecords DEF AgeOrder
<1>7. AgeOrder'
  BY <1>1, <1>6, NoRecords DEF AgeOrder, Below
<1> QED BY <1>3, <1>4, <1>7

(* The batch goes back in front of what was accepted meanwhile.            *)
LEMMA PutBackKeeps ==
    ASSUME BufferInv, BatchFails \/ BatchRefused
    PROVE  BufferInv'
<1> USE DEF BufferInv
<1>1. /\ buffer' = batch \o buffer /\ batch' = <<>> /\ flushErr' = TRUE
      /\ owner' = "none" /\ stage' = "none"
      /\ phase' = IF owner = "closer" THEN "closed" ELSE phase
      /\ client' = IF owner = "client" THEN "idle" ELSE client
      /\ data' = IF owner = "client" THEN <<>> ELSE data
      /\ UNCHANGED <<acked, secured, appended>>
      /\ stage = "write"
  BY DEF BatchFails, BatchRefused, PutBack, Restored, Release, history
<1>2. buffer' \in Seq(Nat) /\ ToSet(buffer') = ToSet(batch) \cup ToSet(buffer)
  BY <1>1, ConcatSet DEF Types
<1>3. Types'
  BY <1>1, <1>2, NoRecords DEF Types
<1>4. LockHeld'
  BY <1>1 DEF LockHeld, Running, Types
<1>5. Increasing(buffer')
  BY <1>1, ConcatIncreasing DEF Types, AgeOrder
<1>6. AgeOrder'
  BY <1>1, <1>2, <1>5, NoRecords DEF AgeOrder, Below
<1> QED BY <1>3, <1>4, <1>6

LEMMA DirectWrittenKeeps ==
    ASSUME BufferInv, DirectWritten
    PROVE  BufferInv'
<1> USE DEF BufferInv
<1>1. /\ acked' = acked \cup ToSet(data) /\ secured' = secured \cup ToSet(data)
      /\ owner' = "none" /\ stage' = "none" /\ client' = "idle" /\ data' = <<>>
      /\ UNCHANGED <<phase, buffer, batch, flushErr, appended>>
      /\ owner = "client" /\ stage = "then"
  BY DEF DirectWritten, Release, bufferVars, counters
<1>2. buffer = <<>> /\ batch = <<>>
  BY <1>1 DEF LockHeld
<1>3. ToSet(data) \subseteq Nat
  BY DEF Types, ToSet
<1>4. Types'
  BY <1>1, <1>3, NoRecords DEF Types
<1>5. LockHeld'
  BY <1>1 DEF LockHeld, Running, Types
<1>6. AgeOrder'
  BY <1>1, <1>2, NoRecords DEF AgeOrder, Below
<1> QED BY <1>4, <1>5, <1>6

LEMMA BufferInvStep == BufferInv /\ [Next]_vars => BufferInv'
<1> SUFFICES ASSUME BufferInv, [Next]_vars PROVE BufferInv'
  OBVIOUS
<1>1. ASSUME NEW n \in 1..MaxData, AppendBegin(n) PROVE BufferInv'
  BY <1>1, AppendBeginKeeps
<1>2. CASE AppendBuffered
  BY <1>2, AppendBufferedKeeps
<1>3. CASE Swap
  BY <1>3, SwapKeeps
<1>4. CASE BatchWritten
  BY <1>4, BatchWrittenKeeps
<1>5. CASE BatchFails \/ BatchRefused
  BY <1>5, PutBackKeeps
<1>6. CASE DirectWritten
  BY <1>6, DirectWrittenKeeps
<1>7. CASE Crash \/ Open
  BY <1>7, FreshKeeps DEF Crash, Open
<1>8. CASE TickerLocks \/ ClientLocks \/ CloserLocks \/ TickerDone \/ FlushEmpty \/ FlushReturns
             \/ DirectRefused \/ DirectFails \/ RotateSeals \/ RotateFails \/ RotateBegin
             \/ CloseBegin \/ CloseEnd \/ AppendRefused \/ AppendFull
  BY <1>8, LockStepKeeps
<1>9. CASE UNCHANGED vars
  <2>1. UNCHANGED <<phase, bufferVars, lockVars, clientVars, counters, history>>
    BY <1>9 DEF vars
  <2> QED BY <2>1 DEF bufferVars, lockVars, clientVars, counters, history, BufferInv, Types,
                  LockHeld, Running, AgeOrder
<1> QED BY <1>1, <1>2, <1>3, <1>4, <1>5, <1>6, <1>7, <1>8, <1>9
        DEF Next, ClientStep, HolderStep, Failures

LEMMA BufferInvHolds == Spec => []BufferInv
BY BufferInvInit, BufferInvStep, PTL DEF Spec

-----------------------------------------------------------------------------
(* The two buffers of the log hold what AppendLog accepted and nothing     *)
(* reported durable, in the order of acceptance, whatever fails and        *)
(* whoever flushes (flushBufferLocked and its swap, wal.go).               *)
THEOREM BufferedInOrder == Spec => []AcceptedHeldInOrder
<1>1. BufferInv => AcceptedHeldInOrder
  <2> SUFFICES ASSUME BufferInv PROVE AcceptedHeldInOrder
    OBVIOUS
  <2> DEFINE held == batch \o buffer
  <2>1. ToSet(held) = ToSet(batch) \cup ToSet(buffer)
    BY ConcatSet DEF BufferInv, Types
  <2>2. Increasing(held)
    BY ConcatIncreasing DEF BufferInv, Types, AgeOrder
  <2>3. \A i \in DOMAIN held : held[i] \in ToSet(held)
    BY DEF ToSet
  <2> HIDE DEF held
  <2>4. \A r \in secured : \A i \in DOMAIN held : r < held[i]
    BY <2>1, <2>3 DEF BufferInv, AgeOrder, Below
  <2>5. acked \ secured = ToSet(held)
    BY <2>1 DEF BufferInv, AgeOrder
  <2> QED BY <2>2, <2>4, <2>5 DEF AcceptedHeldInOrder, Increasing, held
<1> QED BY BufferInvHolds, <1>1, PTL

(* When Close has returned nil, everything AppendLog ever accepted is on   *)
(* file, whatever was appended while Close was under way (WalManger.Close).*)
THEOREM CloseKeepsWhatWasAccepted == Spec => []ClosedKeepsAll
<1>1. BufferInv => ClosedKeepsAll
  BY NoRecords DEF BufferInv, LockHeld, AgeOrder, ClosedKeepsAll
<1> QED BY BufferInvHolds, <1>1, PTL

-----------------------------------------------------------------------------
(* Frames and units.                                                       *)
LEMMA UnitsOfFrame ==
    /\ FrameOf(0) = 0
    /\ \A u \in Nat \ {0} : /\ FrameOf(u) \in Nat \ {0}
                            /\ 3 * FrameOf(u) - 2 <= u /\ u <= 3 * FrameOf(u)
    /\ \A u \in Nat, f \in Nat : 3 * f - 2 <= u /\ u <= 3 * f => FrameOf(u) = f
<1>1. ASSUME NEW u \in Nat
      PROVE  FrameOf(u) \in Nat /\ 3 * FrameOf(u) <= u + 2 /\ u <= 3 * FrameOf(u)
  <2>1. u + 2 \in Nat /\ u + FrameSize - 1 = u + 2 /\ FrameSize = 3
    BY DEF FrameSize
  <2>2. /\ (u + 2) \div 3 \in Nat /\ ((u + 2) % 3) \in 0 .. 3 - 1
        /\ u + 2 = 3 * ((u + 2) \div 3) + ((u + 2) % 3)
    BY <2>1, Division
  <2> QED BY <2>1, <2>2 DEF FrameOf
<1>2. ASSUME NEW u \in Nat \ {0}
      PROVE  /\ FrameOf(u) \in Nat \ {0}
             /\ 3 * FrameOf(u) - 2 <= u /\ u <= 3 * FrameOf(u)
  BY <1>1
<1>3. ASSUME NEW u \in Nat, NEW f \in Nat, 3 * f - 2 <= u, u <= 3 * f
      PROVE  FrameOf(u) = f
  <2> DEFINE g == FrameOf(u)
  <2>1. g \in Nat /\ 3 * g <= u + 2 /\ u <= 3 * g
    BY <1>1
  <2> HIDE DEF g
  <2>2. g = f
    BY <1>3, <2>1
  <2> QED BY <2>2 DEF g
<1>4. FrameOf(0) = 0
  BY <1>3
<1> QED BY <1>2, <1>3, <1>4

(* Where the frames of a write go.                                         *)
Place == [segment : Nat, size : Nat]

NextPlace(p) == IF ShouldRotate(p.size) THEN [segment |-> p.segment + 1, size |-> 3]
                ELSE [segment |-> p.segment, size |-> p.size + 3]

LaidOut(at, n) ==
    /\ at \in [0..n -> Place]
    /\ at[0] = [segment |-> Len(segments), size |-> size]
    /\ \A i \in 1..n : at[i] = NextPlace(at[i - 1])

LEMMA LayoutIs ==
    ASSUME NEW n \in Nat, Len(segments) \in Nat, size \in Nat
    PROVE  LaidOut(Layout(n), n)
<1> DEFINE first == [segment |-> Len(segments), size |-> size]
           step  == [p \in Place |-> NextPlace(p)]
           Of(f) == [i \in 0..n |->
                       IF i = 0
                       THEN [segment |-> Len(segments), size |-> size]
                       ELSE IF ShouldRotate(f[i - 1].size)
                       THEN [segment |-> f[i - 1].segment + 1, size |-> FirstFrame]
                       ELSE [f[i - 1] EXCEPT !.size = @ + FrameSize]]
           at == CHOOSE f : f = Of(f)
<1>1. Layout(n) = at
  BY Zenon DEF Layout
<1> HIDE DEF at
<1>2. first \in Place
  BY DEF Place
<1>3. \A p \in Place : NextPlace(p) \in Place
  BY DEF Place, NextPlace
<1>4. \A p \in Place : NextPlace(p) = IF ShouldRotate(p.size)
                                      THEN [segment |-> p.segment + 1, size |-> FirstFrame]
                                      ELSE [p EXCEPT !.size = @ + FrameSize]
  <2> SUFFICES ASSUME NEW p \in Place
               PROVE  [p EXCEPT !.size = @ + FrameSize] = [segment |-> p.segment, size |-> p.size + 3]
    BY DEF NextPlace, FirstFrame, FrameSize
  <2> QED BY DEF Place, FrameSize
<1>5. PICK g \in [0..n -> Place] : CountsUp(g, n, first, step)
  <2>1. step \in [Place -> Place]
    BY <1>3
  <2> HIDE DEF step, first, Of
  <2> QED BY <1>2, <2>1, StepRecursion
<1>6. \A i \in 1..n : g[i - 1] \in Place /\ g[i] = NextPlace(g[i - 1])
  <2> SUFFICES ASSUME NEW i \in 1..n PROVE g[i - 1] \in Place /\ g[i] = NextPlace(g[i - 1])
    OBVIOUS
  <2>1. g[i - 1] \in Place
    BY <1>5
  <2>2. g[i] = step[g[i - 1]]
    BY <1>5 DEF CountsUp
  <2> QED BY <2>1, <2>2
<1>7. g = Of(g)
  <2>1. \A i \in 0..n : g[i] = Of(g)[i]
    <3> SUFFICES ASSUME NEW i \in 0..n PROVE g[i] = Of(g)[i]
      OBVIOUS
    <3>1. CASE i = 0
      BY <1>5, <3>1 DEF CountsUp
    <3>2. CASE i # 0
      <4>1. i \in 1..n
        BY <3>2
      <4> QED BY <1>4, <1>6, <4>1
    <3> QED BY <3>1, <3>2
  <2>2. g = [i \in 0..n |-> g[i]]
    BY <1>5
  <2>3. Of(g) = [i \in 0..n |-> Of(g)[i]]
    OBVIOUS
  <2> HIDE DEF Of
  <2> QED BY <2>1, <2>2, <2>3
<1>8. at = Of(at)
  <2> HIDE DEF Of
  <2> QED BY <1>7 DEF at
<1> DEFINE Bad == {i \in 0..n : at[i] # g[i]}
<1>9. Bad = {}
  <2> SUFFICES ASSUME Bad # {} PROVE FALSE
    OBVIOUS
  <2>1. PICK i \in Bad : \A k \in Bad : i <= k
    <3>1. Bad \in SUBSET Nat
      OBVIOUS
    <3> HIDE DEF Bad
    <3> QED BY <3>1, LeastOfNaturals
  <2>2. i \in 0..n /\ at[i] # g[i] /\ \A k \in 0..n : k < i => at[k] = g[k]
    BY <2>1
  <2>3. at[i] = Of(at)[i] /\ g[i] = Of(g)[i]
    BY <1>7, <1>8
  <2>4. i # 0 => i - 1 \in 0..n /\ at[i - 1] = g[i - 1]
    BY <2>2
  <2> QED BY <2>2, <2>3, <2>4
<1>10. at = g
  <2>1. at = [i \in 0..n |-> at[i]]
    BY <1>8
  <2>2. g = [i \in 0..n |-> g[i]]
    BY <1>5
  <2> QED BY <1>9, <2>1, <2>2
<1> QED BY <1>1, <1>5, <1>6, <1>10 DEF LaidOut, CountsUp

LEMMA NextFrame ==
    ASSUME NEW n \in Nat, NEW at, LaidOut(at, n), NEW i \in 1..n
    PROVE  /\ at[i - 1].segment \in Nat /\ at[i - 1].size \in Nat
           /\ at[i].segment \in {at[i - 1].segment, at[i - 1].segment + 1}
           /\ at[i].size \in Nat /\ at[i].size >= 3
           /\ at[i].segment = at[i - 1].segment => at[i].size = at[i - 1].size + 3
<1>1. at[i - 1] \in Place /\ at[i] = NextPlace(at[i - 1])
  BY DEF LaidOut
<1> HIDE DEF LaidOut
<1> QED BY <1>1 DEF Place, NextPlace

(* The segments only go up, and a frame adds its size to that of the one   *)
(* before.                                                                 *)
LEMMA FramesInOrder ==
    ASSUME NEW n \in Nat, NEW at, LaidOut(at, n), NEW i \in 0..n, NEW j \in 0..i
    PROVE  /\ at[i].segment \in Nat /\ at[j].segment <= at[i].segment
           /\ at[i].size \in Nat /\ (i # 0 => at[i].size >= 3)
           /\ at[j].segment = at[i].segment => at[i].size = at[j].size + 3 * (i - j)
<1> DEFINE Ok(k) == /\ at[j].segment <= at[k].segment
                    /\ at[j].segment = at[k].segment => at[k].size = at[j].size + 3 * (k - j)
           Bad == {k \in j..i : ~Ok(k)}
<1>1. \A k \in 0..n : at[k].segment \in Nat /\ at[k].size \in Nat
  BY DEF LaidOut, Place
<1>2. i # 0 => at[i].size >= 3
  BY NextFrame
<1>3. Bad = {}
  <2> SUFFICES ASSUME Bad # {} PROVE FALSE
    OBVIOUS
  <2>1. PICK k \in Bad : \A l \in Bad : k <= l
    <3> HIDE DEF Ok
    <3>1. Bad \in SUBSET Nat
      OBVIOUS
    <3> QED BY <3>1, LeastOfNaturals
  <2>2. k \in j..i /\ ~Ok(k)
    OBVIOUS
  <2>3. k # j
    BY <1>1, <2>2
  <2>4. k - 1 \in j..i /\ Ok(k - 1)
    <3> HIDE DEF Ok
    <3> QED BY <2>1, <2>2, <2>3
  <2>5. k \in 1..n /\ j \in 0..n /\ k - 1 \in 0..n
    BY <2>2, <2>3
  <2>6. /\ at[k].segment \in {at[k - 1].segment, at[k - 1].segment + 1}
        /\ at[k].segment = at[k - 1].segment => at[k].size = at[k - 1].size + 3
    BY <2>5, NextFrame
  <2>7. /\ at[k].segment \in Nat /\ at[k].size \in Nat /\ at[j].segment \in Nat
        /\ at[j].size \in Nat /\ at[k - 1].segment \in Nat /\ at[k - 1].size \in Nat
    BY <1>1, <2>5
  <2> QED BY <2>2, <2>4, <2>6, <2>7
<1>4. i \in j..i
  OBVIOUS
<1> QED BY <1>1, <1>2, <1>3, <1>4

-----------------------------------------------------------------------------
(* What a write puts into each segment.                                    *)

Unit == Nat \X (1..3)

LEMMA EncodedUnits ==
    ASSUME NEW records \in Seq(Nat)
    PROVE  /\ Units(records) \in Nat /\ Units(records) = 3 * Len(records)
           /\ Encoded(records) \in Seq(Unit) /\ Len(Encoded(records)) = Units(records)
           /\ \A u \in 1..Units(records) :
                 Encoded(records)[u] = <<records[FrameOf(u)], u - 3 * (FrameOf(u) - 1)>>
<1>1. Units(records) \in Nat /\ Units(records) = 3 * Len(records) /\ Len(records) \in Nat
  BY DEF Units, FrameSize
<1>2. ASSUME NEW u \in 1..Units(records)
      PROVE  <<records[FrameOf(u)], u - 3 * (FrameOf(u) - 1)>> \in Unit
  <2> DEFINE f == FrameOf(u)
  <2>1. f \in Nat \ {0} /\ 3 * f - 2 <= u /\ u <= 3 * f
    <3>1. u \in Nat \ {0}
      BY <1>1
    <3> QED BY <3>1, UnitsOfFrame
  <2> HIDE DEF f
  <2>2. f \in 1..Len(records) /\ u - 3 * (f - 1) \in 1..3
    BY <1>1, <2>1
  <2>3. records[f] \in Nat
    BY <2>2
  <2> QED BY <2>2, <2>3 DEF f, Unit
<1>3. Encoded(records) = [u \in 1..Units(records) |->
                             <<records[FrameOf(u)], u - 3 * (FrameOf(u) - 1)>>]
  BY DEF Encoded, FrameSize
<1>4. Encoded(records) \in Seq(Unit)
  BY <1>1, <1>2, <1>3
<1> QED BY <1>1, <1>3, <1>4

UnitsIn(at, n, s) == {u \in 1..n : at[FrameOf(u)].segment = s}

PartOf(records, at, n, s) ==
    IF UnitsIn(at, n, s) = {} THEN <<>>
    ELSE SubSeq(Encoded(records), Min(UnitsIn(at, n, s)), Max(UnitsIn(at, n, s)))

OldUnits(s) == IF s \in DOMAIN segments THEN segments[s] ELSE <<>>

LEMMA WriteIs ==
    ASSUME NEW records, NEW n \in Nat, WriteUnits(records, n)
    PROVE  LET at == Layout(Len(records))
               last == at[FrameOf(n)]
           IN /\ segments' = [s \in 1..last.segment |-> OldUnits(s) \o PartOf(records, at, n, s)]
              /\ size' = last.size - (3 * FrameOf(n) - n)
<1> DEFINE at == Layout(Len(records))
           last == at[FrameOf(n)]
<1>1. segments' = [s \in 1..last.segment |-> OldUnits(s) \o PartOf(records, at, n, s)]
  BY Zenon DEF WriteUnits, OldUnits, PartOf, UnitsIn
<1>2. size' = last.size - (FrameOf(n) * FrameSize - n)
  BY Zenon DEF WriteUnits
<1>3. size' = last.size - (3 * FrameOf(n) - n)
  <2> HIDE DEF last
  <2>1. FrameOf(n) \in Nat
    BY UnitsOfFrame
  <2> QED BY <1>2, <2>1 DEF FrameSize
<1> QED BY <1>1, <1>3

(* The units of a segment follow each other and begin with a frame; they   *)
(* end with one, or where the write ends.                                  *)
LEMMA UnitsTogether ==
    ASSUME NEW N \in Nat, NEW at, LaidOut(at, N), NEW n \in 0..(3 * N), NEW s \in Nat,
           UnitsIn(at, n, s) # {}
    PROVE  LET a == Min(UnitsIn(at, n, s))
               b == Max(UnitsIn(at, n, s))
           IN /\ a \in 1..n /\ b \in a..n /\ UnitsIn(at, n, s) = a..b
              /\ \E j \in 0..(N - 1) : a = 3 * j + 1
              /\ b = n \/ \E k \in 0..N : b = 3 * k
<1> DEFINE U == UnitsIn(at, n, s)
           a == Min(U)
           b == Max(U)
           F(u) == FrameOf(u)
<1>1. U \in Indices /\ U \subseteq 1..n /\ U # {}
  <2>1. 1..n \in Indices
    BY IntervalIndices
  <2>2. U \subseteq 1..n
    BY DEF UnitsIn
  <2> QED BY <2>1, <2>2, SubsetIndices
<1>2. \A u \in 1..n : u \in U <=> at[F(u)].segment = s
  BY DEF UnitsIn
<1>3. \A u \in 1..n : F(u) \in 1..N /\ 3 * F(u) - 2 <= u /\ u <= 3 * F(u)
  <2> SUFFICES ASSUME NEW u \in 1..n
               PROVE  F(u) \in 1..N /\ 3 * F(u) - 2 <= u /\ u <= 3 * F(u)
    OBVIOUS
  <2>1. F(u) \in Nat \ {0} /\ 3 * F(u) - 2 <= u /\ u <= 3 * F(u)
    BY UnitsOfFrame
  <2> HIDE DEF F
  <2> QED BY <2>1
<1>4. \A u \in Nat, f \in Nat : 3 * f - 2 <= u /\ u <= 3 * f => F(u) = f
  BY UnitsOfFrame
<1> HIDE DEF U, F
<1>5. a \in U /\ \A u \in U : a <= u
  BY <1>1, MinIsLeast
<1>6. b \in U /\ \A u \in U : u <= b
  BY <1>1, MaxIsGreatest
<1> HIDE DEF a, b
<1>7. a \in 1..n /\ b \in a..n
  BY <1>1, <1>5, <1>6
<1>8. ASSUME NEW u \in a..b PROVE u \in U
  <2>1. u \in 1..n /\ F(a) \in 1..N /\ F(u) \in 1..N /\ F(b) \in 1..N
    BY <1>3, <1>7
  <2>2. F(a) <= F(u) /\ F(u) <= F(b)
    BY <1>3, <1>7, <2>1
  <2>3. at[F(a)].segment = s /\ at[F(b)].segment = s
    BY <1>2, <1>5, <1>6, <1>7
  <2>4. /\ at[F(u)].segment \in Nat /\ at[F(a)].segment <= at[F(u)].segment
        /\ at[F(u)].segment <= at[F(b)].segment
    BY <2>1, <2>2, FramesInOrder
  <2>5. at[F(u)].segment = s
    BY <2>3, <2>4
  <2> QED BY <1>2, <2>1, <2>5
<1>9. U = a..b
  <2>1. \A u \in U : u \in a..b
    BY <1>1, <1>5, <1>6, <1>7
  <2> QED BY <1>8, <2>1
<1>10. \E j \in 0..(N - 1) : a = 3 * j + 1
  <2> DEFINE f == F(a)
             u == 3 * f - 2
  <2>1. f \in 1..N /\ 3 * f - 2 <= a /\ a <= 3 * f
    BY <1>3, <1>7
  <2>2. u \in 1..n /\ 3 * f - 2 <= u /\ u <= 3 * f
    <3> HIDE DEF f
    <3> QED BY <1>7, <2>1
  <2>3. F(u) = f
    BY <1>4, <2>1, <2>2
  <2>4. u \in U
    BY <1>2, <1>5, <1>7, <2>2, <2>3
  <2>5. a = u
    <3>1. a <= u
      BY <1>5, <2>4
    <3> HIDE DEF f
    <3> QED BY <1>7, <2>1, <3>1
  <2> HIDE DEF f
  <2>6. f - 1 \in 0..(N - 1) /\ a = 3 * (f - 1) + 1
    BY <2>1, <2>5
  <2> QED BY <2>6
<1>11. b = n \/ \E k \in 0..N : b = 3 * k
  <2> SUFFICES ASSUME b # n PROVE \E k \in 0..N : b = 3 * k
    OBVIOUS
  <2> DEFINE f == F(b)
  <2>1. f \in 1..N /\ 3 * f - 2 <= b /\ b <= 3 * f /\ b + 1 \in 1..n
    BY <1>3, <1>7
  <2>2. b + 1 \notin U
    BY <1>6, <1>7
  <2>3. F(b + 1) # f
    BY <1>2, <1>6, <1>7, <2>1, <2>2
  <2>4. ~(b + 1 <= 3 * f)
    <3>1. b + 1 \in Nat /\ f \in Nat /\ 3 * f - 2 <= b + 1
      <4> HIDE DEF f
      <4> QED BY <1>7, <2>1
    <3> QED BY <1>4, <2>3, <3>1
  <2> HIDE DEF f
  <2>5. b = 3 * f
    BY <1>7, <2>1, <2>4
  <2> QED BY <2>1, <2>5
<1> QED BY <1>7, <1>9, <1>10, <1>11 DEF U, a, b

(* The units of a segment are those of the frames behind the first j.      *)
HoldsBehind(records, at, n, s, j) ==
    LET p == PartOf(records, at, n, s)
    IN /\ 3 * j + Len(p) <= n
       /\ \A u \in 1..n : at[FrameOf(u)].segment = s <=> 3 * j < u /\ u <= 3 * j + Len(p)
       /\ 3 * j + Len(p) = n \/ \E k \in Nat : Len(p) = 3 * k
       /\ \A u \in 1..Len(p) : p[u] = <<records[j + FrameOf(u)], u - 3 * (FrameOf(u) - 1)>>

LEMMA PartIs ==
    ASSUME NEW records \in Seq(Nat), NEW at, LaidOut(at, Len(records)),
           NEW n \in 0..Units(records), NEW s \in Nat
    PROVE  /\ PartOf(records, at, n, s) \in Seq(Unit)
           /\ \E j \in 0..Len(records) : HoldsBehind(records, at, n, s, j)
<1> DEFINE N == Len(records)
           U == UnitsIn(at, n, s)
           a == Min(U)
           b == Max(U)
           p == PartOf(records, at, n, s)
           E == Encoded(records)
<1>1. /\ N \in Nat /\ Units(records) = 3 * N /\ n \in 0..(3 * N)
      /\ E \in Seq(Unit) /\ Len(E) = 3 * N
      /\ \A u \in 1..(3 * N) : E[u] = <<records[FrameOf(u)], u - 3 * (FrameOf(u) - 1)>>
  BY EncodedUnits
<1>2. \A u \in 1..n : u \in U <=> at[FrameOf(u)].segment = s
  BY DEF UnitsIn
<1>3. CASE U = {}
  <2>1. p = <<>> /\ p \in Seq(Unit) /\ Len(p) = 0
    BY <1>3 DEF PartOf
  <2>2. \A u \in 1..n : at[FrameOf(u)].segment # s
    BY <1>2, <1>3
  <2> HIDE DEF p
  <2>3. 0 \in 0..N /\ 3 * 0 + Len(p) <= n /\ Len(p) = 3 * 0
    BY <1>1, <2>1
  <2>4. \A u \in 1..n : at[FrameOf(u)].segment = s <=> 3 * 0 < u /\ u <= 3 * 0 + Len(p)
    BY <2>1, <2>2
  <2>5. \A u \in 1..Len(p) : p[u] = <<records[0 + FrameOf(u)], u - 3 * (FrameOf(u) - 1)>>
    BY <2>1
  <2>6. HoldsBehind(records, at, n, s, 0)
    BY <2>3, <2>4, <2>5 DEF HoldsBehind, p
  <2> QED BY <2>1, <2>3, <2>6 DEF p
<1>4. CASE U # {}
  <2>1. /\ a \in 1..n /\ b \in a..n /\ U = a..b
        /\ \E j \in 0..(N - 1) : a = 3 * j + 1
        /\ b = n \/ \E k \in 0..N : b = 3 * k
    <3>1. LaidOut(at, N)
      OBVIOUS
    <3> HIDE DEF N, U
    <3>2. UnitsIn(at, n, s) # {}
      BY <1>4 DEF U
    <3> QED BY <1>1, <3>1, <3>2, UnitsTogether DEF U
  <2>2. p = SubSeq(E, a, b)
    BY <1>4 DEF PartOf
  <2> HIDE DEF a, b, p, E, U, N
  <2>3. \A u \in a..b : u \in 1..(3 * N) /\ E[u] \in Unit
    <3> SUFFICES ASSUME NEW u \in a..b PROVE u \in 1..(3 * N) /\ E[u] \in Unit
      OBVIOUS
    <3>1. u \in 1..(3 * N)
      BY <1>1, <2>1
    <3>2. E \in [1..(3 * N) -> Unit]
      BY <1>1, LenProperties
    <3> QED BY <3>1, <3>2
  <2>4. a \in Int /\ b \in Int /\ a <= b
    BY <1>1, <2>1
  <2>5. /\ p \in Seq(Unit) /\ Len(p) = b - a + 1
        /\ \A u \in 1..(b - a + 1) : p[u] = E[a + u - 1]
    BY <2>2, <2>3, <2>4, SubSeqProperties
  <2>6. PICK j \in 0..(N - 1) : a = 3 * j + 1
    BY <2>1
  <2>7. 3 * j + Len(p) = b /\ b <= n /\ j \in 0..N /\ j \in Nat
    BY <1>1, <2>1, <2>4, <2>5, <2>6
  <2>8. ASSUME NEW u \in 1..n
        PROVE  at[FrameOf(u)].segment = s <=> 3 * j < u /\ u <= 3 * j + Len(p)
    <3>1. u \in a..b <=> 3 * j < u /\ u <= b
      BY <1>1, <2>4, <2>6
    <3> QED BY <1>2, <2>1, <2>7, <3>1
  <2>9. 3 * j + Len(p) = n \/ \E k \in Nat : Len(p) = 3 * k
    <3> SUFFICES ASSUME b # n PROVE \E k \in Nat : Len(p) = 3 * k
      BY <2>7
    <3>1. PICK k \in 0..N : b = 3 * k
      BY <2>1
    <3>2. k - j \in Nat /\ Len(p) = 3 * (k - j)
      BY <1>1, <2>1, <2>4, <2>6, <2>7, <3>1
    <3> QED BY <3>2
  <2>10. ASSUME NEW u \in 1..Len(p)
         PROVE  p[u] = <<records[j + FrameOf(u)], u - 3 * (FrameOf(u) - 1)>>
    <3> DEFINE f == FrameOf(u)
               v == 3 * j + u
    <3>1. u \in 1..(b - a + 1) /\ u \in Nat \ {0} /\ a + u - 1 = v /\ v \in a..b /\ v \in Nat
      BY <2>4, <2>5, <2>6, <2>7
    <3>2. f \in Nat \ {0} /\ 3 * f - 2 <= u /\ u <= 3 * f
      BY <3>1, UnitsOfFrame
    <3> HIDE DEF f
    <3>3. j + f \in Nat /\ 3 * (j + f) - 2 <= v /\ v <= 3 * (j + f)
      BY <2>7, <3>1, <3>2
    <3>4. FrameOf(v) = j + f
      <4> HIDE DEF v
      <4> QED BY <3>1, <3>3, UnitsOfFrame
    <3>5. v - 3 * ((j + f) - 1) = u - 3 * (f - 1)
      BY <2>7, <3>1, <3>2
    <3>6. p[u] = E[v]
      BY <2>5, <3>1
    <3>7. E[v] = <<records[FrameOf(v)], v - 3 * (FrameOf(v) - 1)>>
      <4> HIDE DEF v
      <4> QED BY <1>1, <2>3, <3>1
    <3> QED BY <3>4, <3>5, <3>6, <3>7 DEF f
  <2>11. HoldsBehind(records, at, n, s, j)
    BY <2>7, <2>8, <2>9, <2>10 DEF HoldsBehind, p
  <2> QED BY <2>5, <2>7, <2>11 DEF p, N
<1> QED BY <1>3, <1>4

(* The segments are sequences of units, the active one the last.           *)
FilesTyped == segments \in Seq(Seq(Unit)) /\ segments # <<>> /\ size \in Nat

LEMMA WrittenFiles ==
    ASSUME FilesTyped, NEW records \in Seq(Nat), NEW n \in 0..Units(records),
           WriteUnits(records, n)
    PROVE  LET at == Layout(Len(records))
               last == at[FrameOf(n)]
           IN /\ LaidOut(at, Len(records))
              /\ FrameOf(n) \in 0..Len(records)
              /\ segments' \in Seq(Seq(Unit)) /\ Len(segments') = last.segment
              /\ Len(segments) <= Len(segments') /\ segments' # <<>>
              /\ \A s \in DOMAIN segments' :
                    segments'[s] = OldUnits(s) \o PartOf(records, at, n, s)
              /\ size' = last.size - (3 * FrameOf(n) - n)
<1> DEFINE N == Len(records)
           at == Layout(N)
           i == FrameOf(n)
           S == at[i].segment
           whole == [s \in 1..S |-> OldUnits(s) \o PartOf(records, at, n, s)]
<1>1. N \in Nat /\ n \in Nat /\ n <= 3 * N /\ Len(segments) \in Nat \ {0}
  BY EncodedUnits DEF FilesTyped
<1>2. LaidOut(at, N)
  BY <1>1, LayoutIs DEF FilesTyped
<1>3. i \in 0..N
  <2>1. (i = 0 /\ n = 0) \/ (i \in Nat \ {0} /\ 3 * i - 2 <= n)
    <3>1. CASE n = 0
      BY <3>1, UnitsOfFrame
    <3>2. CASE n # 0
      <4>1. n \in Nat \ {0}
        BY <1>1, <3>2
      <4> QED BY <4>1, UnitsOfFrame
    <3> QED BY <3>1, <3>2
  <2> HIDE DEF i
  <2> QED BY <1>1, <2>1
<1>4. segments' = whole /\ size' = at[i].size - (3 * i - n)
  BY <1>1, WriteIs
<1> HIDE DEF N, at, i
<1>5. S \in Nat /\ Len(segments) <= S
  <2>1. at[0].segment = Len(segments)
    BY <1>2 DEF LaidOut
  <2> QED BY <1>1, <1>2, <1>3, <2>1, FramesInOrder
<1>6. ASSUME NEW s \in 1..S
      PROVE  OldUnits(s) \o PartOf(records, at, n, s) \in Seq(Unit)
  <2>1. OldUnits(s) \in Seq(Unit)
    BY DEF FilesTyped, OldUnits
  <2>2. PartOf(records, at, n, s) \in Seq(Unit)
    BY <1>2, <1>5, PartIs DEF N
  <2> QED BY <2>1, <2>2
<1> HIDE DEF S
<1>7. whole \in Seq(Seq(Unit)) /\ Len(whole) = S
  BY <1>5, <1>6
<1>8. DOMAIN whole = 1..S
  OBVIOUS
<1>9. segments' # <<>>
  <2>1. S # 0
    BY <1>1, <1>5
  <2>2. Len(<<>>) = 0
    OBVIOUS
  <2> HIDE DEF whole
  <2> QED BY <1>4, <1>7, <2>1, <2>2
<1> QED BY <1>2, <1>3, <1>4, <1>5, <1>7, <1>8, <1>9 DEF N, at, i, S

LEMMA WriteCovers ==
    ASSUME FilesTyped, size >= Len(Last(segments)),
           NEW records \in Seq(Nat), NEW n \in 0..Units(records), WriteUnits(records, n)
    PROVE  FilesTyped' /\ size' >= Len(Last(segments'))
<1> DEFINE N == Len(records)
           at == Layout(N)
           i == FrameOf(n)
           S == at[i].segment
           p == PartOf(records, at, n, S)
<1>1. /\ LaidOut(at, N) /\ i \in 0..N
      /\ segments' \in Seq(Seq(Unit)) /\ Len(segments') = S
      /\ Len(segments) <= S /\ segments' # <<>>
      /\ S \in DOMAIN segments' => segments'[S] = OldUnits(S) \o p
      /\ size' = at[i].size - (3 * i - n)
  BY WrittenFiles
<1>2. N \in Nat /\ n \in 0..(3 * N) /\ Units(records) = 3 * N
  BY EncodedUnits
<1>3. (i = 0 /\ n = 0) \/ (i # 0 /\ n # 0 /\ 3 * i - 2 <= n /\ n <= 3 * i)
  <2> HIDE DEF N, at
  <2>1. CASE n = 0
    <3>1. FrameOf(n) = 0
      BY <2>1, UnitsOfFrame
    <3> QED BY <2>1, <3>1
  <2>2. CASE n # 0
    <3>1. n \in Nat \ {0}
      BY <1>2, <2>2
    <3> QED BY <3>1, UnitsOfFrame
  <2> QED BY <2>1, <2>2
<1>4. at[0].segment = Len(segments) /\ at[0].size = size
  BY <1>1 DEF LaidOut
<1> HIDE DEF N, at, i
<1>5. S \in Nat \ {0} /\ Len(segments) \in Nat \ {0} /\ at[i].size \in Nat
  <2>1. Len(segments) \in Nat \ {0}
    BY DEF FilesTyped
  <2>2. S \in Nat /\ at[i].size \in Nat
    <3>1. 0 \in 0..i
      BY <1>1, <1>2
    <3> QED BY <1>1, <1>2, <3>1, FramesInOrder
  <2> QED BY <1>1, <2>1, <2>2
<1>6. p \in Seq(Unit) /\ \E j \in 0..N : HoldsBehind(records, at, n, S, j)
  BY <1>1, <1>2, <1>5, PartIs DEF N
<1>7. /\ OldUnits(S) \in Seq(Unit) /\ Len(OldUnits(S)) \in Nat
      /\ S = Len(segments) => OldUnits(S) = Last(segments)
      /\ S # Len(segments) => Len(OldUnits(S)) = 0
  <2>1. CASE S = Len(segments)
    <3>1. S \in DOMAIN segments /\ segments[S] \in Seq(Unit)
      BY <1>5, <2>1 DEF FilesTyped
    <3> QED BY <2>1, <3>1 DEF OldUnits, Last
  <2>2. CASE S # Len(segments)
    <3>1. S \notin DOMAIN segments
      BY <1>1, <1>5, <2>2 DEF FilesTyped
    <3> QED BY <2>2, <3>1 DEF OldUnits
  <2> QED BY <2>1, <2>2
<1> HIDE DEF S, p
<1>8. Last(segments') = OldUnits(S) \o p
  BY <1>1, <1>5 DEF Last
<1>9. Len(Last(segments')) = Len(OldUnits(S)) + Len(p)
  BY <1>6, <1>7, <1>8
<1>10. size' \in Nat /\ size' >= Len(OldUnits(S)) + Len(p)
  <2>1. PICK j \in 0..N : HoldsBehind(records, at, n, S, j)
    BY <1>6
  <2>2. /\ 3 * j + Len(p) <= n /\ Len(p) \in Nat
        /\ \A u \in 1..n : at[FrameOf(u)].segment = S <=> 3 * j < u /\ u <= 3 * j + Len(p)
    BY <1>6, <2>1 DEF HoldsBehind, p
  <2>3. CASE n = 0
    <3>1. Len(p) = 0 /\ size' = size /\ S = Len(segments)
      <4>1. i = 0 /\ size' = at[0].size - (3 * 0 - 0)
        BY <1>1, <1>3, <2>3
      <4> QED BY <1>2, <1>4, <2>2, <2>3, <4>1 DEF S, FilesTyped
    <3> QED BY <1>7, <3>1 DEF FilesTyped
  <2>4. CASE n # 0
    <3>1. n \in 1..n /\ FrameOf(n) = i /\ at[i].segment = S
      BY <1>2, <2>4 DEF i, S
    <3>2. 3 * j + Len(p) = n /\ 3 * j + 1 \in 1..n
      <4>1. n <= 3 * j + Len(p) /\ 3 * j < n
        BY <2>2, <3>1
      <4> QED BY <1>2, <2>2, <4>1
    <3>3. FrameOf(3 * j + 1) = j + 1
      <4>1. 3 * j + 1 \in Nat /\ j + 1 \in Nat /\ 3 * (j + 1) - 2 <= 3 * j + 1
            /\ 3 * j + 1 <= 3 * (j + 1)
        OBVIOUS
      <4> QED BY <4>1, UnitsOfFrame
    <3>4. at[j + 1].segment = S
      <4>1. 3 * j < 3 * j + 1 /\ 3 * j + 1 <= 3 * j + Len(p)
        BY <3>2
      <4> QED BY <2>2, <3>2, <3>3, <4>1
    <3>5. i \in 1..N /\ j + 1 \in 1..i
      BY <1>1, <1>2, <1>3, <2>4, <3>2
    <3>6. /\ at[i].size = at[j + 1].size + 3 * (i - (j + 1))
          /\ at[j + 1].size \in Nat /\ at[j + 1].size >= 3
      <4>1. j + 1 \in 0..N /\ j + 1 \in 0..i /\ j + 1 # 0 /\ i \in 0..N
        BY <1>1, <1>2, <3>5
      <4>2. at[i].size = at[j + 1].size + 3 * (i - (j + 1))
        BY <1>1, <1>2, <3>1, <3>4, <4>1, FramesInOrder
      <4>3. j + 1 \in 0..(j + 1)
        BY <4>1
      <4> QED BY <1>1, <1>2, <4>1, <4>2, <4>3, FramesInOrder
    <3>7. size' = at[j + 1].size - 3 + Len(p)
      <4> DEFINE z == at[j + 1].size
                 l == Len(p)
      <4>1. z \in Nat /\ l \in Nat /\ i \in Nat /\ j \in Nat /\ n \in Nat
        BY <1>1, <1>2, <2>2, <3>6
      <4>2. size' = (z + 3 * (i - (j + 1))) - (3 * i - n) /\ 3 * j + l = n
        BY <1>1, <3>2, <3>6
      <4> HIDE DEF z, l
      <4>3. size' = z - 3 + l
        BY <4>1, <4>2
      <4> QED BY <4>3 DEF z, l
    <3>8. CASE S = Len(segments)
      <4>1. at[j + 1].size = size + 3 * (j + 1)
        <5>1. j + 1 \in 0..N /\ 0 \in 0..(j + 1)
          BY <1>1, <1>2, <3>5
        <5>2. at[j + 1].size = at[0].size + 3 * ((j + 1) - 0)
          <6>1. at[0].segment = at[j + 1].segment
            BY <1>4, <3>4, <3>8
          <6> QED BY <1>1, <1>2, <5>1, <6>1, FramesInOrder
        <5> QED BY <1>4, <5>2
      <4> QED BY <1>7, <2>2, <3>6, <3>7, <3>8, <4>1 DEF FilesTyped
    <3>9. CASE S # Len(segments)
      <4> DEFINE z == at[j + 1].size
                 l == Len(p)
      <4>1. Len(OldUnits(S)) = 0 /\ l \in Nat /\ z \in Nat /\ z >= 3 /\ size' = z - 3 + l
        BY <1>7, <2>2, <3>6, <3>7, <3>9
      <4> HIDE DEF z, l
      <4>2. size' \in Nat /\ size' >= 0 + l
        BY <4>1
      <4> QED BY <4>1, <4>2 DEF l
    <3> QED BY <3>8, <3>9
  <2> QED BY <2>3, <2>4
<1> QED BY <1>1, <1>9, <1>10 DEF FilesTyped

-----------------------------------------------------------------------------
(* What recovery reads in a segment.                                       *)

Scanned(c) == [records : Seq(Nat), good : 0..Len(c), torn : BOOLEAN]

Stops(c, i) == CleanEOF(c, i) \/ Truncated(c, i)

ScanStep(c, i, x) == [records |-> IF ChecksumOK(c, i) THEN <<c[i][1]>> \o x.records
                                  ELSE x.records,
                      good |-> x.good, torn |-> x.torn]

ScansFrom(c, g) ==
    \A i \in 1..(Len(c) + 1) :
        g[i] = IF Stops(c, i)
               THEN [records |-> <<>>, good |-> i - 1, torn |-> ~CleanEOF(c, i)]
               ELSE ScanStep(c, i, g[i + 2 + PayloadLength(c, i)])

LEMMA FrameGoesOn ==
    ASSUME NEW c \in Seq(Unit), NEW i \in 1..(Len(c) + 1), ~Stops(c, i)
    PROVE  /\ i + 2 + PayloadLength(c, i) \in (i + 1)..(Len(c) + 1)
           /\ i \in 1..Len(c) /\ c[i][1] \in Nat
<1>1. PayloadLength(c, i) \in Nat
  BY WriteAheadLogAssumption DEF PayloadLength, FrameSize, HeaderSize
<1>2. i + 2 <= Len(c) + 1 /\ i + 2 + PayloadLength(c, i) <= Len(c) + 1
  BY <1>1 DEF Stops, Truncated, HeaderSize
<1>3. i \in 1..Len(c) /\ c[i] \in Unit
  BY <1>2
<1>4. c[i][1] \in Nat
  BY <1>3 DEF Unit
<1> QED BY <1>1, <1>2, <1>3, <1>4

LEMMA ScanIs ==
    ASSUME NEW c \in Seq(Unit)
    PROVE  \E g \in [1..(Len(c) + 1) -> Scanned(c)] : ScansFrom(c, g) /\ Scan(c) = g[1]
<1> DEFINE m == Len(c) + 1
           S == Scanned(c)
           End(i) == [records |-> <<>>, good |-> i - 1, torn |-> ~CleanEOF(c, i)]
           stop == {i \in 1..m : Stops(c, i)}
           base == [i \in 1..m |-> End(i)]
           jump == [i \in 1..m |-> i + 2 + PayloadLength(c, i)]
           step == [i \in 1..m |-> [x \in S |-> ScanStep(c, i, x)]]
           Of(f) == [i \in 1..(Len(c) + 1) |->
                       IF CleanEOF(c, i) \/ Truncated(c, i)
                       THEN [records |-> <<>>, good |-> i - 1, torn |-> ~CleanEOF(c, i)]
                       ELSE [f[i + HeaderSize + PayloadLength(c, i)] EXCEPT
                                !.records = IF ChecksumOK(c, i) THEN <<c[i][1]>> \o @ ELSE @]]
           from == CHOOSE f : f = Of(f)
<1>1. Scan(c) = from[1]
  BY Zenon DEF Scan
<1> HIDE DEF from
<1>2. m \in Nat /\ m = Len(c) + 1 /\ Len(c) \in Nat
  OBVIOUS
<1>3. \A i \in 1..m : End(i) \in S
  <2> SUFFICES ASSUME NEW i \in 1..m PROVE End(i) \in S
    OBVIOUS
  <2>1. i - 1 \in 0..Len(c) /\ (~CleanEOF(c, i)) \in BOOLEAN
    BY <1>2
  <2>2. <<>> \in Seq(Nat)
    OBVIOUS
  <2> QED BY <2>1, <2>2 DEF Scanned
<1>4. \A i \in 1..m : ~Stops(c, i) => /\ i + 2 + PayloadLength(c, i) \in (i + 1)..m
                                     /\ c[i][1] \in Nat
  BY FrameGoesOn
<1>5. ASSUME NEW i \in 1..m, NEW x \in S, ~Stops(c, i) PROVE ScanStep(c, i, x) \in S
  <2>1. x.records \in Seq(Nat) /\ x.good \in 0..Len(c) /\ x.torn \in BOOLEAN
    BY DEF Scanned
  <2>2. <<c[i][1]>> \o x.records \in Seq(Nat)
    BY <1>4, <1>5, <2>1
  <2> QED BY <2>1, <2>2 DEF ScanStep, Scanned
<1>6. ASSUME NEW i \in 1..m, NEW x \in S
      PROVE  [x EXCEPT !.records = IF ChecksumOK(c, i) THEN <<c[i][1]>> \o @ ELSE @]
               = ScanStep(c, i, x)
  <2> DEFINE r == IF ChecksumOK(c, i) THEN <<c[i][1]>> \o x.records ELSE x.records
  <2>1. x \in [records : Seq(Nat), good : 0..Len(c), torn : BOOLEAN]
    BY DEF Scanned
  <2> HIDE DEF r, S
  <2>2. [x EXCEPT !.records = r] = [records |-> r, good |-> x.good, torn |-> x.torn]
    BY <2>1
  <2> QED BY <2>2 DEF r, ScanStep
<1>7. PICK g \in [1..m -> S] : Follows(g, m, stop, base, jump, step)
  <2>1. \A i \in 1..m : i \in stop => base[i] \in S
    BY <1>3
  <2>2. \A i \in 1..m : i \notin stop => jump[i] \in (i + 1)..m
    BY <1>4
  <2>3. \A i \in 1..m, x \in S : i \notin stop => step[i][x] \in S
    BY <1>5
  <2> HIDE DEF m, S, stop, base, jump, step
  <2>4. Jumps(m, S, stop, base, jump, step)
    BY <2>1, <2>2, <2>3 DEF Jumps
  <2> QED BY <1>2, <2>4, JumpRecursion
<1>8. ScansFrom(c, g)
  <2> SUFFICES ASSUME NEW i \in 1..m
               PROVE  g[i] = IF Stops(c, i) THEN End(i)
                             ELSE ScanStep(c, i, g[i + 2 + PayloadLength(c, i)])
    BY DEF ScansFrom
  <2>1. g[i] = IF i \in stop THEN base[i] ELSE step[i][g[jump[i]]]
    BY <1>7 DEF Follows
  <2>2. CASE Stops(c, i)
    <3>1. i \in stop /\ base[i] = End(i)
      BY <2>2
    <3> HIDE DEF stop, base, End, step, jump
    <3> QED BY <2>1, <2>2, <3>1
  <2>3. CASE ~Stops(c, i)
    <3>1. i \notin stop /\ jump[i] = i + 2 + PayloadLength(c, i)
      BY <2>3
    <3>2. jump[i] \in 1..m
      BY <1>2, <1>4, <2>3, <3>1
    <3>3. g[jump[i]] \in S
      BY <1>7, <3>2
    <3>4. step[i][g[jump[i]]] = ScanStep(c, i, g[jump[i]])
      BY <3>3
    <3> HIDE DEF stop, base, End, step, jump
    <3> QED BY <2>1, <2>3, <3>1, <3>4
  <2> QED BY <2>2, <2>3
<1>9. ASSUME NEW i \in 1..m, NEW f, f = Of(f), ~Stops(c, i) =>
                 f[i + 2 + PayloadLength(c, i)] = g[i + 2 + PayloadLength(c, i)]
      PROVE  f[i] = g[i]
  <2>1. f[i] = Of(f)[i]
    BY <1>9
  <2>2. f[i] = IF CleanEOF(c, i) \/ Truncated(c, i) THEN End(i)
               ELSE [f[i + HeaderSize + PayloadLength(c, i)] EXCEPT
                        !.records = IF ChecksumOK(c, i) THEN <<c[i][1]>> \o @ ELSE @]
    BY <2>1
  <2> HIDE DEF Of
  <2>3. g[i] = IF Stops(c, i) THEN End(i)
               ELSE ScanStep(c, i, g[i + 2 + PayloadLength(c, i)])
    BY <1>8 DEF ScansFrom
  <2>4. CASE Stops(c, i)
    BY <2>2, <2>3, <2>4 DEF Stops
  <2>5. CASE ~Stops(c, i)
    <3> DEFINE k == i + 2 + PayloadLength(c, i)
    <3>1. k \in 1..m
      BY <1>2, <1>4, <2>5
    <3>2. i + HeaderSize + PayloadLength(c, i) = k
      BY DEF HeaderSize
    <3> HIDE DEF k, End
    <3>3. f[k] = g[k] /\ g[k] \in S
      BY <1>7, <1>9, <2>5, <3>1 DEF k
    <3>4. f[i] = [g[k] EXCEPT !.records = IF ChecksumOK(c, i) THEN <<c[i][1]>> \o @ ELSE @]
      BY <2>2, <2>5, <3>2, <3>3 DEF Stops
    <3>5. f[i] = ScanStep(c, i, g[k])
      BY <1>6, <3>3, <3>4
    <3>6. g[i] = ScanStep(c, i, g[k])
      BY <2>3, <2>5 DEF k
    <3> QED BY <3>5, <3>6
  <2> QED BY <2>4, <2>5
<1>10. g = Of(g)
  <2>1. ASSUME NEW i \in 1..m PROVE Of(g)[i] = g[i]
    <3>1. Of(g)[i] = IF CleanEOF(c, i) \/ Truncated(c, i) THEN End(i)
               ELSE [g[i + HeaderSize + PayloadLength(c, i)] EXCEPT
                        !.records = IF ChecksumOK(c, i) THEN <<c[i][1]>> \o @ ELSE @]
      OBVIOUS
    <3> HIDE DEF Of
    <3>2. g[i] = IF Stops(c, i) THEN End(i)
                 ELSE ScanStep(c, i, g[i + 2 + PayloadLength(c, i)])
      BY <1>8 DEF ScansFrom
    <3>3. CASE Stops(c, i)
      BY <3>1, <3>2, <3>3 DEF Stops
    <3>4. CASE ~Stops(c, i)
      <4> DEFINE k == i + 2 + PayloadLength(c, i)
      <4>1. k \in 1..m
        BY <1>2, <1>4, <3>4
      <4>2. i + HeaderSize + PayloadLength(c, i) = k
        BY DEF HeaderSize
      <4> HIDE DEF k, End
      <4>3. g[k] \in S
        BY <1>7, <4>1
      <4>4. Of(g)[i] = [g[k] EXCEPT !.records = IF ChecksumOK(c, i) THEN <<c[i][1]>> \o @ ELSE @]
        BY <3>1, <3>4, <4>2 DEF Stops
      <4>5. Of(g)[i] = ScanStep(c, i, g[k])
        BY <1>6, <4>3, <4>4
      <4>6. g[i] = ScanStep(c, i, g[k])
        BY <3>2, <3>4 DEF k
      <4> QED BY <4>5, <4>6
    <3> QED BY <3>3, <3>4
  <2>2. DOMAIN g = 1..m /\ g = [i \in 1..m |-> g[i]]
    BY <1>7
  <2>3. Of(g) = [i \in 1..m |-> Of(g)[i]]
    OBVIOUS
  <2> HIDE DEF Of
  <2> QED BY <2>1, <2>2, <2>3
<1>11. from = Of(from)
  <2> HIDE DEF Of
  <2> QED BY <1>10 DEF from
<1> DEFINE Bad == {i \in 1..m : from[i] # g[i]}
<1>12. Bad = {}
  <2> SUFFICES ASSUME Bad # {} PROVE FALSE
    OBVIOUS
  <2>1. Bad \in Indices
    <3>1. 1..m \in Indices /\ Bad \subseteq 1..m
      BY <1>2, IntervalIndices
    <3> HIDE DEF Bad
    <3> QED BY <3>1, SubsetIndices
  <2>2. PICK i \in Bad : \A k \in Bad : k <= i
    <3> HIDE DEF Bad
    <3> QED BY <2>1, MaxIsGreatest
  <2>3. i \in 1..m /\ from[i] # g[i] /\ \A k \in 1..m : k > i => from[k] = g[k]
    BY <2>2
  <2> DEFINE k == i + 2 + PayloadLength(c, i)
  <2>4. ~Stops(c, i) => k \in 1..m /\ k > i
    BY <1>2, <1>4, <2>3
  <2>5. ~Stops(c, i) => from[k] = g[k]
    <3> HIDE DEF k
    <3> QED BY <2>3, <2>4
  <2> HIDE DEF Of
  <2> QED BY <1>9, <1>11, <2>3, <2>5
<1>13. from[1] = g[1]
  BY <1>2, <1>12
<1> QED BY <1>1, <1>7, <1>8, <1>13

LEMMA ScanTyped ==
    ASSUME NEW c \in Seq(Unit)
    PROVE  /\ Scan(c).records \in Seq(Nat)
           /\ Scan(c).good \in 0..Len(c)
           /\ Scan(c).torn \in BOOLEAN
<1>1. Scan(c) \in Scanned(c)
  <2>1. 1 \in 1..(Len(c) + 1)
    OBVIOUS
  <2> QED BY <2>1, ScanIs
<1> QED BY <1>1 DEF Scanned

-----------------------------------------------------------------------------
(* The size of the active segment.                                         *)

SizeInv == FilesTyped /\ size >= Len(Last(segments))

LEMMA WriteKeepsSize ==
    ASSUME SizeInv, NEW records \in Seq(Nat), NEW n \in 0..Units(records),
           WriteUnits(records, n)
    PROVE  SizeInv'
<1>1. FilesTyped' /\ size' >= Len(Last(segments'))
  BY WriteCovers DEF SizeInv
<1> QED BY <1>1 DEF SizeInv

LEMMA SameKeepsSize ==
    ASSUME SizeInv, UNCHANGED logVars
    PROVE  SizeInv'
BY DEF SizeInv, FilesTyped, logVars, Last

LEMMA LastSegment ==
    ASSUME FilesTyped
    PROVE  /\ Len(segments) \in Nat \ {0} /\ Len(segments) \in DOMAIN segments
           /\ Last(segments) = segments[Len(segments)] /\ Last(segments) \in Seq(Unit)
           /\ Len(Last(segments)) \in Nat
<1>1. Len(segments) \in Nat \ {0} /\ Len(segments) \in DOMAIN segments
  BY DEF FilesTyped
<1>2. Last(segments) = segments[Len(segments)]
  BY DEF Last
<1>3. Last(segments) \in Seq(Unit)
  BY <1>1, <1>2 DEF FilesTyped
<1> QED BY <1>1, <1>2, <1>3

LEMMA SealKeepsSize ==
    ASSUME SizeInv, segments' = Append(segments, <<>>), size' = 0
    PROVE  SizeInv'
<1>1. <<>> \in Seq(Unit) /\ Len(<<>>) = 0
  OBVIOUS
<1>2. /\ segments' \in Seq(Seq(Unit)) /\ segments' # <<>>
      /\ Len(segments') = Len(segments) + 1 /\ segments'[Len(segments) + 1] = <<>>
  BY <1>1, AppendProperties DEF SizeInv, FilesTyped
<1>3. Last(segments') = <<>>
  BY <1>2 DEF Last
<1> QED BY <1>1, <1>2, <1>3 DEF SizeInv, FilesTyped

(* Recovery leaves the last segment as it is, or cuts off its tail.        *)
LEMMA OpenCuts ==
    ASSUME FilesTyped, Open
    PROVE  /\ FilesTyped' /\ size' = Len(Last(segments))
           /\ Len(segments') = Len(segments)
           /\ \A s \in DOMAIN segments : s # Len(segments) => segments'[s] = segments[s]
           /\ \/ Last(segments') = Last(segments)
              \/ Last(segments') = SubSeq(Last(segments), 1, Scan(Last(segments)).good)
           /\ ~Refused => /\ phase' = "open"
                          /\ Scan(Last(segments)).torn =>
                                Last(segments') = SubSeq(Last(segments), 1, Scan(Last(segments)).good)
           /\ Len(Last(segments')) \in 0..Len(Last(segments))
<1> DEFINE l == Len(segments)
           c == Last(segments)
           cut == SubSeq(c, 1, Scan(c).good)
<1>1. l \in Nat \ {0} /\ l \in DOMAIN segments /\ c = segments[l] /\ c \in Seq(Unit)
  BY LastSegment
<1>2. Scan(c).good \in 0..Len(c) /\ Len(c) \in Nat
  BY <1>1, ScanTyped
<1>3. cut \in Seq(Unit) /\ Len(cut) = Scan(c).good
  <2> DEFINE g == Scan(c).good
  <2>1. \A i \in 1..g : c[i] \in Unit
    BY <1>1, <1>2
  <2> HIDE DEF c, g
  <2>2. SubSeq(c, 1, g) \in Seq(Unit) /\ Len(SubSeq(c, 1, g)) = IF 1 <= g THEN g - 1 + 1 ELSE 0
    BY <1>2, <2>1, SubSeqProperties DEF g
  <2> QED BY <1>2, <2>2 DEF g
<1>4. /\ size' = Len(c)
      /\ Refused => segments' = segments
      /\ ~Refused => /\ phase' = "open"
                     /\ segments' = IF Scan(c).torn
                                    THEN [segments EXCEPT ![l] = SubSeq(@, 1, Scan(c).good)]
                                    ELSE segments
  BY DEF Open
<1> HIDE DEF c, cut, l
<1>5. CASE segments' = segments
  <2>1. Last(segments') = c /\ Len(segments') = l
    BY <1>5 DEF c, l
  <2>2. ~Refused /\ Scan(c).torn => segments[l] = cut
    <3> SUFFICES ASSUME ~Refused, Scan(c).torn PROVE segments[l] = cut
      OBVIOUS
    <3>1. segments' = [segments EXCEPT ![l] = SubSeq(@, 1, Scan(c).good)]
      BY <1>4
    <3>2. segments'[l] = cut
      BY <1>1, <3>1 DEF cut
    <3> QED BY <1>5, <3>2
  <2>3. FilesTyped'
    BY <1>1, <1>2, <1>4, <1>5 DEF FilesTyped
  <2> QED BY <1>1, <1>2, <1>4, <1>5, <2>1, <2>2, <2>3 DEF c, cut, l
<1>6. CASE ~Refused /\ Scan(c).torn
  <2>1. segments' = [segments EXCEPT ![l] = cut]
    BY <1>1, <1>4, <1>6 DEF cut
  <2>2. segments' \in Seq(Seq(Unit)) /\ Len(segments') = l /\ segments' # <<>>
    BY <1>1, <1>3, <2>1 DEF FilesTyped, l
  <2>3. segments'[l] = cut /\ \A s \in DOMAIN segments : s # l => segments'[s] = segments[s]
    BY <1>1, <2>1
  <2>4. Last(segments') = cut
    BY <2>2, <2>3 DEF Last
  <2>5. FilesTyped'
    BY <1>2, <1>4, <2>2 DEF FilesTyped
  <2> QED BY <1>2, <1>3, <1>4, <1>6, <2>2, <2>3, <2>4, <2>5 DEF c, cut, l
<1> QED BY <1>4, <1>5, <1>6

LEMMA InFlightTyped ==
    ASSUME BufferInv
    PROVE  InFlight \in Seq(Nat)
BY NoRecords DEF BufferInv, Types, InFlight

LEMMA SizeInvStep == BufferInv /\ SizeInv /\ [Next]_vars => SizeInv'
<1> SUFFICES ASSUME BufferInv, SizeInv, [Next]_vars PROVE SizeInv'
  OBVIOUS
<1>1. batch \in Seq(Nat) /\ data \in Seq(Nat) /\ InFlight \in Seq(Nat)
  BY InFlightTyped DEF BufferInv, Types
<1>2. \A records \in Seq(Nat) : Units(records) \in 0..Units(records)
  BY EncodedUnits
<1>3. CASE BatchWritten
  BY <1>1, <1>2, <1>3, WriteKeepsSize DEF BatchWritten
<1>4. CASE BatchFails
  <2>1. \E n \in FailurePoints(batch) : WriteUnits(batch, n)
    BY <1>4 DEF BatchFails
  <2> QED BY <1>1, <2>1, WriteKeepsSize DEF FailurePoints
<1>5. CASE DirectWritten
  BY <1>1, <1>2, <1>5, WriteKeepsSize DEF DirectWritten
<1>6. CASE DirectFails
  <2>1. \E n \in FailurePoints(data) : WriteUnits(data, n)
    BY <1>6 DEF DirectFails
  <2> QED BY <1>1, <2>1, WriteKeepsSize DEF FailurePoints
<1>7. CASE Crash
  <2>1. \E n \in CrashPoints(InFlight) : WriteUnits(InFlight, n)
    BY <1>7 DEF Crash
  <2> QED BY <1>1, <2>1, WriteKeepsSize DEF CrashPoints
<1>8. CASE RotateSeals
  BY <1>8, SealKeepsSize, SameKeepsSize DEF RotateSeals
<1>9. CASE Open
  <2>1. /\ FilesTyped' /\ size' = Len(Last(segments)) /\ Len(Last(segments)) \in Nat
        /\ Len(Last(segments')) \in 0..Len(Last(segments))
    BY <1>9, OpenCuts, LastSegment DEF SizeInv
  <2> QED BY <2>1 DEF SizeInv
<1>10. CASE UNCHANGED logVars
  BY <1>10, SameKeepsSize
<1>11. UNCHANGED vars => UNCHANGED logVars
  BY DEF vars
<1>12. ASSUME NEW n \in 1..MaxData, AppendBegin(n) PROVE UNCHANGED logVars
  BY <1>12 DEF AppendBegin
<1>13. TickerLocks \/ ClientLocks \/ CloserLocks \/ TickerDone \/ FlushEmpty \/ FlushReturns
         \/ DirectRefused \/ RotateFails \/ RotateBegin \/ CloseBegin \/ CloseEnd \/ Swap
         \/ BatchRefused \/ AppendRefused \/ AppendFull \/ AppendBuffered
         => UNCHANGED logVars
  BY DEF TickerLocks, ClientLocks, CloserLocks, LockBy, TickerDone, FlushEmpty, FlushReturns,
         DirectRefused, RotateFails, RotateBegin, CloseBegin, CloseEnd, Swap, BatchRefused,
         AppendRefused, AppendFull, AppendBuffered
<1> QED BY <1>3, <1>4, <1>5, <1>6, <1>7, <1>8, <1>9, <1>10, <1>11, <1>12, <1>13
        DEF Next, ClientStep, HolderStep, Failures

LEMMA SizeInvInit == Init => SizeInv
<1> SUFFICES ASSUME Init PROVE SizeInv
  OBVIOUS
<1>1. segments = <<<<>>>> /\ size = 0
  BY DEF Init
<1>2. segments \in Seq(Seq(Unit)) /\ segments # <<>> /\ Len(segments) = 1 /\ segments[1] = <<>>
  BY <1>1
<1>3. Last(segments) = <<>> /\ Len(<<>>) = 0
  BY <1>2 DEF Last
<1> QED BY <1>1, <1>2, <1>3 DEF SizeInv, FilesTyped

(* The log never takes its active segment for smaller than the file is,    *)
(* whatever tears a write and wherever it rotates (writeDataLocked and     *)
(* NewWithOptions, wal.go, which set segment.Size).                        *)
THEOREM SizeNeverBehind == Spec => []SizeCoversFile
<1>1. BufferInv /\ SizeInv /\ [Next]_vars => BufferInv' /\ SizeInv'
  BY BufferInvStep, SizeInvStep
<1>2. SizeInv => SizeCoversFile
  BY DEF SizeInv, SizeCoversFile
<1> QED BY BufferInvInit, SizeInvInit, <1>1, <1>2, PTL DEF Spec

-----------------------------------------------------------------------------
(* Whole frames.                                                           *)

RecordAt(c, f) == c[3 * f - 2][1]

FrameAt(c, f) == /\ c[3 * f - 2] = <<RecordAt(c, f), 1>>
                 /\ c[3 * f - 1] = <<RecordAt(c, f), 2>>
                 /\ c[3 * f] = <<RecordAt(c, f), 3>>

Framed(c, m) == 3 * m <= Len(c) /\ \A f \in 1..m : FrameAt(c, f)

(* A segment of m frames, and perhaps one more byte of a header.           *)
Whole(c) == \E m \in Nat : Len(c) = 3 * m /\ Framed(c, m)
Torn(c)  == \E m \in Nat : Len(c) = 3 * m + 1 /\ Framed(c, m)

(* The scan of such a segment finds its frames from any frame on.          *)
ReadsFrom(c, m, k, x) ==
    /\ x.records \in Seq(Nat) /\ Len(x.records) = m - k
    /\ \A f \in 1..(m - k) : x.records[f] = RecordAt(c, k + f)
    /\ x.good = 3 * m
    /\ x.torn <=> Len(c) = 3 * m + 1

LEMMA ScanEnds ==
    ASSUME NEW c \in Seq(Unit), NEW m \in Nat, Len(c) \in {3 * m, 3 * m + 1},
           NEW g, ScansFrom(c, g)
    PROVE  ReadsFrom(c, m, m, g[3 * m + 1])
<1> DEFINE i == 3 * m + 1
           x == [records |-> <<>>, good |-> i - 1, torn |-> ~CleanEOF(c, i)]
<1>1. i \in 1..(Len(c) + 1)
  OBVIOUS
<1>2. CleanEOF(c, i) <=> Len(c) = 3 * m
  BY DEF CleanEOF, HeaderSize
<1>3. Stops(c, i)
  BY <1>2 DEF Stops, Truncated, HeaderSize
<1>4. g[i] = x
  <2> HIDE DEF i
  <2> QED BY <1>1, <1>3 DEF ScansFrom
<1>5. x.records = <<>> /\ x.good = 3 * m /\ x.torn = ~CleanEOF(c, i)
  OBVIOUS
<1> HIDE DEF x
<1>6. <<>> \in Seq(Nat) /\ Len(<<>>) = 0 /\ m - m = 0 /\ 1..0 = {}
  OBVIOUS
<1>7. x.torn <=> Len(c) = 3 * m + 1
  <2>1. (~CleanEOF(c, i)) <=> Len(c) = 3 * m + 1
    BY <1>2
  <2> HIDE DEF i
  <2> QED BY <1>5, <2>1, Zenon
<1> QED BY <1>4, <1>5, <1>6, <1>7 DEF ReadsFrom

LEMMA ScanTakesFrame ==
    ASSUME NEW c \in Seq(Unit), NEW m \in Nat, Len(c) \in {3 * m, 3 * m + 1}, Framed(c, m),
           NEW g, ScansFrom(c, g), NEW k \in 0..(m - 1),
           ReadsFrom(c, m, k + 1, g[3 * (k + 1) + 1])
    PROVE  ReadsFrom(c, m, k, g[3 * k + 1])
<1> DEFINE i == 3 * k + 1
           r == RecordAt(c, k + 1)
           y == g[3 * (k + 1) + 1]
           x == g[i]
<1>1. i \in 1..(Len(c) + 1) /\ i + 2 \in 1..Len(c) /\ Len(c) \in Nat /\ k + 1 \in 1..m
  OBVIOUS
<1>2. c[i] = <<r, 1>> /\ c[i + 1] = <<r, 2>> /\ c[i + 2] = <<r, 3>>
  <2>1. FrameAt(c, k + 1)
    BY <1>1 DEF Framed
  <2>2. 3 * (k + 1) - 2 = i /\ 3 * (k + 1) - 1 = i + 1 /\ 3 * (k + 1) = i + 2
    OBVIOUS
  <2> QED BY <2>1, <2>2 DEF FrameAt
<1>3. r \in Nat /\ c[i][1] = r
  <2>1. c[i] \in Unit
    BY <1>1
  <2> QED BY <1>2, <2>1 DEF Unit
<1> HIDE DEF r
<1>4. IsHeader(c, i) /\ ChecksumOK(c, i) /\ PayloadLength(c, i) = 1
  BY <1>2 DEF IsHeader, ChecksumOK, PayloadLength, FrameSize, HeaderSize
<1>5. ~Stops(c, i)
  BY <1>1, <1>4 DEF Stops, CleanEOF, Truncated, HeaderSize
<1>6. i + 2 + PayloadLength(c, i) = 3 * (k + 1) + 1
  BY <1>4
<1>7. x = ScanStep(c, i, y)
  <2> HIDE DEF i
  <2> QED BY <1>1, <1>5, <1>6 DEF ScansFrom
<1>8. x.records = <<r>> \o y.records /\ x.good = y.good /\ x.torn = y.torn
  <2> HIDE DEF x, y, i
  <2> QED BY <1>3, <1>4, <1>7 DEF ScanStep
<1> HIDE DEF x, y
<1>9. /\ y.records \in Seq(Nat) /\ Len(y.records) = m - (k + 1)
      /\ \A f \in 1..(m - (k + 1)) : y.records[f] = RecordAt(c, (k + 1) + f)
      /\ y.good = 3 * m /\ (y.torn <=> Len(c) = 3 * m + 1)
  BY DEF ReadsFrom, y
<1>10. x.records \in Seq(Nat) /\ Len(x.records) = m - k
  <2>1. <<r>> \in Seq(Nat) /\ Len(<<r>>) = 1
    BY <1>3
  <2>2. <<r>> \o y.records \in Seq(Nat) /\ Len(<<r>> \o y.records) = 1 + Len(y.records)
    BY <1>9, <2>1
  <2> QED BY <1>8, <1>9, <2>2
<1>11. ASSUME NEW f \in 1..(m - k) PROVE x.records[f] = RecordAt(c, k + f)
  <2>1. CASE f = 1
    <3>1. x.records[1] = r
      BY <1>3, <1>8, <1>9
    <3> QED BY <2>1, <3>1 DEF r
  <2>2. CASE f # 1
    <3>1. f - 1 \in 1..(m - (k + 1)) /\ (k + 1) + (f - 1) = k + f
      BY <2>2
    <3>2. x.records[f] = y.records[f - 1]
      BY <1>3, <1>8, <1>9, <3>1
    <3> QED BY <1>9, <3>1, <3>2
  <2> QED BY <2>1, <2>2
<1> QED BY <1>8, <1>9, <1>10, <1>11 DEF ReadsFrom, x

LEMMA ScanFramed ==
    ASSUME NEW c \in Seq(Unit), NEW m \in Nat, Len(c) \in {3 * m, 3 * m + 1}, Framed(c, m)
    PROVE  /\ Scan(c).records \in Seq(Nat) /\ Len(Scan(c).records) = m
           /\ \A f \in 1..m : Scan(c).records[f] = RecordAt(c, f)
           /\ Scan(c).good = 3 * m
           /\ Scan(c).torn <=> Len(c) = 3 * m + 1
<1>1. PICK g \in [1..(Len(c) + 1) -> Scanned(c)] : ScansFrom(c, g) /\ Scan(c) = g[1]
  BY ScanIs
<1> DEFINE Bad == {k \in 0..m : ~ReadsFrom(c, m, k, g[3 * k + 1])}
<1>2. Bad = {}
  <2> SUFFICES ASSUME Bad # {} PROVE FALSE
    OBVIOUS
  <2>1. Bad \in Indices
    <3>1. 0..m \in Indices /\ Bad \subseteq 0..m
      BY IntervalIndices
    <3> HIDE DEF Bad
    <3> QED BY <3>1, SubsetIndices
  <2>2. PICK k \in Bad : \A l \in Bad : l <= k
    <3> HIDE DEF Bad
    <3> QED BY <2>1, MaxIsGreatest
  <2>3. k \in 0..m /\ ~ReadsFrom(c, m, k, g[3 * k + 1])
    OBVIOUS
  <2>4. k # m
    BY <1>1, <2>3, ScanEnds
  <2>5. k + 1 \in 0..m /\ k \in 0..(m - 1) /\ k + 1 \notin Bad
    <3>1. k + 1 \in 0..m /\ k \in 0..(m - 1) /\ ~(k + 1 <= k)
      BY <2>3, <2>4
    <3> HIDE DEF Bad
    <3> QED BY <2>2, <3>1
  <2>6. ReadsFrom(c, m, k + 1, g[3 * (k + 1) + 1])
    BY <2>5
  <2> QED BY <1>1, <2>3, <2>5, <2>6, ScanTakesFrame
<1>3. ReadsFrom(c, m, 0, g[1])
  <2>1. 0 \in 0..m /\ 3 * 0 + 1 = 1
    OBVIOUS
  <2>2. ReadsFrom(c, m, 0, g[3 * 0 + 1])
    BY <1>2, <2>1
  <2> QED BY <2>1, <2>2
<1>4. m - 0 = m /\ \A f \in 1..m : 0 + f = f
  OBVIOUS
<1> QED BY <1>1, <1>3, <1>4 DEF ReadsFrom

(* A write of whole frames, or of whole frames and one byte, appends to a  *)
(* segment of p frames the q frames behind frame j.                        *)
GrownTo(c, old, records, at, n, s, p, q, j) ==
    /\ Len(old) = 3 * p
    /\ Len(c) = 3 * (p + q) \/ (Len(c) = 3 * (p + q) + 1 /\ at[FrameOf(n)].segment = s)
    /\ n % 3 = 0 => Len(c) = 3 * (p + q)
    /\ Framed(c, p + q)
    /\ \A f \in 1..p : RecordAt(c, f) = RecordAt(old, f)
    /\ \A f \in 1..q : /\ j + f \in 1..Len(records)
                       /\ RecordAt(c, p + f) = records[j + f]
                       /\ at[j + f].segment = s
    /\ \A i \in 1..Len(records) : 3 * i <= n /\ at[i].segment = s => i - j \in 1..q

LEMMA SegmentGrows ==
    ASSUME NEW records \in Seq(Nat), NEW at, LaidOut(at, Len(records)),
           NEW n \in 0..Units(records), n % 3 # 2, NEW s \in Nat,
           NEW old \in Seq(Unit), Whole(old)
    PROVE  \E p, q, j \in Nat : GrownTo(old \o PartOf(records, at, n, s), old, records, at, n, s, p, q, j)
<1> DEFINE N == Len(records)
           part == PartOf(records, at, n, s)
           c == old \o part
           L == Len(part)
<1>1. N \in Nat /\ n \in 0..(3 * N) /\ n \in Nat
  BY EncodedUnits
<1>2. part \in Seq(Unit) /\ L \in Nat
  <2>1. part \in Seq(Unit)
    BY PartIs
  <2> HIDE DEF part
  <2> QED BY <2>1
<1>3. PICK j \in 0..N : HoldsBehind(records, at, n, s, j)
  BY PartIs
<1>4. PICK p \in Nat : Len(old) = 3 * p /\ Framed(old, p)
  BY DEF Whole
<1>5. PICK K \in Nat : n = 3 * K \/ n = 3 * K + 1
  <2>1. (n \div 3) \in Nat /\ (n % 3) \in 0 .. 3 - 1 /\ n = 3 * (n \div 3) + (n % 3)
    BY <1>1, Division
  <2>2. n % 3 = 0 \/ n % 3 = 1
    BY <2>1
  <2> QED BY <2>1, <2>2
<1>6. /\ 3 * j + L <= n
      /\ \A u \in 1..n : at[FrameOf(u)].segment = s <=> 3 * j < u /\ u <= 3 * j + L
      /\ 3 * j + L = n \/ \E k \in Nat : L = 3 * k
      /\ \A u \in 1..L : part[u] = <<records[j + FrameOf(u)], u - 3 * (FrameOf(u) - 1)>>
  BY <1>3 DEF HoldsBehind
<1>7. /\ c \in Seq(Unit) /\ Len(c) = 3 * p + L
      /\ \A u \in 1..(3 * p) : c[u] = old[u]
      /\ \A u \in 1..L : c[3 * p + u] = part[u]
  <2> HIDE DEF part, c, L
  <2>1. c = old \o part /\ L = Len(part)
    BY DEF c, L
  <2>2. /\ c \in Seq(Unit) /\ Len(c) = Len(old) + Len(part)
        /\ \A u \in 1 .. Len(old) + Len(part) :
              c[u] = IF u <= Len(old) THEN old[u] ELSE part[u - Len(old)]
    BY <1>2, <2>1, ConcatProperties
  <2>3. ASSUME NEW u \in 1..(3 * p) PROVE c[u] = old[u]
    BY <1>2, <1>4, <2>1, <2>2
  <2>4. ASSUME NEW u \in 1..L PROVE c[3 * p + u] = part[u]
    <3>1. /\ 3 * p + u \in 1 .. Len(old) + Len(part) /\ ~(3 * p + u <= Len(old))
          /\ (3 * p + u) - Len(old) = u
      BY <1>2, <1>4, <2>1
    <3> QED BY <2>2, <3>1
  <2> QED BY <1>4, <2>1, <2>2, <2>3, <2>4
<1> HIDE DEF part, c, L
<1>8. /\ \A f \in Nat : f # 0 => FrameOf(3 * f) = f /\ FrameOf(3 * f - 1) = f /\ FrameOf(3 * f - 2) = f
  <2> SUFFICES ASSUME NEW f \in Nat, f # 0
               PROVE  FrameOf(3 * f) = f /\ FrameOf(3 * f - 1) = f /\ FrameOf(3 * f - 2) = f
    OBVIOUS
  <2>1. 3 * f \in Nat /\ 3 * f - 1 \in Nat /\ 3 * f - 2 \in Nat
    OBVIOUS
  <2>2. \A u \in Nat : 3 * f - 2 <= u /\ u <= 3 * f => FrameOf(u) = f
    BY UnitsOfFrame
  <2> QED BY <2>1, <2>2
<1>9. PICK q \in Nat : \/ L = 3 * q
                       \/ /\ L = 3 * q + 1 /\ n = 3 * K + 1
                          /\ at[FrameOf(n)].segment = s
  <2>1. CASE \E k \in Nat : L = 3 * k
    BY <2>1
  <2>2. CASE 3 * j + L = n
    <3>1. CASE n = 3 * K
      <4>1. K - j \in Nat /\ L = 3 * (K - j)
        BY <1>2, <2>2, <3>1
      <4> QED BY <4>1
    <3>2. CASE n = 3 * K + 1
      <4>1. K - j \in Nat /\ L = 3 * (K - j) + 1
        BY <1>2, <2>2, <3>2
      <4>2. at[FrameOf(n)].segment = s
        <5>1. n \in 1..n /\ 3 * j < n /\ n <= 3 * j + L
          BY <1>1, <1>2, <2>2, <4>1
        <5> QED BY <1>6, <5>1
      <4> QED BY <3>2, <4>1, <4>2
    <3> QED BY <1>5, <3>1, <3>2
  <2> QED BY <1>6, <2>1, <2>2
<1>10. Len(c) = 3 * (p + q) \/ (Len(c) = 3 * (p + q) + 1 /\ at[FrameOf(n)].segment = s)
  BY <1>7, <1>9
<1>11. n % 3 = 0 => Len(c) = 3 * (p + q)
  <2> SUFFICES ASSUME n % 3 = 0 PROVE Len(c) = 3 * (p + q)
    OBVIOUS
  <2>1. n # 3 * K + 1
    <3>1. (3 * K + 1) % 3 = 1
      OBVIOUS
    <3> QED BY <3>1
  <2>2. L = 3 * q
    BY <1>9, <2>1
  <2> QED BY <1>7, <2>2
<1>12. ASSUME NEW f \in 1..p PROVE RecordAt(c, f) = RecordAt(old, f) /\ FrameAt(c, f)
  <2>1. FrameAt(old, f)
    BY <1>4 DEF Framed
  <2>2. 3 * f - 2 \in 1..(3 * p) /\ 3 * f - 1 \in 1..(3 * p) /\ 3 * f \in 1..(3 * p)
    OBVIOUS
  <2>3. c[3 * f - 2] = old[3 * f - 2] /\ c[3 * f - 1] = old[3 * f - 1] /\ c[3 * f] = old[3 * f]
    BY <1>7, <2>2
  <2> QED BY <2>1, <2>3 DEF FrameAt, RecordAt
<1>13. ASSUME NEW f \in 1..q
       PROVE  /\ j + f \in 1..N /\ RecordAt(c, p + f) = records[j + f]
              /\ at[j + f].segment = s /\ FrameAt(c, p + f)
  <2>1. 3 * f - 2 \in 1..L /\ 3 * f - 1 \in 1..L /\ 3 * f \in 1..L /\ f # 0 /\ f \in Nat
    BY <1>2, <1>9
  <2>2. j + f \in 1..N
    <3>1. 3 * j + 3 * f <= 3 * N
      <4>1. 3 * j + L <= n
        BY <1>6
      <4>2. 3 * f <= L /\ 3 * f \in Nat /\ 3 * j \in Nat /\ 3 * N \in Nat /\ n <= 3 * N
        BY <1>1, <1>2, <2>1
      <4>3. L \in Nat /\ n \in Nat
        BY <1>1, <1>2
      <4> HIDE DEF N
      <4> QED BY <4>1, <4>2, <4>3
    <3> QED BY <1>1, <3>1
  <2>3. at[j + f].segment = s
    <3>1. 3 * (j + f) \in 1..n /\ 3 * j < 3 * (j + f) /\ 3 * (j + f) <= 3 * j + L
      BY <1>1, <1>2, <1>6, <2>1
    <3>2. FrameOf(3 * (j + f)) = j + f
      BY <1>8, <2>1, <2>2
    <3> QED BY <1>6, <3>1, <3>2
  <2>4. /\ part[3 * f - 2] = <<records[j + f], 1>>
        /\ part[3 * f - 1] = <<records[j + f], 2>>
        /\ part[3 * f] = <<records[j + f], 3>>
    <3>1. /\ (3 * f - 2) - 3 * (f - 1) = 1 /\ (3 * f - 1) - 3 * (f - 1) = 2
          /\ 3 * f - 3 * (f - 1) = 3
      OBVIOUS
    <3>2. FrameOf(3 * f) = f /\ FrameOf(3 * f - 1) = f /\ FrameOf(3 * f - 2) = f
      BY <1>8, <2>1
    <3>3. /\ part[3 * f - 2] = <<records[j + FrameOf(3 * f - 2)], (3 * f - 2) - 3 * (FrameOf(3 * f - 2) - 1)>>
          /\ part[3 * f - 1] = <<records[j + FrameOf(3 * f - 1)], (3 * f - 1) - 3 * (FrameOf(3 * f - 1) - 1)>>
          /\ part[3 * f] = <<records[j + FrameOf(3 * f)], 3 * f - 3 * (FrameOf(3 * f) - 1)>>
      BY <1>6, <2>1
    <3> QED BY <3>1, <3>2, <3>3
  <2>5. /\ 3 * (p + f) - 2 = 3 * p + (3 * f - 2)
        /\ 3 * (p + f) - 1 = 3 * p + (3 * f - 1)
        /\ 3 * (p + f) = 3 * p + 3 * f
    OBVIOUS
  <2>6. /\ c[3 * (p + f) - 2] = <<records[j + f], 1>>
        /\ c[3 * (p + f) - 1] = <<records[j + f], 2>>
        /\ c[3 * (p + f)] = <<records[j + f], 3>>
    <3>1. /\ c[3 * p + (3 * f - 2)] = part[3 * f - 2]
          /\ c[3 * p + (3 * f - 1)] = part[3 * f - 1]
          /\ c[3 * p + 3 * f] = part[3 * f]
      BY <1>7, <2>1
    <3> QED BY <2>4, <2>5, <3>1
  <2>7. RecordAt(c, p + f) = records[j + f]
    BY <2>6 DEF RecordAt
  <2> QED BY <2>2, <2>3, <2>6, <2>7 DEF FrameAt
<1>14. Framed(c, p + q)
  <2>1. 3 * (p + q) <= Len(c)
    BY <1>10
  <2>2. ASSUME NEW f \in 1..(p + q) PROVE FrameAt(c, f)
    <3>1. CASE f <= p
      BY <1>12, <3>1
    <3>2. CASE ~(f <= p)
      <4>1. f - p \in 1..q /\ p + (f - p) = f
        BY <3>2
      <4>2. FrameAt(c, p + (f - p))
        BY <1>13, <4>1
      <4> QED BY <4>1, <4>2
    <3> QED BY <3>1, <3>2
  <2> QED BY <2>1, <2>2 DEF Framed
<1>15. ASSUME NEW i \in 1..N, 3 * i <= n, at[i].segment = s PROVE i - j \in 1..q
  <2>1. 3 * i \in 1..n /\ i # 0 /\ i \in Nat
    BY <1>1, <1>15
  <2>2. FrameOf(3 * i) = i
    BY <1>8, <2>1
  <2>3. 3 * j < 3 * i /\ 3 * i <= 3 * j + L
    BY <1>6, <1>15, <2>1, <2>2
  <2> QED BY <1>2, <1>9, <2>1, <2>3
<1>16. GrownTo(c, old, records, at, n, s, p, q, j)
  BY <1>4, <1>10, <1>11, <1>12, <1>13, <1>14, <1>15 DEF GrownTo, N
<1>17. j \in Nat
  BY <1>1
<1> QED BY <1>16, <1>17 DEF c, part

-----------------------------------------------------------------------------
(* Record r is in frame f of segment s and no older one behind it.         *)
KeptAt(segs, r, s, f) ==
    /\ s \in DOMAIN segs /\ f \in Nat \ {0} /\ 3 * f <= Len(segs[s])
    /\ RecordAt(segs[s], f) = r
    /\ \A t \in DOMAIN segs, g \in Nat \ {0} :
          3 * g <= Len(segs[t]) /\ (t > s \/ (t = s /\ g > f)) => RecordAt(segs[t], g) >= r

Kept(segs, r) == \E s, f \in Nat : KeptAt(segs, r, s, f)

(* What a write does to the segments.                                      *)
Grows(records, at, n) ==
    /\ LaidOut(at, Len(records)) /\ FrameOf(n) \in 0..Len(records)
    /\ Len(segments') = at[FrameOf(n)].segment /\ Len(segments) <= Len(segments')
    /\ \A s \in DOMAIN segments' :
          \E p, q, j \in Nat : GrownTo(segments'[s], OldUnits(s), records, at, n, s, p, q, j)

LEMMA FramesWritten ==
    ASSUME FilesTyped, \A s \in DOMAIN segments : Whole(segments[s]),
           NEW records \in Seq(Nat), NEW n \in 0..Units(records), n % 3 # 2,
           WriteUnits(records, n)
    PROVE  FilesTyped' /\ \E at : Grows(records, at, n)
<1> DEFINE at == Layout(Len(records))
<1>1. /\ LaidOut(at, Len(records)) /\ FrameOf(n) \in 0..Len(records)
      /\ segments' \in Seq(Seq(Unit)) /\ Len(segments') = at[FrameOf(n)].segment
      /\ Len(segments) <= Len(segments') /\ segments' # <<>>
      /\ \A s \in DOMAIN segments' : segments'[s] = OldUnits(s) \o PartOf(records, at, n, s)
      /\ size' = at[FrameOf(n)].size - (3 * FrameOf(n) - n)
  BY WrittenFiles
<1> HIDE DEF at
<1>2. ASSUME NEW s \in DOMAIN segments'
      PROVE  \E p, q, j \in Nat : GrownTo(segments'[s], OldUnits(s), records, at, n, s, p, q, j)
  <2>1. s \in Nat
    BY <1>1
  <2>2. OldUnits(s) \in Seq(Unit) /\ Whole(OldUnits(s))
    <3>1. CASE s \in DOMAIN segments
      BY <3>1 DEF OldUnits, FilesTyped
    <3>2. CASE s \notin DOMAIN segments
      <4>1. <<>> \in Seq(Unit) /\ Len(<<>>) = 3 * 0 /\ Framed(<<>>, 0)
        BY DEF Framed
      <4>2. Whole(<<>>)
        BY <4>1 DEF Whole
      <4> QED BY <3>2, <4>1, <4>2 DEF OldUnits
    <3> QED BY <3>1, <3>2
  <2>3. \E p, q, j \in Nat : GrownTo(OldUnits(s) \o PartOf(records, at, n, s), OldUnits(s),
                                    records, at, n, s, p, q, j)
    BY <1>1, <2>1, <2>2, SegmentGrows
  <2> QED BY <1>1, <2>3
<1>3. FilesTyped'
  <2>1. FilesTyped' /\ size' \in Nat
    <3>1. at[FrameOf(n)].size \in Nat /\ (FrameOf(n) # 0 => at[FrameOf(n)].size >= 3)
      <4>1. 0 \in 0..FrameOf(n) /\ Len(records) \in Nat
        BY <1>1
      <4> QED BY <1>1, <4>1, FramesInOrder
    <3>2. n \in Nat /\ FrameOf(n) \in Nat
          /\ (FrameOf(n) = 0 \/ 3 * FrameOf(n) - 2 <= n) /\ (FrameOf(n) = 0 => n = 0)
      <4>1. n \in Nat
        BY EncodedUnits
      <4>2. CASE n = 0
        BY <4>2, UnitsOfFrame
      <4>3. CASE n # 0
        BY <4>1, <4>3, UnitsOfFrame
      <4> QED BY <4>1, <4>2, <4>3, <1>1
    <3> DEFINE i == FrameOf(n)
               z == at[i].size
    <3>3. size' = z - (3 * i - n) /\ z \in Nat /\ i \in Nat /\ n \in Nat
          /\ (i # 0 => z >= 3) /\ (i = 0 \/ 3 * i - 2 <= n) /\ (i = 0 => n = 0)
      BY <1>1, <3>1, <3>2
    <3> HIDE DEF i, z
    <3>4. size' \in Nat
      BY <3>3
    <3> QED BY <1>1, <3>4 DEF FilesTyped
  <2> QED BY <2>1
<1>4. Grows(records, at, n)
  BY <1>1, <1>2 DEF Grows
<1> QED BY <1>3, <1>4

LEMMA WholeAfter ==
    ASSUME FilesTyped', NEW records \in Seq(Nat), NEW n \in Nat, NEW at, Grows(records, at, n)
    PROVE  /\ \A s \in DOMAIN segments' :
                 s < Len(segments') \/ n % 3 = 0 => Whole(segments'[s])
           /\ Whole(Last(segments')) \/ Torn(Last(segments'))
<1>1. Len(segments') \in Nat \ {0} /\ Len(segments') \in DOMAIN segments'
      /\ DOMAIN segments' = 1..Len(segments') /\ Last(segments') = segments'[Len(segments')]
  BY DEF FilesTyped, Last
<1>2. ASSUME NEW s \in DOMAIN segments'
      PROVE  /\ s < Len(segments') \/ n % 3 = 0 => Whole(segments'[s])
             /\ Whole(segments'[s]) \/ Torn(segments'[s])
  <2>1. PICK p \in Nat, q \in Nat, j \in Nat :
               GrownTo(segments'[s], OldUnits(s), records, at, n, s, p, q, j)
    BY DEF Grows
  <2>2. /\ Framed(segments'[s], p + q)
        /\ \/ Len(segments'[s]) = 3 * (p + q)
           \/ Len(segments'[s]) = 3 * (p + q) + 1 /\ s = Len(segments')
        /\ n % 3 = 0 => Len(segments'[s]) = 3 * (p + q)
    BY <2>1 DEF GrownTo, Grows
  <2>3. p + q \in Nat /\ s \in Nat
    BY <1>1
  <2>4. Len(segments'[s]) = 3 * (p + q) => Whole(segments'[s])
    BY <2>2, <2>3 DEF Whole
  <2>5. Len(segments'[s]) = 3 * (p + q) + 1 => Torn(segments'[s])
    BY <2>2, <2>3 DEF Torn
  <2>6. s = Len(segments') => ~(s < Len(segments'))
    BY <1>1
  <2> QED BY <2>2, <2>4, <2>5, <2>6
<1> QED BY <1>1, <1>2

(* A record that is kept stays so, if none older than it is written.       *)
LEMMA KeptAfter ==
    ASSUME FilesTyped, FilesTyped', NEW records \in Seq(Nat), NEW n \in Nat, NEW at,
           Grows(records, at, n), NEW r \in Nat, \A i \in DOMAIN records : records[i] >= r,
           Kept(segments, r)
    PROVE  Kept(segments', r)
<1>1. PICK s \in Nat, f \in Nat : KeptAt(segments, r, s, f)
  BY DEF Kept
<1>2. /\ s \in DOMAIN segments /\ f \in Nat \ {0} /\ 3 * f <= Len(segments[s])
      /\ RecordAt(segments[s], f) = r
  BY <1>1 DEF KeptAt
<1>3. DOMAIN segments = 1..Len(segments) /\ DOMAIN segments' = 1..Len(segments')
      /\ Len(segments) \in Nat /\ Len(segments') \in Nat /\ Len(segments) <= Len(segments')
  BY DEF FilesTyped, Grows
<1>4. ASSUME NEW t \in DOMAIN segments', NEW g \in Nat \ {0}, 3 * g <= Len(segments'[t])
      PROVE  \/ /\ t \in DOMAIN segments /\ 3 * g <= Len(segments[t])
                /\ RecordAt(segments'[t], g) = RecordAt(segments[t], g)
             \/ RecordAt(segments'[t], g) >= r
  <2>1. PICK p \in Nat, q \in Nat, j \in Nat :
               GrownTo(segments'[t], OldUnits(t), records, at, n, t, p, q, j)
    BY DEF Grows
  <2>2. /\ Len(OldUnits(t)) = 3 * p
        /\ Len(segments'[t]) = 3 * (p + q) \/ Len(segments'[t]) = 3 * (p + q) + 1
        /\ \A e \in 1..p : RecordAt(segments'[t], e) = RecordAt(OldUnits(t), e)
        /\ \A e \in 1..q : j + e \in 1..Len(records)
                           /\ RecordAt(segments'[t], p + e) = records[j + e]
    BY <2>1 DEF GrownTo
  <2>3. g <= p + q
    BY <1>4, <2>2
  <2>4. CASE g <= p
    <3>1. g \in 1..p /\ 3 * g <= Len(OldUnits(t)) /\ 3 * g >= 3
      BY <2>2, <2>4
    <3>2. t \in DOMAIN segments /\ OldUnits(t) = segments[t]
      <4>1. Len(<<>>) = 0
        OBVIOUS
      <4>2. OldUnits(t) # <<>>
        BY <2>2, <3>1, <4>1
      <4> QED BY <4>2 DEF OldUnits
    <3> QED BY <2>2, <3>1, <3>2
  <2>5. CASE ~(g <= p)
    <3>1. g - p \in 1..q /\ p + (g - p) = g
      BY <2>3, <2>5
    <3>2. j + (g - p) \in DOMAIN records /\ RecordAt(segments'[t], g) = records[j + (g - p)]
      <4> DEFINE e == g - p
      <4>1. e \in 1..q /\ p + e = g
        BY <3>1
      <4> HIDE DEF e
      <4>2. j + e \in 1..Len(records) /\ RecordAt(segments'[t], p + e) = records[j + e]
        BY <2>2, <4>1
      <4> QED BY <4>1, <4>2 DEF e
    <3> QED BY <3>2
  <2> QED BY <2>4, <2>5
<1>5. s \in DOMAIN segments' /\ 3 * f <= Len(segments'[s]) /\ RecordAt(segments'[s], f) = r
  <2>1. s \in DOMAIN segments'
    BY <1>2, <1>3
  <2>2. PICK p \in Nat, q \in Nat, j \in Nat :
               GrownTo(segments'[s], OldUnits(s), records, at, n, s, p, q, j)
    BY <2>1 DEF Grows
  <2>3. /\ Len(segments[s]) = 3 * p
        /\ Len(segments'[s]) = 3 * (p + q) \/ Len(segments'[s]) = 3 * (p + q) + 1
        /\ \A e \in 1..p : RecordAt(segments'[s], e) = RecordAt(segments[s], e)
    BY <1>2, <2>2 DEF GrownTo, OldUnits
  <2>4. f \in 1..p /\ 3 * f <= 3 * (p + q)
    BY <1>2, <2>3
  <2> QED BY <1>2, <2>1, <2>3, <2>4
<1>6. ASSUME NEW t \in DOMAIN segments', NEW g \in Nat \ {0},
             3 * g <= Len(segments'[t]) /\ (t > s \/ (t = s /\ g > f))
      PROVE  RecordAt(segments'[t], g) >= r
  BY <1>1, <1>4, <1>6 DEF KeptAt
<1>7. KeptAt(segments', r, s, f)
  BY <1>2, <1>5, <1>6 DEF KeptAt
<1> QED BY <1>7 DEF Kept

(* What is written whole is kept, the records of a write being in order.   *)
LEMMA KeptWhenWritten ==
    ASSUME FilesTyped, FilesTyped', NEW records \in Seq(Nat), NEW at,
           Grows(records, at, Units(records)), Increasing(records), NEW i \in DOMAIN records
    PROVE  Kept(segments', records[i])
<1> DEFINE N == Len(records)
           s == at[i].segment
           Got(t, p, q, j) ==
               /\ Len(OldUnits(t)) = 3 * p
               /\ Len(segments'[t]) = 3 * (p + q)
               /\ \A e \in 1..q : /\ j + e \in 1..N
                                  /\ RecordAt(segments'[t], p + e) = records[j + e]
                                  /\ at[j + e].segment = t
               /\ \A k \in 1..N : at[k].segment = t => k - j \in 1..q
<1>1. N \in Nat /\ Units(records) = 3 * N /\ i \in 1..N /\ DOMAIN records = 1..N
  BY EncodedUnits
<1>2. LaidOut(at, N) /\ FrameOf(3 * N) = N
  <2>1. 3 * N \in Nat /\ 3 * N - 2 <= 3 * N /\ 3 * N <= 3 * N
    BY <1>1
  <2>2. FrameOf(3 * N) = N
    <3> HIDE DEF N
    <3> QED BY <1>1, <2>1, UnitsOfFrame
  <2> QED BY <2>2 DEF Grows
<1>3. /\ Len(segments') = at[N].segment /\ Len(segments) \in Nat \ {0}
      /\ DOMAIN segments = 1..Len(segments) /\ DOMAIN segments' = 1..Len(segments')
      /\ Len(segments) = at[0].segment
  <2>1. Len(segments') = at[N].segment
    <3>1. Len(segments') = at[FrameOf(Units(records))].segment
      BY DEF Grows
    <3> HIDE DEF N
    <3> QED BY <1>1, <1>2, <3>1
  <2>2. Len(segments) = at[0].segment
    BY <1>2 DEF LaidOut
  <2> QED BY <2>1, <2>2 DEF FilesTyped
<1>4. \A k \in 0..N, l \in 0..N : l <= k => /\ at[k].segment \in Nat
                                            /\ at[l].segment <= at[k].segment
  <2> SUFFICES ASSUME NEW k \in 0..N, NEW l \in 0..N, l <= k
               PROVE  at[k].segment \in Nat /\ at[l].segment <= at[k].segment
    OBVIOUS
  <2>1. l \in 0..k
    BY <1>1
  <2> HIDE DEF N
  <2> QED BY <1>1, <1>2, <2>1, FramesInOrder
<1> HIDE DEF N
<1>5. s \in DOMAIN segments' /\ Len(segments) <= s /\ s \in Nat
  <2>1. 0 \in 0..N /\ N \in 0..N /\ i \in 0..N /\ 0 <= i /\ i <= N
    BY <1>1
  <2>2. at[0].segment <= at[i].segment /\ at[i].segment <= at[N].segment
        /\ at[i].segment \in Nat
    BY <1>4, <2>1
  <2> QED BY <1>3, <2>2
<1> HIDE DEF s
<1>6. ASSUME NEW t \in DOMAIN segments'
      PROVE  \E p, q, j \in Nat : Got(t, p, q, j)
  <2>1. PICK p \in Nat, q \in Nat, j \in Nat :
               GrownTo(segments'[t], OldUnits(t), records, at, 3 * N, t, p, q, j)
    BY <1>1 DEF Grows
  <2>2. (3 * N) % 3 = 0 /\ \A k \in 1..N : 3 * k <= 3 * N
    BY <1>1
  <2>3. /\ Len(OldUnits(t)) = 3 * p
        /\ Len(segments'[t]) = 3 * (p + q)
        /\ \A e \in 1..q : /\ j + e \in 1..N
                           /\ RecordAt(segments'[t], p + e) = records[j + e]
                           /\ at[j + e].segment = t
        /\ \A k \in 1..N : at[k].segment = t => k - j \in 1..q
    BY <2>1, <2>2 DEF GrownTo, N
  <2> QED BY <2>3
<1>7. PICK p \in Nat, q \in Nat, j \in Nat : Got(s, p, q, j)
  <2> HIDE DEF Got
  <2> QED BY <1>5, <1>6
<1> DEFINE f == p + (i - j)
<1>8. i - j \in 1..q /\ j + (i - j) = i
  BY <1>1, <1>7 DEF s
<1>9. f \in Nat \ {0} /\ 3 * f <= Len(segments'[s]) /\ RecordAt(segments'[s], f) = records[i]
  <2>1. f \in Nat \ {0} /\ 3 * f <= 3 * (p + q)
    <3> DEFINE e == i - j
    <3>1. e \in Nat \ {0} /\ e <= q
      BY <1>8
    <3> HIDE DEF e
    <3>2. p + e \in Nat \ {0} /\ 3 * (p + e) <= 3 * (p + q)
      BY <3>1
    <3> QED BY <3>2 DEF e
  <2>2. RecordAt(segments'[s], p + (i - j)) = records[j + (i - j)]
    BY <1>7, <1>8
  <2> QED BY <1>7, <1>8, <2>1, <2>2
<1>10. ASSUME NEW t \in DOMAIN segments', NEW g \in Nat \ {0}, 3 * g <= Len(segments'[t]),
              t > s \/ (t = s /\ g > f)
       PROVE  RecordAt(segments'[t], g) >= records[i]
  <2>1. \E k \in 1..N : k > i /\ RecordAt(segments'[t], g) = records[k]
    <3>1. CASE t = s /\ g > f
      <4>1. g <= p + q
        BY <1>7, <1>10, <3>1
      <4> DEFINE e == g - p
      <4>2. e \in 1..q /\ e > i - j /\ p + e = g
        BY <1>8, <3>1, <4>1
      <4> HIDE DEF e
      <4>3. j + e \in 1..N /\ RecordAt(segments'[t], g) = records[j + e]
        BY <1>7, <3>1, <4>2
      <4>4. j + e > i
        BY <1>1, <4>2
      <4> QED BY <4>3, <4>4
    <3>2. CASE t > s
      <4>1. PICK a \in Nat, b \in Nat, l \in Nat : Got(t, a, b, l)
        <5> HIDE DEF Got
        <5> QED BY <1>6
      <4>2. a = 0
        <5>1. t \notin DOMAIN segments
          BY <1>3, <1>5, <3>2
        <5> QED BY <4>1, <5>1 DEF OldUnits
      <4>3. g \in 1..b /\ a + g = g
        BY <1>10, <4>1, <4>2
      <4>4. l + g \in 1..N /\ RecordAt(segments'[t], g) = records[l + g] /\ at[l + g].segment = t
        BY <4>1, <4>3
      <4>5. l + g > i
        <5> SUFFICES ASSUME ~(l + g > i) PROVE FALSE
          OBVIOUS
        <5> DEFINE k == l + g
        <5>1. k \in 0..N /\ i \in 0..N /\ k <= i
          BY <1>1, <4>3, <4>4
        <5> HIDE DEF k
        <5>2. at[k].segment <= at[i].segment
          BY <1>4, <5>1
        <5>3. t <= s
          BY <4>4, <5>2 DEF k, s
        <5> QED BY <1>3, <1>5, <3>2, <5>3
      <4> QED BY <4>4, <4>5
    <3> QED BY <1>10, <3>1, <3>2
  <2>2. PICK k \in 1..N : k > i /\ RecordAt(segments'[t], g) = records[k]
    BY <2>1
  <2>3. records[i] < records[k]
    BY <1>1, <2>2 DEF Increasing
  <2>4. records[i] \in Nat /\ records[k] \in Nat
    BY <1>1
  <2> QED BY <2>2, <2>3, <2>4
<1>11. KeptAt(segments', records[i], s, f)
  <2> HIDE DEF f
  <2> QED BY <1>5, <1>9, <1>10 DEF KeptAt
<1>12. f \in Nat
  BY <1>9
<1> HIDE DEF f
<1> QED BY <1>5, <1>11, <1>12 DEF Kept

(* The same frames in the same places keep the same records.               *)
SameFrames(old, new) ==
    /\ DOMAIN old \subseteq DOMAIN new
    /\ \A s \in DOMAIN new, f \in Nat \ {0} : 3 * f <= Len(new[s]) =>
          /\ s \in DOMAIN old /\ 3 * f <= Len(old[s])
          /\ RecordAt(new[s], f) = RecordAt(old[s], f)
    /\ \A s \in DOMAIN old, f \in Nat \ {0} : 3 * f <= Len(old[s]) => 3 * f <= Len(new[s])

LEMMA KeptSame ==
    ASSUME NEW old, NEW new, NEW r, Kept(old, r), SameFrames(old, new)
    PROVE  Kept(new, r)
<1>1. PICK s \in Nat, f \in Nat : KeptAt(old, r, s, f)
  BY DEF Kept
<1>2. /\ s \in DOMAIN old /\ f \in Nat \ {0} /\ 3 * f <= Len(old[s])
      /\ RecordAt(old[s], f) = r
  BY <1>1 DEF KeptAt
<1>3. /\ s \in DOMAIN new /\ 3 * f <= Len(new[s]) /\ RecordAt(new[s], f) = r
  BY <1>2 DEF SameFrames
<1>4. ASSUME NEW t \in DOMAIN new, NEW g \in Nat \ {0}, 3 * g <= Len(new[t]),
             t > s \/ (t = s /\ g > f)
      PROVE  RecordAt(new[t], g) >= r
  <2>1. t \in DOMAIN old /\ 3 * g <= Len(old[t]) /\ RecordAt(new[t], g) = RecordAt(old[t], g)
    BY <1>4 DEF SameFrames
  <2>2. RecordAt(old[t], g) >= r
    BY <1>1, <1>4, <2>1 DEF KeptAt
  <2> QED BY <2>1, <2>2
<1>5. KeptAt(new, r, s, f)
  BY <1>2, <1>3, <1>4 DEF KeptAt
<1> QED BY <1>5 DEF Kept

(* As long as no write tears a frame, a running process has whole frames   *)
(* on file; a crash may leave one byte of the next behind them.            *)
FileInv ==
    /\ FilesTyped
    /\ phase # "corrupt"
    /\ \A s \in DOMAIN segments : s < Len(segments) \/ phase # "down" => Whole(segments[s])
    /\ Whole(Last(segments)) \/ Torn(Last(segments))
    /\ \A r \in secured : Kept(segments, r)

LEMMA WriteKeepsFiles ==
    ASSUME BufferInv, FileInv, phase # "down",
           NEW records \in Seq(Nat), Below(secured, ToSet(records)), Increasing(records),
           NEW n \in 0..Units(records), n % 3 # 2, WriteUnits(records, n),
           phase' # "corrupt", n % 3 = 0 \/ phase' = "down",
           \/ secured' = secured
           \/ secured' = secured \cup ToSet(records) /\ n = Units(records)
    PROVE  FileInv'
<1>1. FilesTyped /\ \A s \in DOMAIN segments : Whole(segments[s])
  BY DEF FileInv
<1>2. FilesTyped' /\ \E at : Grows(records, at, n)
  BY <1>1, FramesWritten
<1>3. PICK at : Grows(records, at, n)
  BY <1>2
<1>4. n \in Nat
  BY EncodedUnits
<1>5. /\ \A s \in DOMAIN segments' : s < Len(segments') \/ n % 3 = 0 => Whole(segments'[s])
      /\ Whole(Last(segments')) \/ Torn(Last(segments'))
  BY <1>2, <1>3, <1>4, WholeAfter
<1>6. ASSUME NEW r \in secured PROVE Kept(segments', r)
  <2>1. r \in Nat /\ Kept(segments, r)
    BY DEF BufferInv, Types, FileInv
  <2>2. \A i \in DOMAIN records : records[i] >= r
    <3> SUFFICES ASSUME NEW i \in DOMAIN records PROVE records[i] >= r
      OBVIOUS
    <3>1. records[i] \in ToSet(records) /\ records[i] \in Nat
      BY DEF ToSet
    <3>2. r < records[i]
      BY <3>1 DEF Below
    <3> QED BY <2>1, <3>1, <3>2
  <2> QED BY <1>1, <1>2, <1>3, <1>4, <2>1, <2>2, KeptAfter
<1>7. ASSUME n = Units(records), NEW r \in ToSet(records) PROVE Kept(segments', r)
  <2>1. PICK i \in DOMAIN records : r = records[i]
    BY DEF ToSet
  <2>2. Grows(records, at, Units(records))
    BY <1>3, <1>7
  <2>3. Kept(segments', records[i])
    BY <1>1, <1>2, <2>2, KeptWhenWritten
  <2> QED BY <2>1, <2>3
<1>8. \A r \in secured' : Kept(segments', r)
  BY <1>6, <1>7
<1>9. \A s \in DOMAIN segments' : s < Len(segments') \/ phase' # "down" => Whole(segments'[s])
  BY <1>5
<1> QED BY <1>2, <1>5, <1>8, <1>9 DEF FileInv

LEMMA SealKeepsFiles ==
    ASSUME FileInv, phase # "down", segments' = Append(segments, <<>>), size' = 0,
           UNCHANGED <<phase, secured>>
    PROVE  FileInv'
<1> DEFINE l == Len(segments)
<1>1. <<>> \in Seq(Unit) /\ Len(<<>>) = 0 /\ segments \in Seq(Seq(Unit)) /\ l \in Nat
  BY DEF FileInv, FilesTyped
<1>2. /\ segments' \in Seq(Seq(Unit)) /\ segments' # <<>> /\ Len(segments') = l + 1
      /\ \A s \in 1..l : segments'[s] = segments[s]
      /\ segments'[l + 1] = <<>>
  BY <1>1, AppendProperties
<1>3. DOMAIN segments = 1..l /\ DOMAIN segments' = 1..(l + 1)
  BY <1>1, <1>2
<1>4. Whole(<<>>)
  <2>1. Len(<<>>) = 3 * 0 /\ Framed(<<>>, 0)
    BY DEF Framed
  <2> QED BY <2>1 DEF Whole
<1> HIDE DEF l
<1>5. \A s \in DOMAIN segments' : Whole(segments'[s])
  <2> SUFFICES ASSUME NEW s \in 1..(l + 1) PROVE Whole(segments'[s])
    BY <1>3
  <2>1. s \in 1..l \/ s = l + 1
    BY <1>1
  <2>2. \A t \in 1..l : Whole(segments[t])
    BY <1>3 DEF FileInv
  <2> QED BY <1>2, <1>4, <2>1, <2>2
<1>6. Whole(Last(segments'))
  BY <1>2, <1>4 DEF Last
<1>7. SameFrames(segments, segments')
  <2>1. DOMAIN segments \subseteq DOMAIN segments'
    BY <1>1, <1>3
  <2>2. ASSUME NEW s \in DOMAIN segments', NEW f \in Nat \ {0}, 3 * f <= Len(segments'[s])
        PROVE  /\ s \in DOMAIN segments /\ 3 * f <= Len(segments[s])
               /\ RecordAt(segments'[s], f) = RecordAt(segments[s], f)
    <3>1. s # l + 1
      BY <1>1, <1>2, <2>2
    <3>2. s \in 1..l
      BY <1>1, <1>3, <3>1
    <3> QED BY <1>2, <1>3, <2>2, <3>2
  <2>3. ASSUME NEW s \in DOMAIN segments, NEW f \in Nat \ {0}, 3 * f <= Len(segments[s])
        PROVE  3 * f <= Len(segments'[s])
    BY <1>2, <1>3, <2>3
  <2> QED BY <2>1, <2>2, <2>3 DEF SameFrames
<1>8. \A r \in secured : Kept(segments', r)
  BY <1>7, KeptSame DEF FileInv
<1> QED BY <1>2, <1>5, <1>6, <1>8 DEF FileInv, FilesTyped

LEMMA ScanWhole ==
    ASSUME NEW c \in Seq(Unit), Whole(c)
    PROVE  ~Scan(c).torn
<1>1. PICK m \in Nat : Len(c) = 3 * m /\ Framed(c, m)
  BY DEF Whole
<1>2. Len(c) \in {3 * m, 3 * m + 1} /\ Len(c) # 3 * m + 1
  BY <1>1
<1>3. Scan(c).torn <=> Len(c) = 3 * m + 1
  BY <1>1, <1>2, ScanFramed
<1> QED BY <1>2, <1>3

LEMMA NeverRefused == FileInv => ~Refused
<1> SUFFICES ASSUME FileInv, NEW s \in DOMAIN segments, s < Len(segments), Scan(segments[s]).torn
             PROVE  FALSE
  BY DEF Refused
<1>1. Whole(segments[s]) /\ segments[s] \in Seq(Unit)
  BY DEF FileInv, FilesTyped
<1> QED BY <1>1, ScanWhole

LEMMA OpenKeepsFiles ==
    ASSUME FileInv, Open
    PROVE  FileInv'
<1> DEFINE l == Len(segments)
           c == Last(segments)
           d == Last(segments')
<1>1. FilesTyped /\ ~Refused
  BY NeverRefused DEF FileInv
<1>2. /\ FilesTyped' /\ Len(segments') = l
      /\ \A s \in DOMAIN segments : s # l => segments'[s] = segments[s]
      /\ d = c \/ d = SubSeq(c, 1, Scan(c).good)
      /\ phase' = "open"
      /\ Scan(c).torn => d = SubSeq(c, 1, Scan(c).good)
  BY <1>1, OpenCuts
<1>3. /\ l \in Nat \ {0} /\ c = segments[l] /\ c \in Seq(Unit) /\ d = segments'[l]
      /\ DOMAIN segments = 1..l /\ DOMAIN segments' = 1..l
  BY <1>1, <1>2, LastSegment DEF FilesTyped, Last
<1>4. secured' = secured
  BY DEF Open
<1>5. PICK m \in Nat : Framed(c, m) /\ Len(c) \in {3 * m, 3 * m + 1}
  BY DEF FileInv, Whole, Torn
<1>6. Scan(c).good = 3 * m /\ (Scan(c).torn <=> Len(c) = 3 * m + 1)
  BY <1>3, <1>5, ScanFramed
<1> HIDE DEF l, c, d
<1>7. /\ Len(d) = 3 * m
      /\ \A u \in 1..(3 * m) : d[u] = c[u]
  <2>1. CASE d = SubSeq(c, 1, Scan(c).good)
    <3>1. \A u \in 1..(3 * m) : c[u] \in Unit
      BY <1>3, <1>5
    <3> DEFINE k == 3 * m
    <3>2. k \in Nat /\ k \in Int /\ 1 \in Int /\ d = SubSeq(c, 1, k)
      BY <1>6, <2>1
    <3>3. \A u \in 1..k : c[u] \in Unit
      BY <3>1
    <3> HIDE DEF k
    <3>4. /\ Len(SubSeq(c, 1, k)) = IF 1 <= k THEN k - 1 + 1 ELSE 0
          /\ \A u \in 1 .. k - 1 + 1 : SubSeq(c, 1, k)[u] = c[1 + u - 1]
      BY <3>2, <3>3, SubSeqProperties
    <3>5. Len(d) = k /\ \A u \in 1..k : d[u] = c[u]
      BY <3>2, <3>4
    <3> QED BY <3>5 DEF k
  <2>2. CASE d # SubSeq(c, 1, Scan(c).good)
    BY <1>2, <1>5, <1>6, <2>2
  <2> QED BY <2>1, <2>2
<1>8. \A f \in 1..m : RecordAt(d, f) = RecordAt(c, f) /\ FrameAt(d, f)
  <2> SUFFICES ASSUME NEW f \in 1..m PROVE RecordAt(d, f) = RecordAt(c, f) /\ FrameAt(d, f)
    OBVIOUS
  <2>1. 3 * f - 2 \in 1..(3 * m) /\ 3 * f - 1 \in 1..(3 * m) /\ 3 * f \in 1..(3 * m)
    OBVIOUS
  <2>2. d[3 * f - 2] = c[3 * f - 2] /\ d[3 * f - 1] = c[3 * f - 1] /\ d[3 * f] = c[3 * f]
    BY <1>7, <2>1
  <2>3. FrameAt(c, f)
    BY <1>5 DEF Framed
  <2> QED BY <2>2, <2>3 DEF FrameAt, RecordAt
<1>9. Whole(d)
  BY <1>7, <1>8 DEF Whole, Framed
<1>10. ASSUME NEW s \in DOMAIN segments' PROVE Whole(segments'[s])
  <2>1. CASE s = l
    BY <1>3, <1>9, <2>1
  <2>2. CASE s # l
    <3>1. s \in DOMAIN segments /\ s < Len(segments)
      BY <1>3, <2>2 DEF l
    <3>2. Whole(segments[s])
      BY <3>1 DEF FileInv
    <3> QED BY <1>2, <2>2, <3>1, <3>2
  <2> QED BY <2>1, <2>2
<1>11. SameFrames(segments, segments')
  <2>1. ASSUME NEW f \in Nat \ {0} PROVE 3 * f <= Len(c) <=> f \in 1..m
    BY <1>5
  <2>2. ASSUME NEW f \in Nat \ {0} PROVE 3 * f <= Len(d) <=> f \in 1..m
    BY <1>7
  <2>3. ASSUME NEW s \in DOMAIN segments', NEW f \in Nat \ {0}, 3 * f <= Len(segments'[s])
        PROVE  /\ s \in DOMAIN segments /\ 3 * f <= Len(segments[s])
               /\ RecordAt(segments'[s], f) = RecordAt(segments[s], f)
    <3>1. CASE s = l
      BY <1>3, <1>8, <2>1, <2>2, <2>3, <3>1
    <3>2. CASE s # l
      BY <1>2, <1>3, <2>3, <3>2
    <3> QED BY <3>1, <3>2
  <2>4. ASSUME NEW s \in DOMAIN segments, NEW f \in Nat \ {0}, 3 * f <= Len(segments[s])
        PROVE  3 * f <= Len(segments'[s])
    <3>1. CASE s = l
      BY <1>3, <2>1, <2>2, <2>4, <3>1
    <3>2. CASE s # l
      BY <1>2, <1>3, <2>4, <3>2
    <3> QED BY <3>1, <3>2
  <2> QED BY <1>3, <2>3, <2>4 DEF SameFrames
<1>12. \A r \in secured' : Kept(segments', r)
  BY <1>4, <1>11, KeptSame DEF FileInv
<1> QED BY <1>2, <1>9, <1>10, <1>12 DEF FileInv, d

LEMMA SameKeepsFiles ==
    ASSUME FileInv, UNCHANGED logVars, secured' = secured,
           phase' = phase \/ (phase # "down" /\ phase' \notin {"down", "corrupt"})
    PROVE  FileInv'
<1>1. UNCHANGED <<segments, size>>
  BY DEF logVars
<1> QED BY <1>1 DEF FileInv, FilesTyped

LEMMA FileInvInit == Init => FileInv
<1> SUFFICES ASSUME Init PROVE FileInv
  OBVIOUS
<1>1. FilesTyped /\ segments = <<<<>>>> /\ secured = {} /\ phase = "open"
  BY SizeInvInit DEF SizeInv, Init
<1>2. Len(segments) = 1 /\ segments[1] = <<>> /\ DOMAIN segments = {1}
  BY <1>1
<1>3. Len(<<>>) = 3 * 0 /\ Framed(<<>>, 0)
  BY DEF Framed
<1>4. Whole(<<>>)
  BY <1>3 DEF Whole
<1>5. Last(segments) = <<>>
  BY <1>2 DEF Last
<1> QED BY <1>1, <1>2, <1>4, <1>5 DEF FileInv

LEMMA FileInvStep ==
    ASSUME Faults \subseteq {"fail"}, BufferInv, FileInv, [Next]_vars
    PROVE  FileInv'
<1>1. /\ batch \in Seq(Nat) /\ data \in Seq(Nat)
      /\ Below(secured, ToSet(batch)) /\ Below(secured, ToSet(data))
      /\ Increasing(batch) /\ Increasing(data)
      /\ stage # "none" => Running
  BY DEF BufferInv, Types, AgeOrder, LockHeld, Below
<1>2. \A records \in Seq(Nat) : /\ Units(records) \in 0..Units(records)
                                /\ Units(records) % 3 = 0
  <2> SUFFICES ASSUME NEW records \in Seq(Nat)
               PROVE  Units(records) \in 0..Units(records) /\ Units(records) % 3 = 0
    OBVIOUS
  <2> DEFINE k == Len(records)
  <2>1. Units(records) = 3 * k /\ k \in Nat
    BY EncodedUnits
  <2> HIDE DEF k
  <2> QED BY <2>1
<1>3. \A records \in Seq(Nat) : \A n \in FailurePoints(records) :
          n \in 0..Units(records) /\ n % 3 = 0
  BY DEF FailurePoints, FrameSize
<1>4. \A records \in Seq(Nat) : \A n \in CrashPoints(records) :
          n \in 0..Units(records) /\ n % 3 # 2
  BY DEF CrashPoints, FrameSize, HeaderSize
<1>5. CASE BatchWritten
  <2>1. /\ WriteUnits(batch, Units(batch)) /\ phase' = phase /\ stage = "write"
        /\ secured' = secured \cup ToSet(batch)
    BY <1>5 DEF BatchWritten
  <2>2. phase # "down" /\ phase' # "corrupt"
    BY <1>1, <2>1 DEF Running
  <2> QED BY <1>1, <1>2, <2>1, <2>2, WriteKeepsFiles
<1>6. CASE BatchFails \/ BatchRefused
  <2>1. /\ UNCHANGED logVars \/ \E n \in FailurePoints(batch) : WriteUnits(batch, n)
        /\ phase' \in {phase, "closed"} /\ stage = "write" /\ secured' = secured
    BY <1>6 DEF BatchFails, BatchRefused, PutBack, history
  <2>2. phase # "down" /\ phase' \notin {"down", "corrupt"}
    BY <1>1, <2>1 DEF Running
  <2>3. CASE UNCHANGED logVars
    BY <2>1, <2>2, <2>3, SameKeepsFiles
  <2>4. CASE \E n \in FailurePoints(batch) : WriteUnits(batch, n)
    <3>1. PICK n \in FailurePoints(batch) : WriteUnits(batch, n)
      BY <2>4
    <3>2. n \in 0..Units(batch) /\ n % 3 = 0
      BY <1>1, <1>3
    <3>3. n % 3 # 2
      BY <3>2
    <3> QED BY <1>1, <2>1, <2>2, <3>1, <3>2, <3>3, WriteKeepsFiles
  <2> QED BY <2>1, <2>3, <2>4
<1>7. CASE DirectWritten
  <2>1. /\ WriteUnits(data, Units(data)) /\ phase' = phase /\ stage = "then"
        /\ secured' = secured \cup ToSet(data)
    BY <1>7 DEF DirectWritten
  <2>2. phase # "down" /\ phase' # "corrupt"
    BY <1>1, <2>1 DEF Running
  <2> QED BY <1>1, <1>2, <2>1, <2>2, WriteKeepsFiles
<1>8. CASE DirectFails
  <2>1. /\ \E n \in FailurePoints(data) : WriteUnits(data, n)
        /\ phase' = phase /\ stage = "then" /\ secured' = secured
    BY <1>8 DEF DirectFails, history
  <2>2. phase # "down" /\ phase' # "corrupt"
    BY <1>1, <2>1 DEF Running
  <2>3. PICK n \in FailurePoints(data) : WriteUnits(data, n)
    BY <2>1
  <2>4. n \in 0..Units(data) /\ n % 3 = 0
    BY <1>1, <1>3
  <2>5. n % 3 # 2
    BY <2>4
  <2> QED BY <1>1, <2>1, <2>2, <2>3, <2>4, <2>5, WriteKeepsFiles
<1>9. CASE Crash
  <2>1. /\ Running /\ phase' = "down" /\ secured' = secured
        /\ \E n \in CrashPoints(InFlight) : WriteUnits(InFlight, n)
    BY <1>9 DEF Crash
  <2>2. /\ InFlight \in Seq(Nat) /\ Below(secured, ToSet(InFlight)) /\ Increasing(InFlight)
    BY <1>1, NoRecords DEF InFlight, Below
  <2>3. PICK n \in CrashPoints(InFlight) : WriteUnits(InFlight, n)
    BY <2>1
  <2>4. n \in 0..Units(InFlight) /\ n % 3 # 2
    BY <1>4, <2>2
  <2> QED BY <2>1, <2>2, <2>3, <2>4, WriteKeepsFiles DEF Running
<1>10. CASE RotateSeals
  <2>1. /\ UNCHANGED logVars \/ (segments' = Append(segments, <<>>) /\ size' = 0)
        /\ stage = "then" /\ UNCHANGED <<phase, secured>>
    BY <1>10 DEF RotateSeals, history
  <2>2. phase # "down"
    BY <1>1, <2>1 DEF Running
  <2> QED BY <2>1, <2>2, SealKeepsFiles, SameKeepsFiles
<1>11. CASE Open
  BY <1>11, OpenKeepsFiles
<1>12. CASE CloseBegin \/ CloseEnd
  <2>1. /\ UNCHANGED logVars /\ secured' = secured /\ phase' \in {"closing", "closed"}
        /\ phase = "open" \/ stage = "then"
    BY <1>12 DEF CloseBegin, CloseEnd, history
  <2>2. phase # "down"
    BY <1>1, <2>1 DEF Running
  <2> QED BY <2>1, <2>2, SameKeepsFiles
<1>13. CASE TickerLocks \/ ClientLocks \/ CloserLocks \/ TickerDone \/ FlushEmpty
              \/ FlushReturns \/ DirectRefused \/ RotateFails \/ RotateBegin \/ Swap
              \/ AppendRefused \/ AppendFull \/ AppendBuffered
  <2>1. UNCHANGED <<logVars, phase, secured>>
    BY <1>13 DEF TickerLocks, ClientLocks, CloserLocks, LockBy, TickerDone, FlushEmpty,
           FlushReturns, DirectRefused, RotateFails, RotateBegin, Swap, AppendRefused,
           AppendFull, AppendBuffered, history
  <2> QED BY <2>1, SameKeepsFiles
<1>14. ASSUME NEW n \in 1..MaxData, AppendBegin(n) PROVE FileInv'
  BY <1>14, SameKeepsFiles DEF AppendBegin, history
<1>15. CASE UNCHANGED vars
  BY <1>15, SameKeepsFiles DEF vars, history
<1> QED BY <1>5, <1>6, <1>7, <1>8, <1>9, <1>10, <1>11, <1>12, <1>13, <1>14, <1>15
        DEF Next, ClientStep, HolderStep, Failures

(* Replay returns the frames of each segment.                              *)
LEMMA FileInvReplays ==
    ASSUME FileInv, secured \subseteq Nat
    PROVE  DurableReplayed
<1>1. ~Refused
  BY NeverRefused
<1>2. /\ DOMAIN Replayed = DOMAIN segments /\ DOMAIN segments \subseteq Nat
      /\ \A s \in DOMAIN segments : Replayed[s] = Scan(segments[s]).records
  BY DEF Replayed, FileInv, FilesTyped
<1>3. ASSUME NEW s \in DOMAIN segments
      PROVE  \A i : i \in DOMAIN Replayed[s] <=> i \in Nat \ {0} /\ 3 * i <= Len(segments[s])
  <2>1. PICK m \in Nat : Framed(segments[s], m) /\ Len(segments[s]) \in {3 * m, 3 * m + 1}
    <3>1. Whole(segments[s]) \/ Torn(segments[s])
      <4>1. s < Len(segments) \/ s = Len(segments)
        BY DEF FileInv, FilesTyped
      <4> QED BY <4>1 DEF FileInv, Last
    <3> QED BY <3>1 DEF Whole, Torn
  <2>2. segments[s] \in Seq(Unit)
    BY DEF FileInv, FilesTyped
  <2>3. Replayed[s] \in Seq(Nat) /\ Len(Replayed[s]) = m
    BY <1>2, <2>1, <2>2, ScanFramed
  <2>4. DOMAIN Replayed[s] = 1..m
    BY <2>3
  <2> QED BY <2>1, <2>4
<1>4. ASSUME NEW s \in DOMAIN segments, NEW i \in DOMAIN Replayed[s]
      PROVE  Replayed[s][i] = RecordAt(segments[s], i)
  <2>1. PICK m \in Nat : Framed(segments[s], m) /\ Len(segments[s]) \in {3 * m, 3 * m + 1}
    <3>1. Whole(segments[s]) \/ Torn(segments[s])
      <4>1. s < Len(segments) \/ s = Len(segments)
        BY DEF FileInv, FilesTyped
      <4> QED BY <4>1 DEF FileInv, Last
    <3> QED BY <3>1 DEF Whole, Torn
  <2>2. segments[s] \in Seq(Unit)
    BY DEF FileInv, FilesTyped
  <2>3. i \in 1..m
    BY <1>3, <2>1
  <2> QED BY <1>2, <2>1, <2>2, <2>3, ScanFramed
<1>5. ASSUME NEW r \in secured
      PROVE  \E s \in DOMAIN Replayed : \E i \in DOMAIN Replayed[s] :
                /\ Replayed[s][i] = r
                /\ \A t \in DOMAIN Replayed : \A j \in DOMAIN Replayed[t] :
                      t > s \/ (t = s /\ j > i) => Replayed[t][j] >= r
  <2>1. PICK s \in Nat, f \in Nat : KeptAt(segments, r, s, f)
    BY DEF FileInv, Kept
  <2>2. /\ s \in DOMAIN segments /\ f \in Nat \ {0} /\ 3 * f <= Len(segments[s])
        /\ RecordAt(segments[s], f) = r
    BY <2>1 DEF KeptAt
  <2>3. s \in DOMAIN Replayed /\ f \in DOMAIN Replayed[s] /\ Replayed[s][f] = r
    BY <1>2, <1>3, <1>4, <2>2
  <2>4. ASSUME NEW t \in DOMAIN Replayed, NEW j \in DOMAIN Replayed[t],
               t > s \/ (t = s /\ j > f)
        PROVE  Replayed[t][j] >= r
    <3>1. t \in DOMAIN segments /\ j \in Nat \ {0} /\ 3 * j <= Len(segments[t])
      BY <1>2, <1>3
    <3>2. RecordAt(segments[t], j) >= r
      BY <2>1, <2>4, <3>1 DEF KeptAt
    <3> QED BY <1>4, <3>1, <3>2
  <2> QED BY <2>3, <2>4
<1> QED BY <1>1, <1>5 DEF DurableReplayed

(* Whatever a flush or AppendLog reported durable can be replayed after    *)
(* any crash, rotation or retry, with no older record behind it, as long   *)
(* as a failed write stops between frames and no crash leaves a header     *)
(* without a byte of its payload: the two faults under which replay in     *)
(* recovery.go does lose records (replaySegment, writeDataLocked).         *)
THEOREM DurableIsReplayed ==
    ASSUME Faults \subseteq {"fail"}
    PROVE  Spec => []DurableReplayed
<1>1. Init => BufferInv /\ FileInv
  BY BufferInvInit, FileInvInit
<1>2. BufferInv /\ FileInv /\ [Next]_vars => BufferInv' /\ FileInv'
  BY BufferInvStep, FileInvStep
<1>3. BufferInv /\ FileInv => DurableReplayed
  BY FileInvReplays DEF BufferInv, Types
<1> QED BY <1>1, <1>2, <1>3, PTL DEF Spec
=============================================================================
