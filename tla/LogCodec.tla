------------------------------ MODULE LogCodec ------------------------------
(***************************************************************************)
(* The bytes of a structured log (utils/key.go, utils/value.go) between    *)
(* WriteLogs and Query (log.go): a key made of the time, the labels and a  *)
(* sequence number, whose order is the order of time, and a value that     *)
(* holds the message compressed.                                           *)
(*                                                                         *)
(* The time and the sequence have two digits to the base Base where the    *)
(* code has eight bytes.  A message is its length, and the libraries that  *)
(* compress it give back what they were given.                             *)
(***************************************************************************)
EXTENDS Bytes

CONSTANTS
    Base,            \* 256
    LabelText,       \* names and values of labels
    LogTime,         \* times of logs and queries, in nanoseconds since 1970:
                     \* negative ones, and ones that do not fit 64 bits
    LogNumber,       \* sequence numbers
    MaxMessage,      \* MaxValueMessageSize
    MaxLabels        \* bound on the labels of a log

Wide == Base * Base    \* 2^64

ASSUME LogCodecAssumption ==
    /\ Base \in Nat \ {0}
    /\ Base % 2 = 0
    /\ LabelText \subseteq Seq(Nat)
    /\ LogTime \subseteq Int
    /\ LogNumber \subseteq 0 .. Wide - 1
    /\ MaxMessage \in Nat
    /\ MaxLabels \in Nat

VARIABLES
    log,        \* the entry handed to WriteLogs, or NoLog
    logKey, logValue   \* its record, <<>> if it was refused

codecVars == <<log, logKey, logValue>>

NoLog == [time |-> 0, labels |-> <<>>, number |-> 0, message |-> -1]

-----------------------------------------------------------------------------
(* Keys.                                                                   *)

\* A time.Time reaches further than an int64, and UnixNano wraps.
Nanoseconds == -(Wide \div 2) .. Wide \div 2 - 1
UnixNano(time) == ((time + Wide \div 2) % Wide) - Wide \div 2

Digits(n) == <<n \div Base, n % Base>>
Value(digits) == digits[1] * Base + digits[2]

\* encodeOrderedInt64 and its inverse: the sign bit of the 64 is flipped.
Ordered(v) == (v + Wide \div 2) % Wide
Unordered(u) == u - Wide \div 2

TimePrefix(time) == Digits(Ordered(time))

Percent == 37  Bar == 124  Equals == 61  NUL == 0

\* NormalizeLabels, a sort by name and then by value.
LabelBefore(a, b) ==
    Precedes(a.name, b.name) \/ (a.name = b.name /\ Precedes(a.value, b.value))
NormalizeLabels(labels) ==
    LET before(i, j) == \/ LabelBefore(labels[i], labels[j])
                        \/ labels[i] = labels[j] /\ i < j
        order == Listed(DOMAIN labels, before)
    IN [n \in DOMAIN labels |-> labels[order[n]]]

Substituted(text, byte, by) ==
    FlattenSeq([i \in DOMAIN text |-> IF text[i] = byte THEN by ELSE <<text[i]>>])

BugEscape(text) ==
    LET noBars   == Substituted(text, Bar, <<Percent, 55, 67>>)
        noEquals == Substituted(noBars, Equals, <<Percent, 51, 68>>)
    IN Substituted(noEquals, Percent, <<Percent, 50, 53>>)
\* escapeLabelPart, % first.
Escape(text) ==
    LET noPercent == Substituted(text, Percent, <<Percent, 50, 53>>)
        noBars    == Substituted(noPercent, Bar, <<Percent, 55, 67>>)
    IN Substituted(noBars, Equals, <<Percent, 51, 68>>)

\* unescapeLabelPart of what Escape may have returned.
Unescape(text) ==
    LET token(i)   == SubSeq(text, i, Min({i + 2, Len(text)}))
        byte(i) == CASE token(i) = <<Percent, 50, 53>> -> Percent
                     [] token(i) = <<Percent, 55, 67>> -> Bar
                     [] token(i) = <<Percent, 51, 68>> -> Equals
                     [] OTHER -> text[i]
        from[i \in 1 .. Len(text) + 3] ==
            IF i > Len(text) THEN <<>>
            ELSE <<byte(i)>> \o from[IF text[i] = Percent THEN i + 3 ELSE i + 1]
    IN from[1]

EncodeLabels(labels) ==
    FlattenSeq([i \in DOMAIN labels |->
        (IF i > 1 THEN <<Bar>> ELSE <<>>)
            \o Escape(labels[i].name) \o <<Equals>> \o Escape(labels[i].value)])

EncodeKey(time, labels, number) ==
    TimePrefix(time) \o EncodeLabels(NormalizeLabels(labels)) \o <<NUL>> \o Digits(number)

\* strings.Split at the bars, and strings.Cut at the first equals sign.
Position(text, byte) == Min({Len(text) + 1} \cup {i \in DOMAIN text : text[i] = byte})
DecodeLabels(text) ==
    LET label(part) ==
            LET cut == Position(part, Equals)
            IN [name  |-> Unescape(SubSeq(part, 1, cut - 1)),
                value |-> Unescape(SubSeq(part, cut + 1, Len(part)))]
        from[i \in 1 .. Len(text) + 2] ==
            IF i > Len(text) THEN <<>>
            ELSE LET rest == SubSeq(text, i, Len(text))
                     bar  == Position(rest, Bar)
                 IN <<label(SubSeq(rest, 1, bar - 1))>> \o from[i + bar]
    IN from[1]

DecodeKey(key) ==
    LET end == Len(key) - 2
    IN [time   |-> Unordered(Value(SubSeq(key, 1, 2))),
        labels |-> DecodeLabels(SubSeq(key, 3, end - 1)),
        number |-> Value(SubSeq(key, end + 1, Len(key)))]

-----------------------------------------------------------------------------
(* Values.                                                                 *)

CompressionType == {"none", "gzip", "snappy", "lz4", "zstd"}

\* compressMessage: the length is looked at, whatever the algorithm.
Compressible(message) == message <= MaxMessage

\* decompressMessage: two algorithms are read as streams, cut off one byte
\* behind the limit, the others know the length; -1 is an error.
Decompressed(message, compression) ==
    LET total == IF compression \in {"gzip", "lz4"}
                  THEN Min({message, MaxMessage + 1}) ELSE message
    IN IF total <= MaxMessage THEN total ELSE -1

-----------------------------------------------------------------------------
CodecInit ==
    /\ log = NoLog
    /\ logKey = <<>>
    /\ logValue = <<>>

\* validateLabel, and the names validateQueryLabels wants to be different.
ValidLabels(labels) ==
    /\ \A i \in DOMAIN labels : /\ labels[i].name # <<>>
                                /\ NUL \notin ToSet(labels[i].name)
                                /\ NUL \notin ToSet(labels[i].value)
    /\ \A i, j \in DOMAIN labels : labels[i].name = labels[j].name => i = j

EncodeLog(entry, compression) ==
    /\ log = NoLog
    /\ log' = entry
    /\ IF ValidLabels(entry.labels) /\ Compressible(entry.message)
       THEN /\ logKey' = EncodeKey(UnixNano(entry.time), entry.labels, entry.number)
            /\ logValue' = <<[time |-> UnixNano(entry.time), message |-> entry.message,
                              compression |-> compression]>>
       ELSE UNCHANGED <<logKey, logValue>>

Label == [name : LabelText, value : LabelText]

CodecNext ==
    \E time \in LogTime, labels \in BoundedSeq(Label, MaxLabels),
       number \in LogNumber, message \in 0 .. MaxMessage + 1,
       compression \in CompressionType :
          EncodeLog([time |-> time, labels |-> labels, number |-> number,
                     message |-> message], compression)

CodecSpec == CodecInit /\ [][CodecNext]_codecVars

-----------------------------------------------------------------------------
\* The key range of a query of [start, end]; the last time has no successor.
StartKey(start) == TimePrefix(UnixNano(start))
EndKey(end) ==
    IF UnixNano(end) < Wide \div 2 - 1 THEN TimePrefix(UnixNano(end) + 1) ELSE <<>>

InKeyRange(key, start, end) ==
    /\ ~Precedes(key, StartKey(start))
    /\ EndKey(end) = <<>> \/ Precedes(key, EndKey(end))

(* A log that was accepted comes back as it was written: its key decodes   *)
(* to its labels and its number, and its message can be read.  If its time *)
(* fits an int64 of nanoseconds (years 1678 to 2262; another one is        *)
(* accepted too, and wraps), the key decodes to it as well, so that        *)
(* different logs have different keys, and lies in exactly the key ranges  *)
(* of the queries whose time range, of such times, the log lies in.        *)
LogComesBack ==
    logKey # <<>> =>
        /\ DecodeKey(logKey).labels = NormalizeLabels(log.labels)
        /\ DecodeKey(logKey).number = log.number
        /\ Decompressed(logValue[1].message, logValue[1].compression) = log.message
        /\ log.time \in Nanoseconds =>
              /\ DecodeKey(logKey).time = log.time
              /\ \A start, end \in LogTime \cap Nanoseconds : start <= end =>
                    (InKeyRange(logKey, start, end)
                       <=> start <= log.time /\ log.time <= end)
=============================================================================
