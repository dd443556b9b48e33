--------------------------- MODULE MCLogRecordCodec ---------------------------
(***************************************************************************)
(* The codec checked on every log of up to MaxRecords records the engine   *)
(* can write: Put records with a user value, Delete records with none,     *)
(* and TxnFinished markers with the key "fin", each under a sequence       *)
(* number that takes one or two varint bytes.  The state is the log; it    *)
(* does not change.                                                        *)
(***************************************************************************)
EXTENDS LogRecordCodec, FiniteSets

CONSTANTS UserKeys, UserValues, SeqNums, MaxRecords

VARIABLE log

MCUserKeys   == {<< 107 >>}                  \* "k"
MCUserValues == {<< >>, << 118, 118 >>}     \* "", "vv"

TxnFinKey == << 102, 105, 110 >>   \* "fin"

(* The records Put, Delete and WriteBatch.Commit append *)
Entries ==
    [type : {TypeNormal}, ukey : UserKeys, seq : SeqNums, value : UserValues]
    \cup [type : {TypeDeleted}, ukey : UserKeys, seq : SeqNums, value : {<< >>}]
    \cup [type : {TypeTxnFinished}, ukey : {TxnFinKey}, seq : SeqNums \ {0}, value : {<< >>}]

RecordOf(e) == [type |-> e.type, key |-> LogRecordKeyWithSeqNum(e.ukey, e.seq),
                value |-> e.value]

RECURSIVE FileOf(_)
FileOf(es) == IF es = << >> THEN << >> ELSE EncodeLogRecord(RecordOf(Head(es))) \o FileOf(Tail(es))

Init == log \in UNION {[1..n -> Entries] : n \in 0..MaxRecords}

Next == UNCHANGED log

Spec == Init /\ [][Next]_log

(***************************************************************************)
(* A crash that keeps any byte prefix of the active file (a write torn by  *)
(* power loss) leaves a log Open can read: the records wholly inside the   *)
(* prefix, then io.EOF, as for a record whose key or value is cut short.   *)
(***************************************************************************)
TornTailIsEndOfLog ==
    LET file == FileOf(log) IN
    \A c \in 0..Len(file) :
        ReadRecords(SubSeq(file, 1, c)) =
            [records |-> [i \in 1..Cardinality({j \in DOMAIN log :
                                Len(FileOf(SubSeq(log, 1, j))) <= c}) |-> RecordOf(log[i])],
             err |-> "nil"]
====
