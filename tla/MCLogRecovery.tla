---------------------------- MODULE MCLogRecovery ----------------------------
(***************************************************************************)
(* loadIndexFromDataFiles checked against a declarative reference over     *)
(* every log of two data files of at most MaxDataFileSize records each.    *)
(* The state is just the files; nothing changes after Init.               *)
(***************************************************************************)
EXTENDS LogRecovery, FiniteSets

CONSTANTS k1, k2, v1    \* the model values of Keys and Values

MCKeys   == {k1, k2}
MCValues == {v1}

VARIABLE files

Codec == INSTANCE LogRecordCodec

FileContents == UNION {[1..n -> Records] : n \in 0..MaxDataFileSize}

Init == files \in {(0 :> a) @@ (1 :> b) : a, b \in FileContents}

Next == UNCHANGED files

Spec == Init /\ [][Next]_files

(***************************************************************************)
(* Reference.  A record of sequence 0 takes effect where it stands; a      *)
(* record of a transaction takes effect at the first later TxnFinished     *)
(* marker with its sequence number, and never if there is none.  Writes    *)
(* are ordered by <<where they take effect, where they stand>>.  A key is  *)
(* in the index iff its last write is a Normal record; the replay panics   *)
(* iff some tombstone takes effect when the key's previous write is not a  *)
(* Normal record; the sequence number is the largest in the log.           *)
(***************************************************************************)
Es == LogEntries(files)

IsFin(i) == Es[i].rec.type = LogRecordTxnFinished

EffectiveAt(i) ==
    IF Es[i].rec.seq = NonTransactionSeqNum THEN i
    ELSE LET fins == {j \in (i + 1)..Len(Es) : IsFin(j) /\ Es[j].rec.seq = Es[i].rec.seq}
         IN  IF fins = {} THEN 0 ELSE Min(fins)

Before(i, j) ==
    \/ EffectiveAt(i) < EffectiveAt(j)
    \/ EffectiveAt(i) = EffectiveAt(j) /\ i < j

WritesOf(k) == {i \in 1..Len(Es) : ~IsFin(i) /\ Es[i].rec.key = k /\ EffectiveAt(i) > 0}

LastOf(ws) ==
    IF ws = {} THEN 0 ELSE CHOOSE i \in ws : \A i2 \in ws : i2 = i \/ Before(i2, i)

LastWriteBefore(k, j) == LastOf({i \in WritesOf(k) : Before(i, j)})

LastWrite(k) == LastOf(WritesOf(k))

IsLive(i) == i # 0 /\ Es[i].rec.type = LogRecordNormal

RefIndex == [k \in Keys |-> IF IsLive(LastWrite(k)) THEN Es[LastWrite(k)].pos ELSE NoPos]

RefPanics ==
    \E k \in Keys : \E i \in WritesOf(k) :
        Es[i].rec.type = LogRecordDeleted /\ ~IsLive(LastWriteBefore(k, i))

RefSeqNum == IF Es = << >> THEN 0 ELSE Max({Es[i].rec.seq : i \in 1..Len(Es)})

(* The replay rebuilds the reference index, panics exactly when the        *)
(* reference says a tombstone meets an absent key, and finds the largest   *)
(* sequence number.                                                        *)
ReplayMatchesReference ==
    LET st == LoadIndexFromDataFiles(files) IN
    /\ st.index = RefIndex
    /\ st.panicked = RefPanics
    /\ st.seqNum = RefSeqNum

-----------------------------------------------------------------------------
(***************************************************************************)
(* The same logs as bytes.  LogRecovery keeps a record as its decoded      *)
(* fields; here each record is encoded as EncodeLogRecord writes it: key   *)
(* "k" or "l" (or "fin" for a marker) behind the uvarint sequence number,  *)
(* value "vv" (empty for a tombstone or a marker).  Sequence numbers 0, 1, *)
(* 2 stand for 0, 1, 130, so that one prefix takes two varint bytes; the   *)
(* replay only compares them, and the renaming keeps their order.          *)
(***************************************************************************)
KeyBytes   == (k1 :> << 107 >>) @@ (k2 :> << 108 >>) @@ (TxnFinKey :> << 102, 105, 110 >>)
ValueBytes == (v1 :> << 118, 118 >>) @@ (NoValue :> << >>)
SeqValue   == (0 :> 0) @@ (1 :> 1) @@ (2 :> 130)
TypeByte   == (LogRecordNormal :> Codec!TypeNormal) @@ (LogRecordDeleted :> Codec!TypeDeleted)
              @@ (LogRecordTxnFinished :> Codec!TypeTxnFinished)

Encoded(r) == [type  |-> TypeByte[r.type],
               key   |-> Codec!LogRecordKeyWithSeqNum(KeyBytes[r.key], SeqValue[r.seq]),
               value |-> ValueBytes[r.val]]

FileBytes(f) == FlattenSeq([i \in DOMAIN f |-> Codec!EncodeLogRecord(Encoded(f[i]))])

(* Reading one file's bytes back: ReadLogRecord with its CRC check until  *)
(* io.EOF gives every record, and parseLogRecordKey recovers the key and   *)
(* sequence number.  A file is read on its own, so this is evaluated once  *)
(* per file content.                                                       *)
ReadsBack(f) ==
    LET rd == Codec!ReadRecords(FileBytes(f)) IN
    /\ rd = [records |-> [i \in DOMAIN f |-> Encoded(f[i])], err |-> "nil"]
    /\ \A i \in DOMAIN f :
          Codec!ParseLogRecordKey(rd.records[i].key)
              = [key |-> KeyBytes[f[i].key], seq |-> SeqValue[f[i].seq]]

(* one entry per file content; @@ makes TLC build the table once *)
ReadsBackTable == [f \in FileContents |-> ReadsBack(f)] @@ << >>

(* The record abstraction is sound: the bytes the appends wrote to every   *)
(* data file read back as the records the replay works on.                 *)
LogReadsBack == \A fid \in DOMAIN files : ReadsBackTable[files[fid]]
=============================================================================
