---------------------------- MODULE LogRecordCodec ----------------------------
(***************************************************************************)
(* The byte format of data/log_record.go and the reader of                 *)
(* data/data_file.go, as operators on byte sequences:                      *)
(*                                                                         *)
(*   crc(4, little endian) | type(1) | keySize(varint) | valueSize(varint) *)
(*   | key | value                                                         *)
(*                                                                         *)
(* with the CRC-32 (IEEE) of everything after the crc field, and the       *)
(* sequence-number prefix batch.go puts before every key.  A byte is       *)
(* 0..255; the 32-bit CRC register is a pair of 16-bit halves <<hi, lo>>,  *)
(* since TLC's integers stop at 2^31.  Lengths and sequence numbers stay   *)
(* far below 2^31, so the overflow branches of binary.Uvarint never apply. *)
(***************************************************************************)
EXTENDS Integers, Sequences, Bitwise

(* data.LogRecordType bytes: Normal, Deleted, TxnFinished *)
TypeNormal      == 0
TypeDeleted     == 1
TypeTxnFinished == 2

MaxVarintLen32 == 5

(* maxLogRecordHeaderSize = binary.MaxVarintLen32*2 + 5 *)
MaxLogRecordHeaderSize == MaxVarintLen32 * 2 + 5

-----------------------------------------------------------------------------
(* encoding/binary: unsigned varints, seven bits per byte, low first *)
RECURSIVE PutUvarint(_)
PutUvarint(x) ==
    IF x < 128 THEN << x >> ELSE << (x % 128) + 128 >> \o PutUvarint(x \div 128)

(* mutant: the length written without the zig-zag step *)
PutVarintNoZigZag(x) == PutUvarint(x)

(* binary.PutVarint: zig-zag, then unsigned *)
PutVarint(x) == PutUvarint(IF x >= 0 THEN 2 * x ELSE -2 * x - 1)

(* binary.Uvarint: [val, n]; n = 0 when the buffer ends inside the varint *)
RECURSIVE UvarintFrom(_, _, _, _)
UvarintFrom(buf, i, x, s) ==
    IF i > Len(buf) THEN [val |-> 0, n |-> 0]
    ELSE IF buf[i] < 128 THEN [val |-> x + buf[i] * 2^s, n |-> i]
    ELSE UvarintFrom(buf, i + 1, x + (buf[i] - 128) * 2^s, s + 7)

Uvarint(buf) == UvarintFrom(buf, 1, 0, 0)

(* binary.Varint: x = ux >> 1, complemented when ux is odd *)
Varint(buf) ==
    LET u == Uvarint(buf) IN
    [val |-> IF u.val % 2 = 1 THEN -(u.val \div 2) - 1 ELSE u.val \div 2, n |-> u.n]

-----------------------------------------------------------------------------
(* hash/crc32, IEEE polynomial 0xEDB88320 (reflected) *)
PolyHi == 60856   \* 0xEDB8
PolyLo == 33568   \* 0x8320

Zero32 == << 0, 0 >>

(* One bit of the polynomial division: shift right, xor the polynomial out *)
CrcShift(c) ==
    LET hi == c[1] \div 2
        lo == c[2] \div 2 + (c[1] % 2) * 32768
    IN  IF c[2] % 2 = 1 THEN << hi ^^ PolyHi, lo ^^ PolyLo >> ELSE << hi, lo >>

RECURSIVE CrcShifts(_, _)
CrcShifts(c, n) == IF n = 0 THEN c ELSE CrcShifts(CrcShift(c), n - 1)

(* crc32.IEEETable (simpleMakeTable): eight shifts of each byte *)
IEEETable == [i \in 0..255 |-> CrcShifts(<< 0, i >>, 8)]

(* simpleUpdate: crc = tab[byte(crc) ^ v] ^ (crc >> 8), byte by byte *)
RECURSIVE CrcRaw(_, _)
CrcRaw(c, p) ==
    IF p = << >> THEN c
    ELSE LET t == IEEETable[(c[2] % 256) ^^ Head(p)]
         IN  CrcRaw(<< t[1] ^^ (c[1] \div 256),
                       t[2] ^^ ((c[2] \div 256) + (c[1] % 256) * 256) >>, Tail(p))

Not32(c) == << 65535 - c[1], 65535 - c[2] >>

(* crc32.Update(crc, IEEETable, p); ChecksumIEEE(p) is Update(0, p) *)
CrcUpdate(crc, p) == Not32(CrcRaw(Not32(crc), p))
ChecksumIEEE(p)   == CrcUpdate(Zero32, p)

(* binary.LittleEndian.PutUint32 and Uint32 *)
PutUint32(c) == << c[2] % 256, c[2] \div 256, c[1] % 256, c[1] \div 256 >>
Uint32(b)    == << b[3] + 256 * b[4], b[1] + 256 * b[2] >>

-----------------------------------------------------------------------------
(* EncodeLogRecord: header with the two lengths, key, value, then the crc *)
EncodeLogRecord(lr) ==
    LET body == << lr.type >> \o PutVarint(Len(lr.key)) \o PutVarint(Len(lr.value))
                \o lr.key \o lr.value
    IN  PutUint32(ChecksumIEEE(body)) \o body

(* the nil header: every decoded header has size >= 5 *)
NoHeader == [crc |-> Zero32, recordType |-> 0, keySize |-> 0, valueSize |-> 0, size |-> 0]

(* decodeLogRecordHeader: nil for 4 bytes or fewer; a varint cut short reads
   as 0.  uint32() of a size: the sizes of a prefix of an encoded file are
   small and non-negative, which uint32 leaves as they are *)
DecodeLogRecordHeader(b) ==
    IF Len(b) <= 4 THEN NoHeader
    ELSE LET ks == Varint(SubSeq(b, 6, Len(b)))
             vs == Varint(SubSeq(b, 6 + ks.n, Len(b)))
         IN  [crc |-> Uint32(b), recordType |-> b[5],
              keySize |-> ks.val, valueSize |-> vs.val,
              size |-> 5 + ks.n + vs.n]

(* getLogRecordCRC: the header bytes after the crc, then key, then value *)
GetLogRecordCRC(lr, header) ==
    CrcUpdate(CrcUpdate(ChecksumIEEE(header), lr.key), lr.value)

ErrEOF        == "EOF"
ErrInvalidCRC == "ErrInvalidCRC"

EmptyRecord == [type |-> TypeNormal, key |-> << >>, value |-> << >>]

(* the (record, size, err) triple the reader returns *)
Failed(err) == [record |-> EmptyRecord, size |-> 0, err |-> err]

(***************************************************************************)
(* DataFile.ReadLogRecordWithSize on a file of bytes (offsets from 0).     *)
(* readNBytes goes to File.ReadAt, which fails with io.EOF when fewer than *)
(* n bytes remain.  The result is a record with its size, or an error.     *)
(***************************************************************************)
ReadLogRecordWithSize(file, offset) ==
    LET headerBytes == IF offset + MaxLogRecordHeaderSize > Len(file)
                       THEN Len(file) - offset ELSE MaxLogRecordHeaderSize
        headerBuf   == SubSeq(file, offset + 1, offset + headerBytes)
        header      == DecodeLogRecordHeader(headerBuf)
        kvSize      == header.keySize + header.valueSize
        kvBuf       == SubSeq(file, offset + header.size + 1, offset + header.size + kvSize)
        record      == IF kvSize > 0
                       THEN [type |-> header.recordType,
                             key |-> SubSeq(kvBuf, 1, header.keySize),
                             value |-> SubSeq(kvBuf, header.keySize + 1, kvSize)]
                       ELSE EmptyRecord
    IN  IF header.size = 0 THEN Failed(ErrEOF)
        ELSE IF header.crc = Zero32 /\ kvSize = 0 THEN Failed(ErrEOF)
        ELSE IF kvSize > 0 /\ offset + header.size + kvSize > Len(file) THEN Failed(ErrEOF)
        ELSE IF GetLogRecordCRC(record, SubSeq(headerBuf, 5, header.size)) # header.crc
             THEN Failed(ErrInvalidCRC)
        ELSE [record |-> record, size |-> header.size + kvSize, err |-> "nil"]

(***************************************************************************)
(* The read loop of loadIndexFromDataFiles over one file: records until    *)
(* io.EOF; any other error makes Open return it.                           *)
(***************************************************************************)
RECURSIVE ReadRecordsFrom(_, _, _)
ReadRecordsFrom(file, offset, acc) ==
    LET r == ReadLogRecordWithSize(file, offset) IN
    IF r.err = ErrEOF THEN [records |-> acc, err |-> "nil"]
    ELSE IF r.err # "nil" THEN [records |-> acc, err |-> r.err]
    ELSE ReadRecordsFrom(file, offset + r.size, Append(acc, r.record))

ReadRecords(file) == ReadRecordsFrom(file, 0, << >>)

-----------------------------------------------------------------------------
(* batch.go logRecordKeyWithSeqNum: the uvarint sequence number, then the key *)
LogRecordKeyWithSeqNum(key, seqNum) == PutUvarint(seqNum) \o key

(* parseLogRecordKey: the uvarint prefix off the front *)
ParseLogRecordKey(encKey) ==
    LET u == Uvarint(encKey) IN
    [key |-> SubSeq(encKey, u.n + 1, Len(encKey)), seq |-> u.val]
====
