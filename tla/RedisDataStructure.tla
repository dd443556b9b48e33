--------------------------- MODULE RedisDataStructure ---------------------------
(***************************************************************************)
(* The Redis data-structure layer (src/redis, DataStructureType) on one     *)
(* engine key space.  meta[k] is the value under the user key k: a string  *)
(* (type, expire, payload) or the metadata of a container (type, version,  *)
(* size, and for a list head and tail).  data holds the internal keys of   *)
(* the containers: <<kind, key, version, member>> or, for a list,          *)
(* <<"l", key, version, index>>.  The encodings (varints, byte layouts of  *)
(* marshal) are abstracted to these tuples, which are distinct exactly     *)
(* when their parts are.                                                   *)
(*                                                                         *)
(* A command reads the engine (findMetadata and db.Get of internal keys),  *)
(* builds a WriteBatch from what it read, and commits it: two steps, the   *)
(* plan carried in between.  The engine is taken at its promise            *)
(* (CrashConsistentKV, checked for BitcaskDB): a Get sees, and a Commit is, *)
(* one atomic change of the key space.  Commands do not lock rds.mu        *)
(* themselves; the server (redis/cmd/server.go) holds it around every      *)
(* command, which CallerLocks models.                                     *)
(***************************************************************************)
EXTENDS Naturals, Sequences, FiniteSets, TLC

CONSTANTS
    UserKeys, Members, Values, Scores, Clients, TTLs,
    MaxClock,         \* bound of the wall clock and of new versions
    InitialListMark,  \* meta.go initialListMark (MaxUint64 / 2), scaled down
    CallerLocks       \* every command runs holding rds.mu

ASSUME InitialListMark \in Nat \ {0} /\ CallerLocks \in BOOLEAN

VARIABLES meta, data, clock, resp, pc, plan, rdsMu

rdsVars == <<meta, data, clock, resp, pc, plan, rdsMu>>

(* types.go: the DataType byte *)
RString == "string"
RHash   == "hash"
RSet    == "set"
RZSet   == "zset"
RList   == "list"
NoType  == "none"

(* Answers: Nil is (nil, nil), NoScore ZScore's -1 *)
Nil       == "nil"
NotFound  == "ErrKeyNotFound"
WrongType == "ErrWrongTypeOperation"
Yes       == "true"
No        == "false"
NoScore   == "-1"
NoResp    == "noresp"

SetValue == "nil"        \* the value SAdd stores; also a score key's
Tomb     == "tombstone"  \* a batch Delete
NoVal    == "noval"
NoHolder == "noholder"
Idle     == "idle"
Commit   == "commit"

MetaRec(t, e, ver, sz, h, tl, v) ==
    [type |-> t, expire |-> e, version |-> ver, size |-> sz, head |-> h, tail |-> tl, val |-> v]

NoMeta == MetaRec(NoType, 0, 0, 0, 0, 0, NoVal)

(* hash.go, set.go, zset.go, list.go: the internal keys' marshal *)
HKey(k, ver, m)         == <<"h", k, ver, m>>
SKey(k, ver, m)         == <<"s", k, ver, m>>
ZMemberKey(k, ver, m)   == <<"zm", k, ver, m>>
ZScoreKey(k, ver, s, m) == <<"zs", k, ver, s, m>>
LKey(k, ver, i)         == <<"l", k, ver, i>>

NoPlan == [key |-> CHOOSE k \in UserKeys : TRUE, writeMeta |-> FALSE,
           meta |-> NoMeta, data |-> << >>, resp |-> NoResp]

(* WriteBatch Put and Delete; Delete drops the pending write of a key the
   index does not hold (batch.go Delete) *)
WbPut(b, x, v) == (x :> v) @@ b

WbDelete(b, x) ==
    IF x \in DOMAIN data THEN (x :> Tomb) @@ b
    ELSE [y \in DOMAIN b \ {x} |-> b[y]]

(* WriteBatch Commit: the batch replaces or removes its keys at once *)
ApplyBatch(d, b) ==
    LET keep == (DOMAIN d \cup DOMAIN b) \ {x \in DOMAIN b : b[x] = Tomb}
    IN  [x \in keep |-> IF x \in DOMAIN b THEN b[x] ELSE d[x]]

(***************************************************************************)
(* generic.go findMetadata for a command on type t: ErrWrongTypeOperation  *)
(* when k holds another type; the stored metadata when it exists; else a   *)
(* new one whose version is the time now, which the clock read advances.   *)
(* The expiry branch is unreachable: only strings carry an expire, and a   *)
(* string fails the type test first.                                      *)
(***************************************************************************)
MetaWrongType(k, t) == meta[k].type \notin {NoType, t}

FreshMeta(t) ==
    LET mark == IF t = RList THEN InitialListMark ELSE 0
    IN  MetaRec(t, 0, clock + 1, 0, mark, mark, NoVal)

FoundMeta(k, t) == IF meta[k].type = NoType THEN FreshMeta(t) ELSE meta[k]

(* Mutant: the clock read does not move on (a coarse or stepped wall clock) *)
ReadClockNoAdvance(k) ==
    /\ meta[k].type = NoType => clock < MaxClock
    /\ UNCHANGED clock

ReadClock(k) ==
    IF meta[k].type = NoType
    THEN clock < MaxClock /\ clock' = clock + 1
    ELSE UNCHANGED clock

(* A command starts; when it will commit it keeps rds.mu until then *)
Begin(c, commits) ==
    /\ pc[c] = Idle
    /\ CallerLocks => rdsMu = NoHolder
    /\ rdsMu' = IF CallerLocks /\ commits THEN c ELSE rdsMu

(* The batch built from what the command read, to be committed next *)
Stage(c, k, writeMeta, md, b, r) ==
    /\ plan' = [plan EXCEPT ![c] = [key |-> k, writeMeta |-> writeMeta,
                                    meta |-> md, data |-> b, resp |-> r]]
    /\ pc' = [pc EXCEPT ![c] = Commit]
    /\ UNCHANGED <<meta, data, resp>>

(* A command that answers from what it read and writes nothing *)
Reply(c, r) ==
    /\ Begin(c, FALSE)
    /\ resp' = [resp EXCEPT ![c] = r]
    /\ UNCHANGED <<meta, data, clock, pc, plan>>

(* A single engine write (db.Put, db.Delete) of the user key *)
PutMeta(c, k, md) ==
    /\ Begin(c, FALSE)
    /\ meta' = [meta EXCEPT ![k] = md]
    /\ UNCHANGED <<data, clock, resp, pc, plan>>

Init ==
    /\ meta = [k \in UserKeys |-> NoMeta]
    /\ data = << >>
    /\ clock = 0
    /\ resp = [c \in Clients |-> NoResp]
    /\ pc = [c \in Clients |-> Idle]
    /\ plan = [c \in Clients |-> NoPlan]
    /\ rdsMu = NoHolder

-----------------------------------------------------------------------------
(* types.go, generic.go: strings and whole keys *)

Set(c, k, ttl, v) ==
    PutMeta(c, k, MetaRec(RString, IF ttl = 0 THEN 0 ELSE clock + ttl, 0, 0, 0, 0, v))

(* Mutant: a string counts as expired already at its expire time *)
GetExpiredAt(c, k) ==
    LET md      == meta[k]
        expired == md.expire # 0 /\ clock >= md.expire
    IN  \/ md.type = NoType /\ Reply(c, NotFound)
        \/ md.type \notin {NoType, RString} /\ Reply(c, WrongType)
        \/ md.type = RString /\ ~expired /\ Reply(c, md.val)
        \/ /\ md.type = RString /\ expired
           /\ Begin(c, TRUE)
           /\ Stage(c, k, TRUE, NoMeta, << >>, NotFound)
           /\ UNCHANGED clock

(* Get: an expired string is deleted (rds.Delete) before ErrKeyNotFound *)
Get(c, k) ==
    LET md      == meta[k]
        expired == md.expire # 0 /\ clock > md.expire
    IN  \/ md.type = NoType /\ Reply(c, NotFound)
        \/ md.type \notin {NoType, RString} /\ Reply(c, WrongType)
        \/ md.type = RString /\ ~expired /\ Reply(c, md.val)
        \/ /\ md.type = RString /\ expired
           /\ Begin(c, TRUE)
           /\ Stage(c, k, TRUE, NoMeta, << >>, NotFound)
           /\ UNCHANGED clock

Delete(c, k) == PutMeta(c, k, NoMeta)

Type(c, k) == Reply(c, IF meta[k].type = NoType THEN NotFound ELSE meta[k].type)

-----------------------------------------------------------------------------
(* hash.go *)

(* Mutant: HSet rewrites the metadata with size + 1 for an existing field *)
HSetCountsOverwrite(c, k, m, v) ==
    /\ ~MetaWrongType(k, RHash)
    /\ LET md == FoundMeta(k, RHash)
       IN  /\ Begin(c, TRUE)
           /\ Stage(c, k, TRUE, [md EXCEPT !.size = @ + 1], WbPut(<< >>, HKey(k, md.version, m), v), NoResp)
           /\ ReadClock(k)

HSet(c, k, m, v) ==
    /\ ~MetaWrongType(k, RHash)
    /\ LET md    == FoundMeta(k, RHash)
           hk    == HKey(k, md.version, m)
           exist == hk \in DOMAIN data
       IN  /\ Begin(c, TRUE)
           /\ Stage(c, k, ~exist, [md EXCEPT !.size = @ + 1], WbPut(<< >>, hk, v), NoResp)
           /\ ReadClock(k)

HGet(c, k, m) ==
    LET md == FoundMeta(k, RHash)
        hk == HKey(k, md.version, m)
    IN  Reply(c, CASE MetaWrongType(k, RHash) -> WrongType
                   [] md.size = 0             -> Nil
                   [] hk \notin DOMAIN data   -> NotFound
                   [] OTHER                   -> data[hk])

HDel(c, k, m) ==
    LET md == meta[k]
        hk == HKey(k, md.version, m)
    IN  /\ md.type = RHash /\ md.size # 0 /\ hk \in DOMAIN data
        /\ Begin(c, TRUE)
        /\ Stage(c, k, TRUE, [md EXCEPT !.size = @ - 1], WbDelete(<< >>, hk), NoResp)
        /\ UNCHANGED clock

-----------------------------------------------------------------------------
(* set.go *)

SAdd(c, k, m) ==
    /\ ~MetaWrongType(k, RSet)
    /\ LET md == FoundMeta(k, RSet)
           sk == SKey(k, md.version, m)
       IN  /\ sk \notin DOMAIN data
           /\ Begin(c, TRUE)
           /\ Stage(c, k, TRUE, [md EXCEPT !.size = @ + 1], WbPut(<< >>, sk, SetValue), NoResp)
           /\ ReadClock(k)

SIsMember(c, k, m) ==
    LET md == FoundMeta(k, RSet) IN
    Reply(c, CASE MetaWrongType(k, RSet)                  -> WrongType
               [] md.size = 0                             -> No
               [] SKey(k, md.version, m) \in DOMAIN data  -> Yes
               [] OTHER                                   -> No)

SRem(c, k, m) ==
    LET md == meta[k]
        sk == SKey(k, md.version, m)
    IN  /\ md.type = RSet /\ md.size # 0 /\ sk \in DOMAIN data
        /\ Begin(c, TRUE)
        /\ Stage(c, k, TRUE, [md EXCEPT !.size = @ - 1], WbDelete(<< >>, sk), NoResp)
        /\ UNCHANGED clock

-----------------------------------------------------------------------------
(* zset.go: the member key holds the score; the score key orders members *)

(* Mutant: ZAdd of an existing member leaves its old score key *)
ZAddKeepOldScore(c, k, s, m) ==
    /\ ~MetaWrongType(k, RZSet)
    /\ LET md    == FoundMeta(k, RZSet)
           mk    == ZMemberKey(k, md.version, m)
           exist == mk \in DOMAIN data
       IN  /\ ~(exist /\ data[mk] = s)
           /\ Begin(c, TRUE)
           /\ Stage(c, k, ~exist, [md EXCEPT !.size = @ + 1],
                    WbPut(WbPut(<< >>, ZScoreKey(k, md.version, s, m), SetValue), mk, s), NoResp)
           /\ ReadClock(k)

ZAdd(c, k, s, m) ==
    /\ ~MetaWrongType(k, RZSet)
    /\ LET md    == FoundMeta(k, RZSet)
           mk    == ZMemberKey(k, md.version, m)
           exist == mk \in DOMAIN data
           old   == IF exist
                    THEN WbDelete(WbDelete(<< >>, mk), ZScoreKey(k, md.version, data[mk], m))
                    ELSE << >>
       IN  /\ ~(exist /\ data[mk] = s)
           /\ Begin(c, TRUE)
           /\ Stage(c, k, ~exist, [md EXCEPT !.size = @ + 1],
                    WbPut(WbPut(old, ZScoreKey(k, md.version, s, m), SetValue), mk, s), NoResp)
           /\ ReadClock(k)

ZScore(c, k, m) ==
    LET md == FoundMeta(k, RZSet)
        mk == ZMemberKey(k, md.version, m)
    IN  Reply(c, CASE MetaWrongType(k, RZSet) -> WrongType
                   [] md.size = 0             -> NoScore
                   [] mk \notin DOMAIN data   -> NotFound
                   [] OTHER                   -> data[mk])
-----------------------------------------------------------------------------
(***************************************************************************)
(* list.go pushInner and popInner: the elements sit at indexes head ..     *)
(* tail - 1 of the list's version.  The indexes are uint64 around          *)
(* initialListMark, where no run of pushes reaches 0 or 2^64; the model    *)
(* keeps them inside 0 .. 2 * InitialListMark (ListIndexBound).           *)
(***************************************************************************)
ListIndexBound(md, left) ==
    IF left THEN md.head > 0 ELSE md.tail < 2 * InitialListMark

Push(c, k, v, left) ==
    /\ ~MetaWrongType(k, RList)
    /\ LET md  == FoundMeta(k, RList)
           idx == IF left THEN md.head - 1 ELSE md.tail
       IN  /\ ListIndexBound(md, left)
           /\ Begin(c, TRUE)
           /\ Stage(c, k, TRUE,
                    [md EXCEPT !.size = @ + 1,
                               !.head = IF left THEN @ - 1 ELSE @,
                               !.tail = IF left THEN @ ELSE @ + 1],
                    WbPut(<< >>, LKey(k, md.version, idx), v), NoResp)
           /\ ReadClock(k)

(* The element is answered after the commit; a missing element is the
   error of db.Get *)
(* popInner's new metadata: one element fewer, taken from the head or the tail *)
(* Mutant: RPop moves the tail up, as pushInner does *)
PopMetaTailSwapped(md, left) ==
    [md EXCEPT !.size = @ - 1,
               !.head = IF left THEN @ + 1 ELSE @,
               !.tail = IF left THEN @ ELSE @ + 1]

PopMeta(md, left) ==
    [md EXCEPT !.size = @ - 1,
               !.head = IF left THEN @ + 1 ELSE @,
               !.tail = IF left THEN @ ELSE @ - 1]

Pop(c, k, left) ==
    LET md  == FoundMeta(k, RList)
        lk  == LKey(k, md.version, IF left THEN md.head ELSE md.tail - 1)
    IN  \/ MetaWrongType(k, RList) /\ Reply(c, WrongType)
        \/ /\ ~MetaWrongType(k, RList)
           /\ md.size = 0 \/ lk \notin DOMAIN data
           /\ Reply(c, NotFound)
        \/ /\ ~MetaWrongType(k, RList) /\ md.size # 0 /\ lk \in DOMAIN data
           /\ Begin(c, TRUE)
           /\ Stage(c, k, TRUE, PopMeta(md, left), WbDelete(<< >>, lk), data[lk])
           /\ UNCHANGED clock

-----------------------------------------------------------------------------
(* wb.Commit of the staged batch (or rds.Delete of an expired string);
   the command returns and rds.mu is released *)
CommitPlan(c) ==
    /\ pc[c] = Commit
    /\ LET p == plan[c] IN
       /\ meta' = IF p.writeMeta THEN [meta EXCEPT ![p.key] = p.meta] ELSE meta
       /\ data' = ApplyBatch(data, p.data)
       /\ resp' = IF p.resp = NoResp THEN resp ELSE [resp EXCEPT ![c] = p.resp]
    /\ pc' = [pc EXCEPT ![c] = Idle]
    /\ plan' = [plan EXCEPT ![c] = NoPlan]
    /\ rdsMu' = IF CallerLocks THEN NoHolder ELSE rdsMu
    /\ UNCHANGED clock

(* Time passes *)
Tick ==
    /\ clock < MaxClock
    /\ clock' = clock + 1
    /\ UNCHANGED <<meta, data, resp, pc, plan, rdsMu>>

Next ==
    \/ \E c \in Clients, k \in UserKeys :
          \/ \E ttl \in TTLs, v \in Values : Set(c, k, ttl, v)
          \/ Get(c, k) \/ Delete(c, k) \/ Type(c, k)
          \/ \E m \in Members :
                \/ \E v \in Values : HSet(c, k, m, v)
                \/ HGet(c, k, m) \/ HDel(c, k, m)
                \/ SAdd(c, k, m) \/ SIsMember(c, k, m) \/ SRem(c, k, m)
                \/ \E s \in Scores : ZAdd(c, k, s, m)
                \/ ZScore(c, k, m)
          \/ \E left \in BOOLEAN :
                \/ \E v \in Values : Push(c, k, v, left)
                \/ Pop(c, k, left)
    \/ \E c \in Clients : CommitPlan(c)
    \/ Tick

RDSSpec == Init /\ [][Next]_rdsVars

-----------------------------------------------------------------------------
(* Properties *)

MemberKey(t, k, ver, m) ==
    CASE t = RHash -> HKey(k, ver, m)
      [] t = RSet  -> SKey(k, ver, m)
      [] OTHER     -> ZMemberKey(k, ver, m)

(* Every variable has its type; a list's head and tail stay inside the     *)
(* indexes the pushes reach, which popInner's moves of them must respect.  *)
RDSTypeOK ==
    /\ meta \in [UserKeys -> [type : {NoType, RString, RHash, RSet, RZSet, RList},
                              expire : Nat, version : 0..MaxClock,
                              size : 0..(2 * InitialListMark), head : 0..(2 * InitialListMark),
                              tail : 0..(2 * InitialListMark), val : Values \cup {NoVal}]]
    /\ clock \in 0..MaxClock
    /\ pc \in [Clients -> {Idle, Commit}]
    /\ rdsMu \in Clients \cup {NoHolder}
(***************************************************************************)
(* The size in every container's metadata is the number of its members    *)
(* under its current version, and a list's elements fill head .. tail-1.  *)
(* HSet, SAdd and ZAdd decide from a db.Get of the member whether to count *)
(* it, HDel, SRem and the pops uncount it, and a new version after Delete  *)
(* must start from an empty container: every command of every type, in    *)
(* any order, must keep the count that HGet, SIsMember, ZScore and the     *)
(* pops trust when they answer from size 0.                               *)
(***************************************************************************)
MetaSizeIsCount ==
    \A k \in UserKeys :
        LET md == meta[k] IN
        /\ md.type \in {RHash, RSet, RZSet} =>
              md.size = Cardinality({m \in Members : MemberKey(md.type, k, md.version, m) \in DOMAIN data})
        /\ md.type = RList =>
              /\ md.size = md.tail - md.head
              /\ \A i \in md.head..(md.tail - 1) : LKey(k, md.version, i) \in DOMAIN data

(***************************************************************************)
(* A sorted set's two indexes agree: the score key <<k, version, s, m>>    *)
(* exists exactly when member m's key holds score s.  ZAdd of a member     *)
(* that already has another score must delete the old score key in the    *)
(* same batch that writes the new one.                                    *)
(***************************************************************************)
ZSetIndexesAgree ==
    \A k \in UserKeys : meta[k].type = RZSet =>
        LET ver == meta[k].version IN
        \A m \in Members, s \in Scores :
            ZScoreKey(k, ver, s, m) \in DOMAIN data
                <=> ZMemberKey(k, ver, m) \in DOMAIN data /\ data[ZMemberKey(k, ver, m)] = s
=============================================================================
