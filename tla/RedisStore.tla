------------------------------ MODULE RedisStore ------------------------------
(***************************************************************************)
(* What the Redis data-structure layer (src/redis) promises: every user    *)
(* key holds nothing or one typed value, and every command is one atomic   *)
(* change of that value with the answer a caller sees.  A string has a     *)
(* value and an expiry time; a hash, set and sorted set are maps from      *)
(* members (hash fields included) to a value, to Present, or to a score;   *)
(* a list is a sequence.  The promise is the layer's own, not Redis's:     *)
(* a container emptied by HDel, SRem or a pop keeps its type, and an       *)
(* expired string keeps its type until a Get of it removes it.            *)
(*                                                                         *)
(* resp[c] is the answer of client c's last reading command.  clock is     *)
(* the wall clock, which expiry is measured against.                      *)
(***************************************************************************)
EXTENDS Naturals, Sequences

CONSTANTS
    UserKeys,   \* the keys callers name
    Members,    \* hash fields and set, sorted-set members
    Values,     \* string, hash and list payloads
    Scores,     \* sorted-set scores; only compared for equality
    Clients,
    TTLs,       \* the ttl arguments of Set; 0 is no expiry
    MaxClock    \* the clock stops here

VARIABLES rdb, clock, resp

vars == <<rdb, clock, resp>>

RString == "string"
RHash   == "hash"
RSet    == "set"
RZSet   == "zset"
RList   == "list"
NoType  == "none"

Absent  == "absent"    \* a member not in the map
Present == "present"   \* a set member

(* The answers callers tell apart *)
Nil       == "nil"
NotFound  == "ErrKeyNotFound"
WrongType == "ErrWrongTypeOperation"
Yes       == "true"
No        == "false"
NoScore   == "-1"       \* ZScore of an empty sorted set
NoResp    == "noresp"

EmptyMap == [m \in Members |-> Absent]

Entry(t, v, e, mp, l) == [type |-> t, val |-> v, expire |-> e, map |-> mp, list |-> l]

NoEntry == Entry(NoType, Absent, 0, EmptyMap, << >>)

Container(t) == Entry(t, Absent, 0, EmptyMap, << >>)

(* The entry a command of type t works on, or NoEntry on a type mismatch *)
Holds(k, t) == rdb[k].type \in {NoType, t}

Of(k, t) == IF rdb[k].type = NoType THEN Container(t) ELSE rdb[k]

IsEmpty(e) == e.list = << >> /\ \A m \in Members : e.map[m] = Absent

Expired(e) == e.expire # 0 /\ clock > e.expire

Answer(c, r) == resp' = [resp EXCEPT ![c] = r]

Write(k, e) ==
    /\ rdb' = [rdb EXCEPT ![k] = e]
    /\ UNCHANGED <<clock, resp>>

Init ==
    /\ rdb = [k \in UserKeys |-> NoEntry]
    /\ clock = 0
    /\ resp = [c \in Clients |-> NoResp]

Set(k, ttl, v) == Write(k, Entry(RString, v, IF ttl = 0 THEN 0 ELSE clock + ttl, EmptyMap, << >>))

Get(c, k) ==
    LET e == rdb[k] IN
    \/ /\ e.type = NoType
       /\ Answer(c, NotFound) /\ UNCHANGED <<rdb, clock>>
    \/ /\ e.type \notin {NoType, RString}
       /\ Answer(c, WrongType) /\ UNCHANGED <<rdb, clock>>
    \/ /\ e.type = RString /\ ~Expired(e)
       /\ Answer(c, e.val) /\ UNCHANGED <<rdb, clock>>
    \/ /\ e.type = RString /\ Expired(e)
       /\ rdb' = [rdb EXCEPT ![k] = NoEntry]
       /\ Answer(c, NotFound) /\ UNCHANGED clock

Del(k) == Write(k, NoEntry)

Type(c, k) ==
    /\ Answer(c, IF rdb[k].type = NoType THEN NotFound ELSE rdb[k].type)
    /\ UNCHANGED <<rdb, clock>>

(* HSet, SAdd, ZAdd: the member's new image in the map *)
MapPut(k, t, m, x) ==
    /\ Holds(k, t)
    /\ Write(k, [Of(k, t) EXCEPT !.map[m] = x])

MapRem(k, t, m) ==
    /\ rdb[k].type = t
    /\ Write(k, [rdb[k] EXCEPT !.map[m] = Absent])

(* HGet, SIsMember, ZScore: what the member maps to; onEmpty is the answer
   when the key is absent or its map is empty, onMiss when only m is *)
MapGet(c, k, t, m, onEmpty, onMiss, hit) ==
    /\ Answer(c, CASE ~Holds(k, t)           -> WrongType
                   [] IsEmpty(Of(k, t))      -> onEmpty
                   [] rdb[k].map[m] = Absent -> onMiss
                   [] OTHER                  -> hit)
    /\ UNCHANGED <<rdb, clock>>

Push(k, v, left) ==
    /\ Holds(k, RList)
    /\ Write(k, [Of(k, RList) EXCEPT !.list = IF left THEN <<v>> \o @ ELSE Append(@, v)])

Pop(c, k, left) ==
    LET l == Of(k, RList).list IN
    \/ /\ ~Holds(k, RList) /\ Answer(c, WrongType) /\ UNCHANGED <<rdb, clock>>
    \/ /\ Holds(k, RList) /\ l = << >>
       /\ Answer(c, NotFound) /\ UNCHANGED <<rdb, clock>>
    \/ /\ Holds(k, RList) /\ l # << >>
       /\ rdb' = [rdb EXCEPT ![k].list = IF left THEN Tail(l) ELSE SubSeq(l, 1, Len(l) - 1)]
       /\ Answer(c, IF left THEN Head(l) ELSE l[Len(l)]) /\ UNCHANGED clock

Tick ==
    /\ clock < MaxClock
    /\ clock' = clock + 1
    /\ UNCHANGED <<rdb, resp>>

Next ==
    \/ \E k \in UserKeys :
          \/ \E ttl \in TTLs, v \in Values : Set(k, ttl, v)
          \/ Del(k)
          \/ \E m \in Members :
                \/ \E v \in Values : MapPut(k, RHash, m, v)
                \/ MapRem(k, RHash, m)
                \/ MapPut(k, RSet, m, Present)
                \/ MapRem(k, RSet, m)
                \/ \E s \in Scores : MapPut(k, RZSet, m, s)
          \/ \E v \in Values, left \in BOOLEAN : Push(k, v, left)
          \/ \E c \in Clients :
                \/ Get(c, k) \/ Type(c, k)
                \/ \E left \in BOOLEAN : Pop(c, k, left)
                \/ \E m \in Members :
                      \/ MapGet(c, k, RHash, m, Nil, NotFound, rdb[k].map[m])
                      \/ MapGet(c, k, RSet, m, No, No, Yes)
                      \/ MapGet(c, k, RZSet, m, NoScore, NotFound, rdb[k].map[m])
    \/ Tick

Spec == Init /\ [][Next]_vars
=============================================================================
