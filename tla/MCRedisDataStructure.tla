------------------------- MODULE MCRedisDataStructure -------------------------
(***************************************************************************)
(* The Redis layer checked against RedisStore.  AbsRdb reads the typed     *)
(* value of every user key out of the key space the way the layer's       *)
(* readers do: a string from its record, a container's members from the    *)
(* internal keys of its current version, a list from the indexes head ..  *)
(* tail - 1.  Keys of older versions are invisible.                       *)
(***************************************************************************)
EXTENDS RedisDataStructure


(* RedisStore's Absent and Present *)
AbsAbsent  == "absent"
AbsPresent == "present"

Image(x) == IF x \in DOMAIN data THEN data[x] ELSE AbsAbsent

AbsMap(k, md) ==
    [m \in Members |->
        CASE md.type = RSet ->
                IF SKey(k, md.version, m) \in DOMAIN data THEN AbsPresent ELSE AbsAbsent
          [] md.type \in {RHash, RZSet} -> Image(MemberKey(md.type, k, md.version, m))
          [] OTHER -> AbsAbsent]

AbsList(k, md) ==
    IF md.type = RList
    THEN [i \in 1..(md.tail - md.head) |-> Image(LKey(k, md.version, md.head + i - 1))]
    ELSE << >>

AbsRdb ==
    [k \in UserKeys |->
        [type   |-> meta[k].type,
         val    |-> IF meta[k].type = RString THEN meta[k].val ELSE AbsAbsent,
         expire |-> meta[k].expire,
         map    |-> AbsMap(k, meta[k]),
         list   |-> AbsList(k, meta[k])]]

Abs == INSTANCE RedisStore WITH rdb <- AbsRdb

(***************************************************************************)
(* Every command of the layer, run as the server runs it (holding rds.mu), *)
(* is the atomic change RedisStore describes, with the same answer: no     *)
(* member of a deleted key or of an older version reappears, a count of 0  *)
(* short-cuts a read only when the container is empty, and a list's head  *)
(* and tail move with its pushes and pops.                                *)
(***************************************************************************)
RedisStoreSpec == Abs!Spec
=============================================================================
