---------------------------- MODULE BitcaskIterator ----------------------------
(***************************************************************************)
(* iterator.go, index/btree_iterator.go and index/art_iterator.go over    *)
(* the engine of BitcaskDB, and get.go ListKeys and Fold.  Readers are     *)
(* goroutines that only read: each may hold one Iterator and be in one     *)
(* ListKeys call.  The engine runs with the B-tree or the ART index.       *)
(*                                                                         *)
(* BTree.Iterator copies the tree's items, in key order, into a slice      *)
(* under the B-tree's own lock and without db.mu; Rewind, Seek and Next    *)
(* move a cursor over that slice and then skip keys without the prefix;    *)
(* Value reads the record at the copied position.  ListKeys takes db.mu    *)
(* for reading around the copy and db.Size, and fills a slice of that      *)
(* size afterwards.  A read lock is modelled as db.mu held by the reader:  *)
(* readers never change what another reader sees, so excluding them from  *)
(* one another loses no behaviour.                                         *)
(***************************************************************************)
EXTENDS BitcaskDB

CONSTANTS
    Readers,     \* goroutines that iterate or list keys
    KeyOrder,    \* the keys, and other seek targets, in bytes.Compare order
    PrefixKeys,  \* the keys that have the byte prefix of IteratorOptions.Prefix
    NoKey        \* no seek target: the cursor was rewound

ASSUME Keys \subseteq Range(KeyOrder) /\ PrefixKeys \subseteq Keys
ASSUME Readers \cap Threads = {}

VARIABLES
    iters,         \* iters[r]: reader r's Iterator, or a closed one
    iterRef,       \* history: the store the snapshot showed, and the cursor's moves
    listing,       \* listing[r]: ListKeys's iterator length, between RLock and db.Size
    listPanicked,  \* history: some ListKeys has panicked
    indexType      \* options.IndexType the engine was opened with

readerVars == <<iters, iterRef, listing>>
iterVars   == <<vars, readerVars, listPanicked, indexType>>

NoListing == -1

SeekTargets == Range(KeyOrder)

Rank(k) == CHOOSE i \in DOMAIN KeyOrder : KeyOrder[i] = k

(* index.go Item.Less: bytes.Compare(i.key, bi.key) == -1 *)
KeyLess(a, b) == Rank(a) < Rank(b)

ClosedIter == [open |-> FALSE, values |-> << >>, cur |-> 1,
               reverse |-> FALSE, prefix |-> FALSE]

(***************************************************************************)
(* NewBTreeIterator: the index's items, Ascend or Descend order.           *)
(***************************************************************************)
Snapshot(reverse) ==
    SortSeq(SetToSeq({[key |-> k, pos |-> index[k]] : k \in {k \in Keys : index[k] # NoPos}}),
            LAMBDA a, b : IF reverse THEN KeyLess(b.key, a.key) ELSE KeyLess(a.key, b.key))

(* index.go IndexerType: the two in-memory backends *)
Btree == "Btree"
ART   == "ART"

(***************************************************************************)
(* NewARTIterator: tree.ForEach visits the leaves in key order; with       *)
(* reverse the slice is filled from its last element down.                *)
(***************************************************************************)
(* Mutant: the slice filled from the front whatever reverse says *)
ARTSnapshotNoReverse(reverse) ==
    SortSeq(SetToSeq({[key |-> k, pos |-> index[k]] : k \in {k \in Keys : index[k] # NoPos}}),
            LAMBDA a, b : KeyLess(a.key, b.key))

ARTSnapshot(reverse) ==
    LET asc == SortSeq(SetToSeq({[key |-> k, pos |-> index[k]] : k \in {k \in Keys : index[k] # NoPos}}),
                       LAMBDA a, b : KeyLess(a.key, b.key))
    IN  IF reverse THEN Reverse(asc) ELSE asc

(* BTree.Iterator or AdaptiveRadixTree.Iterator, as options.IndexType chose *)
IndexIterator(reverse) ==
    IF indexType = ART THEN ARTSnapshot(reverse) ELSE Snapshot(reverse)

(***************************************************************************)
(* Iterator.skipToNext: with a prefix, Next until the key has it or the   *)
(* cursor is past the end.  Cursors are 1-based; Len + 1 is !Valid().      *)
(***************************************************************************)
RECURSIVE SkipToNext(_, _, _)
SkipToNext(values, i, prefix) ==
    IF ~prefix \/ i > Len(values) \/ values[i].key \in PrefixKeys THEN i
    ELSE SkipToNext(values, i + 1, prefix)

(* Mutant: Seek without its reverse branch *)
SeekIndexNoReverse(values, reverse, key) ==
    LET hit == {i \in 1..Len(values) : ~KeyLess(values[i].key, key)} IN
    IF hit = {} THEN Len(values) + 1 ELSE Min(hit)

(***************************************************************************)
(* BTreeIterator.Seek: sort.Search for the first key >= key, or <= key     *)
(* when reverse (the values are sorted, so the predicate is monotone).     *)
(***************************************************************************)
SeekIndex(values, reverse, key) ==
    LET hit == {i \in 1..Len(values) :
                   IF reverse THEN ~KeyLess(key, values[i].key)
                   ELSE ~KeyLess(values[i].key, key)} IN
    IF hit = {} THEN Len(values) + 1 ELSE Min(hit)

Valid(r)    == iters[r].cur <= Len(iters[r].values)
IterKey(r)  == iters[r].values[iters[r].cur].key

(* Iterator.Value: the record at the copied position, read under db.mu.RLock *)
IterValue(r) == GetValueByPosition(iters[r].values[iters[r].cur].pos)

(* What Get would return for every key at this moment *)
VisibleStore == [k \in Keys |-> IF index[k] = NoPos THEN NoValue
                                ELSE GetValueByPosition(index[k])]

(* The reference of a reader with no iterator *)
NoRef == [store |-> [k \in Keys |-> NoValue], from |-> NoKey, steps |-> 0]

IterInit ==
    /\ Init
    /\ iters = [r \in Readers |-> ClosedIter]
    /\ iterRef = [r \in Readers |-> NoRef]
    /\ listing = [r \in Readers |-> NoListing]
    /\ listPanicked = FALSE
    /\ indexType \in {Btree, ART}

-----------------------------------------------------------------------------
(* db.NewIterator: the index snapshot; with a prefix, skipToNext at once *)
NewIterator(r, reverse, prefix) ==
    LET values == IndexIterator(reverse) IN
    /\ ~broken
    /\ ~iters[r].open
    /\ iters' = [iters EXCEPT ![r] = [open |-> TRUE, values |-> values,
                    cur |-> SkipToNext(values, 1, prefix),
                    reverse |-> reverse, prefix |-> prefix]]
    /\ iterRef' = [iterRef EXCEPT ![r] = [store |-> VisibleStore, from |-> NoKey, steps |-> 0]]
    /\ UNCHANGED <<vars, listing, listPanicked, indexType>>

Rewind(r) ==
    /\ iters[r].open
    /\ iters' = [iters EXCEPT ![r].cur = SkipToNext(iters[r].values, 1, iters[r].prefix)]
    /\ iterRef' = [iterRef EXCEPT ![r].from = NoKey, ![r].steps = 0]
    /\ UNCHANGED <<vars, listing, listPanicked, indexType>>

Seek(r, key) ==
    LET it == iters[r] IN
    /\ it.open
    /\ iters' = [iters EXCEPT ![r].cur =
                    SkipToNext(it.values, SeekIndex(it.values, it.reverse, key), it.prefix)]
    /\ iterRef' = [iterRef EXCEPT ![r].from = key, ![r].steps = 0]
    /\ UNCHANGED <<vars, listing, listPanicked, indexType>>

(* Next, as a caller's loop uses it: while Valid() *)
IterNext(r) ==
    /\ iters[r].open
    /\ Valid(r)
    /\ iters' = [iters EXCEPT ![r].cur = SkipToNext(iters[r].values, @ + 1, iters[r].prefix)]
    /\ iterRef' = [iterRef EXCEPT ![r].steps = @ + 1]
    /\ UNCHANGED <<vars, listing, listPanicked, indexType>>

(* Mutant: Close that keeps the copied items *)
CloseKeepValues(r) ==
    /\ iters[r].open
    /\ iters' = [iters EXCEPT ![r].open = FALSE]
    /\ iterRef' = [iterRef EXCEPT ![r] = NoRef]
    /\ UNCHANGED <<vars, listing, listPanicked, indexType>>

(* Iterator.Close: BTreeIterator.Close drops the copied items *)
Close(r) ==
    /\ iters[r].open
    /\ iters' = [iters EXCEPT ![r] = ClosedIter]
    /\ iterRef' = [iterRef EXCEPT ![r] = NoRef]
    /\ UNCHANGED <<vars, listing, listPanicked, indexType>>

(***************************************************************************)
(* get.go ListKeys: under db.mu.RLock, the index iterator is made and      *)
(* db.Size read; both go to the B-tree without db.mu, so the index         *)
(* updates of Put, Delete (which run after db.mu is released) land between *)
(* them.  After RUnlock, keys := make([][]byte, size) is filled from the   *)
(* iterator: with fewer items than size the tail is nil keys, with more    *)
(* keys[i] is out of range and the goroutine panics, which ends the        *)
(* process.                                                                *)
(***************************************************************************)
ListKeysBegin(r) ==
    /\ ~broken
    /\ listing[r] = NoListing
    /\ mu = None
    /\ mu' = r
    /\ listing' = [listing EXCEPT ![r] = Len(IndexIterator(FALSE))]
    /\ UNCHANGED <<files, durable, active, ioType, bytesWrite, index, seqNum, reclaimSize,
                   pc, tkey, tpos, torder, tposs, pending, broken,
                   iters, iterRef, listPanicked, indexType>>

ListKeysReturn(r) ==
    /\ listing[r] # NoListing
    /\ listing[r] <= KeyCount
    /\ mu' = None
    /\ listing' = [listing EXCEPT ![r] = NoListing]
    /\ UNCHANGED <<files, durable, active, ioType, bytesWrite, index, seqNum, reclaimSize,
                   pc, tkey, tpos, torder, tposs, pending, broken,
                   iters, iterRef, listPanicked, indexType>>

(***************************************************************************)
(* get.go Fold: under db.mu.RLock, the index's ascending iterator, and for *)
(* each item GetValueByPosition and then fn(key, value); fn returning      *)
(* false ends the loop, so a Fold visits a prefix of FoldVisit.  Fold      *)
(* changes nothing: while it holds the read lock the appends of writers    *)
(* wait for db.mu, so the files it reads stay as they are, and the index   *)
(* is copied when it starts.  What it returns is therefore a function of   *)
(* the state in which it takes the lock, and it is modelled as such.       *)
(***************************************************************************)
(* Mutant: Fold without db.mu.RLock *)
FoldCanRunNoLock == ~broken

FoldCanRun == ~broken /\ mu = None

FoldVisit ==
    LET values == IndexIterator(FALSE) IN
    [i \in DOMAIN values |-> [key |-> values[i].key,
                              val |-> GetValueByPosition(values[i].pos)]]

(* Readers hold nothing that outlives the process *)
ReadersRestart ==
    /\ iters' = [r \in Readers |-> ClosedIter]
    /\ iterRef' = [r \in Readers |-> NoRef]
    /\ listing' = [r \in Readers |-> NoListing]

(* keys[i] = iterator.Key() past the end of keys: the process dies and restarts *)
ListKeysPanic(r) ==
    /\ listing[r] # NoListing
    /\ listing[r] > KeyCount
    /\ \E fs \in SurvivingFiles : Open(fs)
    /\ ReadersRestart
    /\ listPanicked' = TRUE
    /\ UNCHANGED indexType

ReaderNext(r) ==
    \/ \E reverse, prefix \in BOOLEAN : NewIterator(r, reverse, prefix)
    \/ Rewind(r)
    \/ \E key \in SeekTargets : Seek(r, key)
    \/ IterNext(r)
    \/ Close(r)
    \/ ListKeysBegin(r)
    \/ ListKeysReturn(r)
    \/ ListKeysPanic(r)

IterSpecNext ==
    \/ ClientNext /\ UNCHANGED <<readerVars, listPanicked, indexType>>
    \/ \E r \in Readers : ReaderNext(r)
    \/ (Crash \/ CloseAndReopen) /\ ReadersRestart /\ UNCHANGED <<listPanicked, indexType>>
    \/ ReopenPanics /\ UNCHANGED <<readerVars, listPanicked, indexType>>

IterSpec == IterInit /\ [][IterSpecNext]_iterVars

-----------------------------------------------------------------------------
(* Properties *)

IteratorTypeOK ==
    /\ EngineTypeOK({Idle, "PutIndex", "DeleteAppend", "DeleteIndex", "CommitWrite",
                     "CommitIndex"}, Threads \cup Readers)
    /\ \A r \in Readers :
          /\ iters[r].values \in Seq([key : Keys, pos : Positions])
          /\ iters[r].cur \in 1..Len(iters[r].values) + 1
          /\ ~iters[r].open => iters[r] = ClosedIter
          /\ iterRef[r].from \in SeekTargets \cup {NoKey}
          /\ listing[r] \in {NoListing} \cup 0..Cardinality(Keys)
    /\ listPanicked \in BOOLEAN
    /\ indexType \in {Btree, ART}

(***************************************************************************)
(* The keys an iterator yields, from its last Rewind or Seek: those the    *)
(* store held when the iterator was made, at or after the seek target in   *)
(* the iteration direction, with the prefix, each once and in order.      *)
(***************************************************************************)
ExpectedKeys(r) ==
    LET ref  == iterRef[r]
        it   == iters[r]
        Ahead(a, b) == IF it.reverse THEN KeyLess(b, a) ELSE KeyLess(a, b)
        keys == {k \in Keys :
                    /\ ref.store[k] # NoValue
                    /\ ref.from # NoKey => ~Ahead(k, ref.from)
                    /\ it.prefix => k \in PrefixKeys}
    IN  SortSeq(SetToSeq(keys), Ahead)

(***************************************************************************)
(* An iterator follows its snapshot whatever the writers do meanwhile:     *)
(* after a Rewind or Seek and n calls of Next, Valid() holds iff the       *)
(* reference has an n+1-th key, Key() is that key, and Value() is the      *)
(* value the key had when NewIterator ran, although the record is read     *)
(* from the data files only now.                                           *)
(***************************************************************************)
IteratorFollowsReference ==
    \A r \in Readers : iters[r].open =>
        LET ex == ExpectedKeys(r) IN
        IF iterRef[r].steps < Len(ex)
        THEN /\ Valid(r)
             /\ IterKey(r) = ex[iterRef[r].steps + 1]
             /\ IterValue(r) = iterRef[r].store[IterKey(r)]
        ELSE ~Valid(r)

(***************************************************************************)
(* ListKeys never panics: the index the iterator copied and the count      *)
(* db.Size returns right after agree.                                      *)
(***************************************************************************)
ListKeysNeverPanics == ~listPanicked
====
