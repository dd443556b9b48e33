--------------------------- MODULE CrashConsistentKV ---------------------------
(***************************************************************************)
(* What the storage engine promises about the store a restart recovers.    *)
(*                                                                         *)
(* hist is the sequence of store states the log has passed through, one    *)
(* per appended record (hist[1] is the empty store).  A single Put or      *)
(* Delete changes one key; a record of a batch that has not committed      *)
(* changes nothing; a commit applies the client's whole buffered batch at  *)
(* once, and no other write changes the store from the moment the commit  *)
(* begins until it ends (committing).  dur is how much of hist is on       *)
(* stable storage: a crash returns the store to some state of hist no      *)
(* older than hist[dur], and loses the buffered batches of all clients.    *)
(***************************************************************************)
EXTENDS Naturals, Sequences

CONSTANTS Keys, Values, Clients, NoValue, NoOp, NoClient

VARIABLES hist, dur, pending, committing

vars == <<hist, dur, pending, committing>>

Store      == [Keys -> Values \cup {NoValue}]
EmptyStore == [k \in Keys |-> NoValue]
NoBatch    == [k \in Keys |-> NoOp]

(* pending[c][k] is the value a commit gives k (NoValue deletes it) or NoOp *)
Apply(s, batch) == [k \in Keys |-> IF batch[k] = NoOp THEN s[k] ELSE batch[k]]

Init ==
    /\ hist = << EmptyStore >>
    /\ dur = 1
    /\ pending = [c \in Clients |-> NoBatch]
    /\ committing = NoClient

(* Appending one state to the history; the write may also be made durable *)
Record(s) ==
    /\ hist' = Append(hist, s)
    /\ dur' \in dur..Len(hist')

Put(k, v) ==
    /\ committing = NoClient
    /\ Record([hist[Len(hist)] EXCEPT ![k] = v])
    /\ UNCHANGED <<pending, committing>>

Delete(k) ==
    /\ committing = NoClient
    /\ Record([hist[Len(hist)] EXCEPT ![k] = NoValue])
    /\ UNCHANGED <<pending, committing>>

(* A client starts committing its batch; it excludes all other writes *)
Begin(c) ==
    /\ committing = NoClient
    /\ pending[c] # NoBatch
    /\ committing' = c
    /\ UNCHANGED <<hist, dur, pending>>

(* A record of the batch being committed, before its commit marker *)
Reserve ==
    /\ committing # NoClient
    /\ Record(hist[Len(hist)])
    /\ UNCHANGED <<pending, committing>>

(* Buffering a write or delete in a batch, or dropping a buffered one *)
Buffer(c, k) ==
    /\ committing # c
    /\ \E op \in Values \cup {NoValue, NoOp} :
          pending' = [pending EXCEPT ![c][k] = op]
    /\ UNCHANGED <<hist, dur, committing>>

Commit(c) ==
    /\ committing = c
    /\ Record(Apply(hist[Len(hist)], pending[c]))
    /\ pending' = [pending EXCEPT ![c] = NoBatch]
    /\ committing' = NoClient

Sync ==
    /\ dur' \in dur..Len(hist)
    /\ UNCHANGED <<hist, pending, committing>>

Crash ==
    /\ \E i \in dur..Len(hist) :
          /\ hist' = SubSeq(hist, 1, i)
          /\ dur' = i
    /\ pending' = [c \in Clients |-> NoBatch]
    /\ committing' = NoClient

Next ==
    \/ \E k \in Keys, v \in Values : Put(k, v)
    \/ \E k \in Keys : Delete(k)
    \/ Reserve
    \/ \E c \in Clients, k \in Keys : Buffer(c, k)
    \/ \E c \in Clients : Begin(c) \/ Commit(c)
    \/ Sync
    \/ Crash

Spec == Init /\ [][Next]_vars
=============================================================================
