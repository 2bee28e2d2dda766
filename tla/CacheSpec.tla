----------------------------- MODULE CacheSpec -----------------------------
(***************************************************************************)
(* What a shard promises to its callers, without blocks, pages, counters   *)
(* and indices: a map from keys to payloads of limited total size, whose   *)
(* entries have a time at which they expire and may go at any time.  Each  *)
(* call is one step, and `reply' is its answer.  ShardStore implements it, *)
(* and Shard with any number of threads, if sizes are aligned to pages.    *)
(***************************************************************************)
EXTENDS Naturals, FiniteSets

CONSTANTS
    Keys, Payloads,
    PayloadLen,     \* [Payloads -> the number of bytes to store]
    BufLens,        \* the buffer lengths of get
    Size,           \* the bytes that all entries together may have
    Lifetime,
    Epoch           \* the time of the beginning

VARIABLES
    entry,  \* [Keys -> NoEntry, Blocked, or a payload and an expiration time]
    now,
    reply   \* the answer to the latest call

cacheVars == <<entry, now, reply>>

(* A key is Blocked when it was to be expired but had no entry: sets find  *)
(* it existing, and no get of it is answered, until a forced set of it.    *)
NoEntry == [is |-> "none"]
Blocked == [is |-> "blocked"]
EntryOf(v, expire) == [is |-> "entry", val |-> v, expire |-> expire]

Present(k) == entry[k].is = "entry"
Length(k) == PayloadLen[entry[k].val]
Bytes == UNION {{k} \X (1..Length(k)) : k \in {l \in Keys : Present(l)}}
Fits(v) == Cardinality(Bytes) + PayloadLen[v] <= Size

Answer(k, err) == reply' = [key |-> k, err |-> err, data |-> <<>>, spill |-> FALSE]

CacheInit ==
    /\ entry = [k \in Keys |-> NoEntry]
    /\ now = Epoch
    /\ \E k \in Keys : reply = [key |-> k, err |-> "OK", data |-> <<>>, spill |-> FALSE]

(* A payload is stored exactly if it has a byte, if the key has no entry   *)
(* (a forced set takes it away before), and if it fits.                    *)
Store(k, v) ==
    /\ Answer(k, "OK")
    /\ PayloadLen[v] > 0 /\ ~Present(k)
    /\ entry' = [entry EXCEPT ![k] = EntryOf(v, now + Lifetime)]
    /\ Fits(v)
    /\ UNCHANGED now

Refuse(k, v) ==
    /\ \/ Answer(k, "BUF_LEN_LOW") /\ PayloadLen[v] = 0
       \/ Answer(k, "KEY_EXISTS") /\ PayloadLen[v] > 0 /\ entry[k] # NoEntry
       \/ Answer(k, "NO_SPACE") /\ PayloadLen[v] > 0 /\ ~Present(k) /\ ~Fits(v)
    /\ UNCHANGED <<entry, now>>

(* What get copies out, in segments: as many bytes as were stored, each a  *)
(* byte of that payload, or one that was never written.  (Their order, and *)
(* that none is missing among them, is not promised.)                      *)
Copied(data, v) ==
    LET places == {p \in (DOMAIN data) \X (1..PayloadLen[v]) : p[2] \in DOMAIN data[p[1]]}
    IN  /\ Cardinality(places) = PayloadLen[v]
        /\ \A i \in DOMAIN data : \A j \in DOMAIN data[i] :
              \/ data[i][j] \in {<<v, m>> : m \in 0..(PayloadLen[v] - 1)}
              \/ data[i][j] \in {<<"junk">>, <<"zero">>}

Hit(k, len) ==
    /\ Present(k) /\ entry[k].expire >= now /\ Length(k) <= len
    /\ reply' = [key |-> k, err |-> "OK", data |-> reply'.data, spill |-> Length(k) = len]
    /\ Copied(reply'.data, entry[k].val)
    /\ UNCHANGED <<entry, now>>

Miss(k, len) ==
    /\ \/ Answer(k, "KEY_NOT_FOUND") /\ entry[k] = NoEntry
       \/ Answer(k, "KEY_EXPIRED") /\ Present(k) /\ entry[k].expire < now
       \/ /\ Answer(k, "BUF_LEN_LOW")
          /\ Present(k) /\ entry[k].expire >= now /\ Length(k) > len
    /\ UNCHANGED <<entry, now>>

Evict(k) ==
    /\ \/ /\ Answer(k, "OK") /\ Present(k)
          /\ entry' = [entry EXCEPT ![k] = NoEntry]
       \/ Answer(k, "KEY_NOT_FOUND") /\ ~Present(k) /\ UNCHANGED entry
    /\ UNCHANGED now

(* The expiration takes an entry away, early at times, or blocks the key.  *)
Expire(k) ==
    /\ entry' = [entry EXCEPT ![k] = IF Present(k) THEN NoEntry ELSE Blocked]
    /\ UNCHANGED <<now, reply>>

Tick == now' = now + 1 /\ UNCHANGED <<entry, reply>>

CacheNext ==
    \/ \E k \in Keys, v \in Payloads : Store(k, v) \/ Refuse(k, v)
    \/ \E k \in Keys, len \in BufLens : Hit(k, len) \/ Miss(k, len)
    \/ \E k \in Keys : Evict(k) \/ Expire(k)
    \/ Tick

CacheSpec == CacheInit /\ [][CacheNext]_cacheVars
=============================================================================
