------------------------------ MODULE HashCache ------------------------------
(***************************************************************************)
(* hash_cache.c: an open-addressing hash table whose rows point into an    *)
(* array of entries, and a block of memory the data is copied to.  The     *)
(* values that are stored are model values with a hash and a length.       *)
(***************************************************************************)
EXTENDS Naturals, Sequences, FiniteSets

CONSTANTS
  Data,         \* what is stored
  hash_of,      \* default_hash_function
  length_of,    \* datalen
  HashSize,     \* hash_size
  MemSize,      \* mem_size
  CountLimit    \* how many values an unsigned int has

ASSUME HashCacheAssumption ==
  /\ hash_of \in [Data -> Nat]
  /\ length_of \in [Data -> Nat]
  /\ HashSize \in Nat \ {0}
  /\ MemSize \in Nat
  /\ \A d \in Data : length_of[d] <= MemSize
  /\ CountLimit \in Nat \ {0, 1}

VARIABLES
  hash,        \* hash[p]: the number of the entry row p points to, or NULL
  entries,     \* the entries in use
  memory_pos,  \* where the free memory begins
  result,      \* what the last hash_cache_add returned
  flushed      \* what the last iteration over the elements saw, in order

vars == <<hash, entries, memory_pos, result, flushed>>

NULL == 0

Rows == 0 .. HashSize - 1

Init ==
  /\ hash = [p \in Rows |-> NULL]
  /\ entries = <<>>
  /\ memory_pos = 0
  /\ result = 1
  /\ flushed = <<>>

-----------------------------------------------------------------------------
\* Mutation: the table is filled beyond the last row.
Full_LastRow(d) ==
  \/ length_of[d] > MemSize - memory_pos
  \/ Len(entries) > HashSize

\* Mutation: the length of the new data is not counted.
Full_MemoryOff(d) ==
  \/ memory_pos >= MemSize
  \/ Len(entries) > HashSize \div 2

Full(d) ==
  \/ length_of[d] > MemSize - memory_pos
  \/ Len(entries) > HashSize \div 2

\* Mutation: the data is not compared.
Stops_AtFree(p, d) == hash[p] = NULL

\* The rows the while loop of hash_cache_add may stop at.
Stops(p, d) == hash[p] # NULL => entries[hash[p]].data = d

\* The rows it goes through, from hash % hash_size on.
Nth(d, k) == (hash_of[d] + k) % HashSize

\* The row it stops at: the first of them that it may stop at.
IsProbe(p, d) ==
  \E k \in Rows : /\ p = Nth(d, k) /\ Stops(p, d)
                  /\ \A j \in 0 .. k - 1 : ~ Stops(Nth(d, j), d)

Refused(d) ==
  /\ Full(d)
  /\ result' = 0
  /\ UNCHANGED <<hash, entries, memory_pos, flushed>>

Entry(d, p) == [data |-> d, memory_pos |-> memory_pos, hash_pos |-> p, count |-> 1]

\* Mutation: the row points behind the new entry.
AddedNew_OffByOne(d) ==
  /\ ~ Full(d)
  /\ \E p \in Rows :
       /\ IsProbe(p, d) /\ hash[p] = NULL
       /\ hash' = [hash EXCEPT ![p] = Len(entries) + 2]
       /\ entries' = Append(entries, Entry(d, p))
  /\ memory_pos' = memory_pos + length_of[d]
  /\ result' = 1
  /\ UNCHANGED flushed

AddedNew(d) ==
  /\ ~ Full(d)
  /\ \E p \in Rows :
       /\ IsProbe(p, d) /\ hash[p] = NULL
       /\ hash' = [hash EXCEPT ![p] = Len(entries) + 1]
       /\ entries' = Append(entries, Entry(d, p))
  /\ memory_pos' = memory_pos + length_of[d]
  /\ result' = 1
  /\ UNCHANGED flushed

\* count is unsigned: after CountLimit additions it is 0 again.
AddedAgain(d) ==
  /\ ~ Full(d)
  /\ \E p \in Rows :
       /\ IsProbe(p, d) /\ hash[p] # NULL
       /\ entries' = [entries EXCEPT ![hash[p]].count = (@ + 1) % CountLimit]
       /\ result' = entries'[hash[p]].count
  /\ UNCHANGED <<hash, memory_pos, flushed>>

hash_cache_add(d) == Refused(d) \/ AddedNew(d) \/ AddedAgain(d)

\* Mutation: the row of the last entry is not cleared.
Flush_LastRow ==
  /\ flushed' = [k \in DOMAIN entries |-> entries[k].data]
  /\ hash' = [p \in Rows |->
                IF \E k \in 1 .. Len(entries) - 1 : entries[k].hash_pos = p THEN NULL ELSE hash[p]]
  /\ entries' = <<>>
  /\ memory_pos' = 0
  /\ UNCHANGED result

\* Mutation: the iteration starts behind the first element.
Flush_SkipFirst ==
  /\ flushed' = [k \in 1 .. Len(entries) - 1 |-> entries[k + 1].data]
  /\ hash' = [p \in Rows |->
                IF \E k \in DOMAIN entries : entries[k].hash_pos = p THEN NULL ELSE hash[p]]
  /\ entries' = <<>>
  /\ memory_pos' = 0
  /\ UNCHANGED result

\* flush_hash_cache: hash_cache_iter from 0 to its end, then
\* hash_cache_clear, which resets the rows the entries say they are in.
Flush ==
  /\ flushed' = [k \in DOMAIN entries |-> entries[k].data]
  /\ hash' = [p \in Rows |->
                IF \E k \in DOMAIN entries : entries[k].hash_pos = p THEN NULL ELSE hash[p]]
  /\ entries' = <<>>
  /\ memory_pos' = 0
  /\ UNCHANGED result

Next == (\E d \in Data : hash_cache_add(d)) \/ Flush

Spec == Init /\ [][Next]_vars

-----------------------------------------------------------------------------
Contents == {entries[k].data : k \in DOMAIN entries}

\* Every variable has its type.
TypeOK ==
  /\ hash \in [Rows -> 0 .. Len(entries)]
  /\ entries \in Seq([data : Data, memory_pos : Nat, hash_pos : Rows,
                       count : 0 .. CountLimit - 1])
  /\ memory_pos \in Nat
  /\ result \in 0 .. CountLimit - 1
  /\ flushed \in Seq(Data)

\* Rows and entries point at each other, and the probe for a value that is
\* stored finds its entry: no value is stored twice, and clearing the rows of
\* the entries clears the table (hash_cache_add, hash_cache_clear).
Linked ==
  /\ \A p \in Rows : hash[p] # NULL =>
       hash[p] \in DOMAIN entries /\ entries[hash[p]].hash_pos = p
  /\ \A k \in DOMAIN entries : hash[entries[k].hash_pos] = k
  /\ \A k \in DOMAIN entries : IsProbe(entries[k].hash_pos, entries[k].data)

\* The while loop of hash_cache_add always ends: there is a row to stop at
\* whenever the table is not too full to look.
ProbeEnds == \A d \in Data : ~ Full(d) => \E p \in Rows : IsProbe(p, d)

\* Where the data of an entry ends.
EndOf(k) == entries[k].memory_pos + length_of[entries[k].data]

\* The entries fit in the array of hash_size, and their data in the memory,
\* each behind that of the ones before it: no path overwrites another, and
\* none is written behind the block (hash_cache_add's memcpy).
InBounds ==
  /\ Len(entries) <= HashSize
  /\ memory_pos <= MemSize
  /\ \A k \in DOMAIN entries : EndOf(k) <= memory_pos
  /\ \A j, k \in DOMAIN entries : j < k => EndOf(j) <= entries[k].memory_pos

\* To its callers the table is a set of paths.
Cache == INSTANCE PathCache WITH
  pending <- Contents,
  flushed <- {flushed[k] : k \in DOMAIN flushed},
  refused <- result = 0

CacheSpec == Cache!Spec

\* A flush names no path twice.
FlushedOnce == \A j, k \in DOMAIN flushed : flushed[j] = flushed[k] => j = k

\* The inductive invariant of HashCacheProofs.
IInv ==
  /\ TypeOK /\ Linked /\ InBounds /\ FlushedOnce
  /\ entries = <<>> => memory_pos = 0
=============================================================================
