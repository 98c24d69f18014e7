-------------------------------- MODULE Cdb ---------------------------------
(***************************************************************************)
(* The constant database of users/cdb and control/morercpthosts.cdb:       *)
(* cdbmss.c and cdbmake_add.c build it, cdb_seek.c reads it.  A file has   *)
(* records, hash tables with open addressing, and a header that names the  *)
(* tables.  A key is a sequence of bytes.  A position in the file is the   *)
(* number of the record there; 0 marks a free slot, and no record has it.  *)
(***************************************************************************)
EXTENDS Integers, Sequences, SequencesExt

CONSTANTS Keys,      \* byte sequences that are added or looked for
          Tables,    \* hash tables in a file (256)
          HashBits   \* width of a hash value (32)

Width(n) == n % 2 ^ HashBits

\* The operator ^ of C, bit by bit.
Xor(a, b) ==
    LET low[n \in 0 .. HashBits] ==
            IF n = 0 THEN 0
            ELSE LET bit == 2 ^ (n - 1) IN
                 low[n - 1] + bit * ((a \div bit + b \div bit) % 2) IN
    low[HashBits]

\* h += h << 5; h ^= c
HashAdd(h, c) == Xor(Width(33 * h), Width(c))

Hash == [key \in Keys |-> FoldLeft(HashAdd, Width(5381), key)]

-----------------------------------------------------------------------------
(* cdbmss_add() writes the record and remembers hash and position.         *)
Added(recs, key, data) == Append(recs, [key |-> key, data |-> data])

\* cdbmake_split(): the entries of table b.  The lists are walked backwards
\* and each part is filled from its end, so that the order is that of Added.
Split(recs, b) ==
    SelectSeq([p \in 1 .. Len(recs) |-> [h |-> Hash[recs[p].key], p |-> p]],
              LAMBDA hp : hp.h % Tables = b)

TableLen(count) == count + count

Step(where, k, len) == (where + k) % len

Place(hash, hp) ==
    LET len == Len(hash)
        where == (hp.h \div Tables) % len
        free == {k \in 0 .. len - 1 : hash[Step(where, k, len) + 1].p = 0} IN
    IF free = {} THEN hash
    ELSE [hash EXCEPT ![Step(where, Min(free), len) + 1] = hp]

\* cdbmake_throw()
Throw(recs, b) ==
    LET hps == Split(recs, b)
        empty == [j \in 1 .. TableLen(Len(hps)) |-> [h |-> 0, p |-> 0]] IN
    FoldLeft(Place, empty, hps)

\* cdbmss_finish(): the header maps a table to its place and length.
Finish(recs) ==
    [recs |-> recs, final |-> [b \in 0 .. Tables - 1 |-> Throw(recs, b)]]

-----------------------------------------------------------------------------
Hit(file, slot, key) ==
    slot.p # 0 /\ slot.h = Hash[key] /\ file.recs[slot.p].key = key

\* cdb_seek(): the record number, 0 when there is none.  The loop ends at a
\* free slot, at the key, or after lenhash probes.
Seek(file, key) ==
    LET h == Hash[key]
        hash == file.final[h % Tables]
        len == Len(hash)
        slot(k) == hash[Step((h \div Tables) % len, k, len) + 1]
        ends == {k \in 0 .. len - 1 : slot(k).p = 0 \/ Hit(file, slot(k), key)} IN
    IF ends = {} \/ slot(Min(ends)).p = 0 THEN 0 ELSE slot(Min(ends)).p

-----------------------------------------------------------------------------
(* What a reader may rely on: the first record with the key, if any.       *)
FirstWith(recs, key) ==
    LET with == {p \in 1 .. Len(recs) : recs[p].key = key} IN
    IF with = {} THEN 0 ELSE Min(with)

(* Whatever the hash values, and whatever wraps around in a table, a seek  *)
(* finds the first record with the key, and nothing for any other key.     *)
SeekRight(recs) ==
    LET file == Finish(recs) IN
    \A key \in Keys : Seek(file, key) = FirstWith(recs, key)

(* Every table has a free slot: a seek for a missing key ends early.       *)
HalfFull(recs) ==
    \A hash \in Range(Finish(recs).final) :
        2 * Len(SelectSeq(hash, LAMBDA slot : slot.p # 0)) = Len(hash)
=============================================================================
