------------------------------- MODULE VnKeys -------------------------------
(***************************************************************************)
(* The keys of meta_cf as byte strings.  Directory entries (decimal number *)
(* of the directory, '_', name), inode records (the eight bytes of the     *)
(* number), the seed and the superblock share one column family, and a     *)
(* directory is listed by a scan over the keys with its prefix.            *)
(*                                                                         *)
(* One thread; the steps and interleavings of the calls are those of       *)
(* VnNamespace, where keys are abstract.                                   *)
(***************************************************************************)
EXTENDS Integers, Sequences, SequencesExt

CONSTANTS
    Name,    \* file names, sequences of bytes
    Ino      \* bound: inode numbers that creates draw

VARIABLES
    meta,    \* meta_cf: for each key the first eight bytes of its value, as a
             \* number, and what the value is
    seed,    \* ctx->inode_seed
    it,      \* a vn_inode_iterator, or NoIterator
    listed,  \* names and inode numbers that vn_next_inode has returned
    entry    \* history: the entries, by directory and name

vars == <<meta, seed, it, listed, entry>>

VN_ROOT_INO == 2
VN_FIRST_USER_INO == 12

----------------------------------------------------------------------------
(* Keys *)

\* format_string("%ld", n) for a number that is not negative.
Decimal[n \in Nat] ==
    (IF n < 10 THEN <<>> ELSE Decimal[n \div 10]) \o <<48 + (n % 10)>>

\* i without its lowest 0, 1, ..., 7 bytes.
Shifted(i) ==
    LET s[k \in 0 .. 7] == IF k = 0 THEN i ELSE s[k - 1] \div 256 IN s

\* The eight bytes in memory, lowest first.
InodeKey(i) == [k \in 1 .. 8 |-> Shifted(i)[k - 1] % 256]

\* Names are C strings, without NUL.  2^56 creates are not within reach.
ASSUME ConstantsAssumption ==
    /\ Name \subseteq Seq(1 .. 255)
    /\ Ino \subseteq Nat /\ \A i \in Ino : Shifted(i)[7] = 0

\* Mutant: no separator between directory and name.
Prefix_NoSeparator(d) == Decimal[d]

\* "%ld_"
Prefix(d) == Decimal[d] \o <<95>>

\* "%ld_%s"
EntryKey(d, n) == Prefix(d) \o n

\* "__inode_seed__"
INODE_SEED_KEY ==
    <<95, 95, 105, 110, 111, 100, 101, 95, 115, 101, 101, 100, 95, 95>>

\* "vivefs_sb"
SuperblockKey == <<118, 105, 118, 101, 102, 115, 95, 115, 98>>

\* The order of keys in RocksDB.
Before(a, b) ==
    \/ IsStrictPrefix(a, b)
    \/ \E i \in DOMAIN a \cap DOMAIN b :
         a[i] < b[i] /\ \A j \in 1..(i - 1) : a[j] = b[j]

End == <<>>

First(keys) ==
    IF keys = {} THEN End
    ELSE CHOOSE k \in keys : \A other \in keys \ {k} : Before(k, other)

----------------------------------------------------------------------------
(* Calls *)

Value(ino, is) == [ino |-> ino, is |-> is]

Put(m, key, value) == [k \in DOMAIN m \cup {key} |-> IF k = key THEN value ELSE m[k]]

Has(key) == key \in DOMAIN meta

Directory == {VN_ROOT_INO} \cup {i \in Ino : Has(InodeKey(i))}

\* A free number is drawn; the ones before it that are not in use went to
\* files that the model leaves out.
vn_create_file(d, n, ino) ==
    /\ d \in Directory /\ ino >= seed
    /\ ~Has(EntryKey(d, n))
    /\ meta' = Put(Put(Put(meta, EntryKey(d, n), Value(ino, "entry")),
                       InodeKey(ino), Value(ino, "inode")),
                   INODE_SEED_KEY, Value(ino + 1, "seed"))
    /\ seed' = ino + 1
    /\ entry' = Put(entry, <<d, n>>, ino)
    /\ UNCHANGED <<it, listed>>

\* The inode's only link: the entry goes, the inode record stays.
vn_unlink(d, n) ==
    /\ d \in Directory /\ Has(EntryKey(d, n))
    /\ meta' = [k \in DOMAIN meta \ {EntryKey(d, n)} |-> meta[k]]
    /\ entry' = [e \in DOMAIN entry \ {<<d, n>>} |-> entry[e]]
    /\ UNCHANGED <<seed, it, listed>>

NoIterator == [on |-> FALSE]

\* Mutant: SeekToFirst, as if directories came first.
Seek_ToFirst(m, prefix) == First(DOMAIN m)

Seek(m, prefix) == First({k \in DOMAIN m : k = prefix \/ Before(prefix, k)})

\* The iterator sees meta_cf as it was; wanted is history.
vn_begin_iterate_dir(d) ==
    /\ it = NoIterator /\ d \in Directory
    /\ it' = [on |-> TRUE, prefix |-> Prefix(d), snapshot |-> meta,
              at |-> Seek(meta, Prefix(d)),
              wanted |-> {<<e[2], entry[e]>> : e \in {f \in DOMAIN entry : f[1] = d}}]
    /\ listed' = {}
    /\ UNCHANGED <<meta, seed, entry>>

vn_iterator_has_next == it.at # End /\ IsPrefix(it.prefix, it.at)

\* Returns NULL and stays where it is if there is no inode record.
vn_next_inode ==
    /\ it.on /\ vn_iterator_has_next
    /\ LET ino == it.snapshot[it.at].ino
           name == SubSeq(it.at, Len(it.prefix) + 1, Len(it.at))
       IN  /\ Has(InodeKey(ino))
           /\ listed' = listed \cup {<<name, ino>>}
    /\ it' = [it EXCEPT !.at = First({k \in DOMAIN it.snapshot : Before(it.at, k)})]
    /\ UNCHANGED <<meta, seed, entry>>

vn_release_iterator ==
    /\ it.on
    /\ it' = NoIterator
    /\ listed' = {}
    /\ UNCHANGED <<meta, seed, entry>>

----------------------------------------------------------------------------
\* What mkfs.vn leaves.
Init ==
    /\ meta = Put(Put(<<>>, SuperblockKey, Value(0, "superblock")),
                  INODE_SEED_KEY, Value(VN_FIRST_USER_INO, "seed"))
    /\ seed = VN_FIRST_USER_INO
    /\ it = NoIterator
    /\ listed = {}
    /\ entry = <<>>

Next ==
    \/ \E d \in Directory, n \in Name :
         \/ \E ino \in Ino : vn_create_file(d, n, ino)
         \/ vn_unlink(d, n)
    \/ \E d \in Directory : vn_begin_iterate_dir(d)
    \/ vn_next_inode
    \/ vn_release_iterator

Spec == Init /\ [][Next]_vars

----------------------------------------------------------------------------
(* Properties *)

\* No record takes the place of one of another kind: each entry is found
\* under its own key with its number, that number leads to an inode record
\* with the same i_no, a name that is not there is not found, and a mount
\* reads back the seed.
KeysSeparate ==
    /\ \A d \in Directory, n \in Name :
         IF <<d, n>> \in DOMAIN entry
         THEN /\ Has(EntryKey(d, n))
              /\ meta[EntryKey(d, n)] = Value(entry[<<d, n>>], "entry")
              /\ meta[InodeKey(entry[<<d, n>>])] = Value(entry[<<d, n>>], "inode")
         ELSE ~Has(EntryKey(d, n))
    /\ meta[INODE_SEED_KEY] = Value(seed, "seed")

\* "prefix search '102_'" lists directory 102: a scan that has come to its end
\* has returned the directory's entries as they were when it began, all of
\* them and nothing else, whatever other keys there are.
ListingExact == it.on => (~vn_iterator_has_next => listed = it.wanted)
=============================================================================
