--------------------------- MODULE PluginStoreProofs ---------------------------
(***************************************************************************)
(* What PluginStore guarantees for any number of plugins and versions,     *)
(* backups of backups of any depth, and copies, deletions and renames that *)
(* fail anywhere.                                                          *)
(***************************************************************************)
EXTENDS PluginStore, FiniteSetTheorems, TLAPS

USE StoreAssumption

-----------------------------------------------------------------------------
(* The inductive invariant. *)

\* The directories and the list are there for every id.
ShapeOK == disk = [id \in Ids |-> disk[id]] /\ entries = [id \in Ids |-> entries[id]]

\* While an upgrade can be undone, store/<id>.backup is what it started from.
UndoInv ==
  \A id \in Ids : undo[id] # Unmarked => 1 \in Depths(id) /\ disk[id][1] = undo[id]

StoreInv == TypeOK /\ ShapeOK /\ (\A id \in Ids : ListedOnce(id)) /\ UndoInv

\* What the operations may assume of directories and a list they have got to.
DiskOK(dk) ==
  /\ dk = [id \in Ids |-> dk[id]]
  /\ \A id \in Ids : dk[id] \in [Depths(id) -> Contents]

\* X are the plugins of which store/<id> may be listed and not be there.
ListOK(dk, es, X) ==
  /\ es = [id \in Ids |-> es[id]]
  /\ \A id \in Ids : es[id] \in Seq(Entries(id))
  /\ \A id \in Ids : \A m, n \in DOMAIN es[id] :
       /\ es[id][m].depth = es[id][n].depth => m = n
       /\ es[id][m].depth = 0 => id \in X \/ dk[id][0] # Missing

StaleIds == {id \in Ids : Stale(id)}

\* What a step keeps if it makes nobody stale but the plugins in X.
NoneStaleBut(X) ==
  /\ StoreInv'
  /\ \A id \in Ids : Stale(id)' => id \in X

LEMMA InvIsOK ==
  ASSUME StoreInv
  PROVE  /\ DiskOK(disk) /\ ListOK(disk, entries, StaleIds)
         /\ undo \in [Ids -> Contents \cup {Unmarked}] /\ UndoInv
  BY DEF StoreInv, TypeOK, ShapeOK, ListedOnce, Stale, StaleIds, DiskOK, ListOK

LEMMA OKIsInv ==
  ASSUME NEW X, DiskOK(disk'), ListOK(disk', entries', X),
         undo' \in [Ids -> Contents \cup {Unmarked}], UndoInv'
  PROVE  NoneStaleBut(X)
  BY DEF NoneStaleBut, StoreInv, TypeOK, ShapeOK, ListedOnce, Stale, DiskOK, ListOK

-----------------------------------------------------------------------------
(* The operators of the model. *)

LEMMA DepthsStart == ASSUME NEW id \in Ids PROVE 0 \in Depths(id)
  BY DEF Depths

LEMMA PutOK ==
  ASSUME NEW dk, DiskOK(dk), NEW id \in Ids, NEW d \in Depths(id),
         NEW c \in Contents
  PROVE  /\ DiskOK(Put(dk, id, d, c))
         /\ \A i \in Ids : \A e \in Depths(i) :
              Put(dk, id, d, c)[i][e] = IF i = id /\ e = d THEN c ELSE dk[i][e]
  <1> DEFINE new == Put(dk, id, d, c)
  <1>1. new = [i \in Ids |-> IF i = id THEN [dk[id] EXCEPT ![d] = c] ELSE dk[i]]
    <2>1. DOMAIN dk = Ids
      BY DEF DiskOK
    <2>. QED  BY <2>1 DEF Put
  <1>2. \A i \in Ids : new[i] = IF i = id THEN [dk[id] EXCEPT ![d] = c] ELSE dk[i]
    BY <1>1
  <1>3. new = [i \in Ids |-> new[i]]
    BY <1>1
  <1> HIDE DEF new
  <1>4. \A i \in Ids : new[i] \in [Depths(i) -> Contents]
    BY <1>2 DEF DiskOK
  <1>5. \A i \in Ids : \A e \in Depths(i) :
          new[i][e] = IF i = id /\ e = d THEN c ELSE dk[i][e]
    BY <1>2 DEF DiskOK
  <1> QED BY <1>3, <1>4, <1>5 DEF DiskOK, new

\* What a scan lists of an id: each directory with a manifest once.
LEMMA OrdersAreLists ==
  ASSUME NEW dk, NEW id \in Ids, NEW s \in Orders(dk, id)
  PROVE  /\ s \in Seq(Entries(id))
         /\ \A m, n \in DOMAIN s : s[m].depth = s[n].depth => m = n
         /\ \A m \in DOMAIN s : dk[id][s[m].depth] \notin {Missing, Empty}
  <1> DEFINE L == Listed(dk, id)
  <1>1. MaxDepth[id] \in Nat
    OBVIOUS
  <1>2. IsFiniteSet(Depths(id))
    BY <1>1, FS_Interval DEF Depths
  <1>3. L \in SUBSET Depths(id)
    BY DEF Listed
  <1>4. Cardinality(L) \in Nat
    <2>1. IsFiniteSet(L)
      BY <1>2, <1>3, FS_Subset
    <2> HIDE DEF L
    <2> QED BY <2>1, FS_CardinalityType
  <1>5. PICK t \in SetToSeqs(L) : s = [n \in DOMAIN t |-> [depth |-> t[n], enabled |-> TRUE]]
    BY DEF Orders
  <1>6. /\ t \in [1..Cardinality(L) -> L]
        /\ \A i, j \in 1..Cardinality(L) : i # j => t[i] # t[j]
    BY DEF SetToSeqs
  <1>7. \A d \in L : d \in Depths(id) /\ dk[id][d] \notin {Missing, Empty}
    BY DEF Listed
  <1> HIDE DEF L
  <1>8. DOMAIN t = 1..Cardinality(L)
    BY <1>6
  <1>9. \A n \in 1..Cardinality(L) : /\ s[n] = [depth |-> t[n], enabled |-> TRUE]
                                     /\ s[n].depth = t[n]
                                     /\ s[n] \in Entries(id)
                                     /\ t[n] \in L
    BY <1>5, <1>6, <1>7, <1>8 DEF Entries
  <1>10. DOMAIN s = 1..Cardinality(L) /\ s = [n \in 1..Cardinality(L) |-> s[n]]
    BY <1>5, <1>8
  <1>11. s \in Seq(Entries(id))
    BY <1>4, <1>9, <1>10
  <1> QED BY <1>6, <1>7, <1>9, <1>10, <1>11

\* A scan makes the list agree with the directories.
LEMMA ScansAreOK ==
  ASSUME NEW dk, DiskOK(dk), NEW es \in ScansOf(dk)
  PROVE  \A X : ListOK(dk, es, X)
  <1>1. es = [id \in Ids |-> es[id]] /\ \A id \in Ids : es[id] \in Orders(dk, id)
    BY DEF ScansOf
  <1> QED BY <1>1, OrdersAreLists DEF ListOK

\* The list without the first entry of an id.
LEMMA TailIsOK ==
  ASSUME NEW s, NEW S, s \in Seq(S), s # <<>>
  PROVE  /\ Tail(s) \in Seq(S)
         /\ \A n \in DOMAIN Tail(s) : n + 1 \in DOMAIN s /\ n + 1 # 1 /\ Tail(s)[n] = s[n + 1]
         /\ 1 \in DOMAIN s /\ s[1] \in S
  OBVIOUS

\* The first entry of an id and the list without it.
LEMMA FirstEntry ==
  ASSUME NEW X, NEW dk, NEW es, ListOK(dk, es, X), NEW id \in Ids, es[id] # <<>>
  PROVE  /\ es[id][1].depth \in Depths(id)
         /\ ListOK(dk, [es EXCEPT ![id] = Tail(@)], X)
         /\ \A n \in DOMAIN Tail(es[id]) : Tail(es[id])[n].depth # es[id][1].depth
  <1> DEFINE s == es[id]
             rest == [es EXCEPT ![id] = Tail(@)]
  <1>1. s \in Seq(Entries(id))
    BY DEF ListOK
  <1>2. /\ Tail(s) \in Seq(Entries(id))
        /\ \A n \in DOMAIN Tail(s) :
             n + 1 \in DOMAIN s /\ n + 1 # 1 /\ Tail(s)[n] = s[n + 1]
        /\ 1 \in DOMAIN s /\ s[1] \in Entries(id)
        /\ DOMAIN Tail(s) \subseteq Nat
    <2> HIDE DEF s
    <2>1. s # <<>>
      BY DEF s
    <2> QED BY <1>1, <2>1, TailIsOK
  <1>3. s[1].depth \in Depths(id)
    BY <1>2 DEF Entries
  <1>4. \A m, n \in DOMAIN s : s[m].depth = s[n].depth => m = n
    BY DEF ListOK
  <1> HIDE DEF s
  <1>5. ASSUME NEW n \in DOMAIN Tail(s)
        PROVE  Tail(s)[n].depth # s[1].depth
    <2>1. n + 1 \in DOMAIN s /\ 1 \in DOMAIN s /\ n + 1 # 1
      BY <1>2
    <2>2. Tail(s)[n].depth = s[n + 1].depth
      BY <1>2
    <2> QED BY <1>4, <2>1, <2>2
  <1>6. \A m, n \in DOMAIN Tail(s) : Tail(s)[m].depth = Tail(s)[n].depth => m = n
    <2> SUFFICES ASSUME NEW m \in DOMAIN Tail(s), NEW n \in DOMAIN Tail(s),
                        Tail(s)[m].depth = Tail(s)[n].depth
                 PROVE  m = n
      OBVIOUS
    <2>1. m + 1 = n + 1 /\ m \in Nat /\ n \in Nat
      BY <1>2, <1>4
    <2> QED BY <2>1
  <1>7. /\ rest = [i \in Ids |-> rest[i]]
        /\ \A i \in Ids : rest[i] = IF i = id THEN Tail(s) ELSE es[i]
    BY DEF ListOK, s
  <1>8. ListOK(dk, rest, X)
    <2>1. \A n \in DOMAIN Tail(s) :
            Tail(s)[n].depth = 0 => id \in X \/ dk[id][0] # Missing
      BY <1>2 DEF ListOK, s
    <2> HIDE DEF rest
    <2>2. \A i \in Ids : rest[i] \in Seq(Entries(i))
      BY <1>2, <1>7 DEF ListOK
    <2>3. ASSUME NEW i \in Ids, NEW m \in DOMAIN rest[i], NEW n \in DOMAIN rest[i]
          PROVE  /\ rest[i][m].depth = rest[i][n].depth => m = n
                 /\ rest[i][m].depth = 0 => i \in X \/ dk[i][0] # Missing
      <3>1. CASE i = id
        <4>1. rest[i] = Tail(s)
          BY <1>7, <3>1
        <4> QED BY <1>6, <2>1, <2>3, <3>1, <4>1
      <3>2. CASE i # id
        <4>1. rest[i] = es[i]
          BY <1>7, <3>2
        <4> QED BY <2>3, <4>1 DEF ListOK
      <3> QED BY <3>1, <3>2
    <2> QED BY <1>7, <2>2, <2>3 DEF ListOK
  <1> QED BY <1>3, <1>5, <1>8 DEF s

\* Only what becomes of store/<id> bears on the list.
LEMMA ListSurvives ==
  ASSUME NEW X, NEW dk, NEW d2, NEW es, ListOK(dk, es, X),
         \A id \in Ids : \A n \in DOMAIN es[id] :
           es[id][n].depth = 0 /\ dk[id][0] # Missing => id \in X \/ d2[id][0] # Missing
  PROVE  ListOK(d2, es, X)
  BY DEF ListOK

\* One directory changes, and goes only if it was gone.
LEMMA ChangeIsOK ==
  ASSUME NEW X, NEW dk, NEW es, DiskOK(dk), ListOK(dk, es, X), NEW id \in Ids,
         NEW d \in Depths(id), NEW c \in Contents,
         d = 0 /\ c = Missing => dk[id][0] = Missing
  PROVE  DiskOK(Put(dk, id, d, c)) /\ ListOK(Put(dk, id, d, c), es, X)
  <1> DEFINE new == Put(dk, id, d, c)
  <1>1. /\ DiskOK(new)
        /\ \A i \in Ids : \A e \in Depths(i) :
             new[i][e] = IF i = id /\ e = d THEN c ELSE dk[i][e]
    BY PutOK
  <1> HIDE DEF new
  <1>2. ListOK(new, es, X)
    <2>1. \A i \in Ids : dk[i][0] # Missing => new[i][0] # Missing
      BY <1>1, DepthsStart
    <2> QED BY <2>1, ListSurvives
  <1> QED BY <1>1, <1>2 DEF new

\* A remove_all() that throws leaves a directory.
LEMMA RemainsOK ==
  ASSUME NEW b \in Contents, NEW c \in Remains(b)
  PROVE  c \in Contents /\ (c = Missing => b = Missing)
  BY DEF Remains, Contents

\* Removing what the first entry lists, and the entry.
LEMMA RemovalIsOK ==
  ASSUME NEW X, NEW dk, NEW es, DiskOK(dk), ListOK(dk, es, X), NEW id \in Ids,
         es[id] # <<>>
  PROVE  LET gone == Put(dk, id, es[id][1].depth, Missing)
         IN  DiskOK(gone) /\ ListOK(gone, [es EXCEPT ![id] = Tail(@)], X)
  <1> DEFINE d == es[id][1].depth
             gone == Put(dk, id, d, Missing)
             rest == [es EXCEPT ![id] = Tail(@)]
  <1>1. /\ d \in Depths(id)
        /\ ListOK(dk, rest, X)
        /\ \A n \in DOMAIN Tail(es[id]) : Tail(es[id])[n].depth # d
    BY FirstEntry
  <1>2. \A i \in Ids : rest[i] = IF i = id THEN Tail(es[id]) ELSE es[i]
    BY DEF ListOK
  <1> HIDE DEF d, rest
  <1>3. /\ DiskOK(gone)
        /\ \A i \in Ids : \A e \in Depths(i) :
             gone[i][e] = IF i = id /\ e = d THEN Missing ELSE dk[i][e]
    BY <1>1, PutOK DEF Contents
  <1> HIDE DEF gone
  <1>4. ListOK(gone, rest, X)
    <2>1. ASSUME NEW i \in Ids, NEW n \in DOMAIN rest[i],
                 rest[i][n].depth = 0, dk[i][0] # Missing
          PROVE  gone[i][0] # Missing
      <3>1. i = id => d # 0
        BY <1>1, <1>2, <2>1
      <3> QED BY <1>3, <2>1, <3>1, DepthsStart
    <2> QED BY <1>1, <2>1, ListSurvives
  <1> QED BY <1>3, <1>4 DEF gone, rest, d

\* install() from any state an operation has reached.
LEMMA InstallIsOK ==
  ASSUME NEW X, NEW dk, NEW es, DiskOK(dk), ListOK(dk, es, X), NEW id \in Ids,
         NEW v \in Versions, NEW o \in InstallOutcomes(dk, es, id, v)
  PROVE  /\ DiskOK(o[1]) /\ ListOK(o[1], o[2], X)
         /\ \A i \in Ids : \A e \in Depths(i) : i # id \/ e # 0 => o[1][i][e] = dk[i][e]
  <1>1. CASE o = <<dk, es>>
    BY <1>1
  <1>2. CASE o # <<dk, es>>
    <2>0. Accepts(dk, es, id)
      BY <1>2 DEF InstallOutcomes
    <2>1. \A c \in Contents :
            /\ DiskOK(Put(dk, id, 0, c))
            /\ \A i \in Ids : \A e \in Depths(i) :
                 Put(dk, id, 0, c)[i][e] = IF i = id /\ e = 0 THEN c ELSE dk[i][e]
      BY PutOK, DepthsStart
    <2>2. CASE \E s \in ScansOf(Put(dk, id, 0, v)) : o = <<Put(dk, id, 0, v), s>>
      <3>1. v \in Contents
        BY DEF Contents
      <3> QED BY <2>1, <2>2, <3>1, ScansAreOK
    <2>3. CASE \E c \in {Empty, Damaged} : o = <<Put(dk, id, 0, c), es>>
      <3>1. PICK c \in {Empty, Damaged} : o = <<Put(dk, id, 0, c), es>>
        BY <2>3
      <3> DEFINE torn == Put(dk, id, 0, c)
      <3>2. /\ DiskOK(torn)
            /\ \A i \in Ids : \A e \in Depths(i) :
                 torn[i][e] = IF i = id /\ e = 0 THEN c ELSE dk[i][e]
        BY <2>1 DEF Contents
      <3> HIDE DEF torn
      <3>3. ListOK(torn, es, X)
        <4>1. es[id] = <<>>
          BY <2>0 DEF Accepts
        <4>2. ASSUME NEW i \in Ids, NEW n \in DOMAIN es[i],
                     es[i][n].depth = 0, dk[i][0] # Missing
              PROVE  torn[i][0] # Missing
          BY <3>2, <4>1, <4>2, DepthsStart
        <4> QED BY <4>2, ListSurvives
      <3> QED BY <3>1, <3>2, <3>3 DEF torn
    <2> QED BY <1>2, <2>0, <2>2, <2>3 DEF InstallOutcomes
  <1> QED BY <1>1, <1>2

-----------------------------------------------------------------------------
(* The operations. *)

\* The directories after the backup of an upgrade is made.
LEMMA BackedUpIsOK ==
  ASSUME StoreInv, NEW id \in Ids, Upgradable(id)
  PROVE  LET d == Source(id)
         IN  /\ d \in Depths(id) /\ d + 1 \in Depths(id) /\ d + 1 # 0 /\ d + 1 # d
             /\ entries[id] # <<>>
             /\ DiskOK(BackedUp(id)) /\ ListOK(BackedUp(id), entries, StaleIds)
             /\ \A i \in Ids : \A e \in Depths(i) :
                  BackedUp(id)[i][e] = IF i = id /\ e = d + 1 THEN disk[id][d]
                                       ELSE disk[i][e]
  <1> DEFINE d == Source(id)
  <1>1. DiskOK(disk) /\ ListOK(disk, entries, StaleIds)
    BY InvIsOK
  <1>2. entries[id] # <<>> /\ d < MaxDepth[id] /\ d \in Depths(id)
    BY <1>1, FirstEntry DEF Upgradable, Listing, Source
  <1>3. d + 1 \in Depths(id) /\ d + 1 # 0 /\ d + 1 # d
    BY <1>2 DEF Depths
  <1>4. disk[id][d] \in Contents
    BY <1>1, <1>2 DEF DiskOK
  <1>5. /\ DiskOK(BackedUp(id))
        /\ \A i \in Ids : \A e \in Depths(i) :
             BackedUp(id)[i][e] = IF i = id /\ e = d + 1 THEN disk[id][d] ELSE disk[i][e]
    BY <1>1, <1>3, <1>4, PutOK DEF BackedUp
  <1>6. ListOK(BackedUp(id), entries, StaleIds)
    BY <1>1, <1>3, <1>5, ListSurvives, DepthsStart
  <1> QED BY <1>2, <1>3, <1>5, <1>6

\* The directories and the list before the package of an upgrade is installed:
\* the backup made, the entry and its directory gone.
LEMMA BackupIsOK ==
  ASSUME StoreInv, NEW id \in Ids, Upgradable(id)
  PROVE  LET d == Source(id)
             dk == Put(BackedUp(id), id, d, Missing)
             es == [entries EXCEPT ![id] = Tail(@)]
         IN  /\ d \in Depths(id) /\ d + 1 \in Depths(id)
             /\ DiskOK(dk) /\ ListOK(dk, es, StaleIds)
             /\ \A i \in Ids : \A e \in Depths(i) :
                  dk[i][e] = IF i = id /\ e = d THEN Missing
                             ELSE IF i = id /\ e = d + 1 THEN disk[id][d]
                             ELSE disk[i][e]
  <1> DEFINE d == Source(id)
             dk == Put(BackedUp(id), id, d, Missing)
             es == [entries EXCEPT ![id] = Tail(@)]
  <1>1. /\ d \in Depths(id) /\ d + 1 \in Depths(id) /\ entries[id] # <<>>
        /\ DiskOK(BackedUp(id)) /\ ListOK(BackedUp(id), entries, StaleIds)
        /\ \A i \in Ids : \A e \in Depths(i) :
             BackedUp(id)[i][e] = IF i = id /\ e = d + 1 THEN disk[id][d] ELSE disk[i][e]
    BY BackedUpIsOK
  <1>2. DiskOK(dk) /\ ListOK(dk, es, StaleIds)
    BY <1>1, RemovalIsOK DEF Source
  <1>3. \A i \in Ids : \A e \in Depths(i) :
          dk[i][e] = IF i = id /\ e = d THEN Missing ELSE BackedUp(id)[i][e]
    BY <1>1, PutOK DEF Contents
  <1> HIDE DEF dk, es
  <1>4. \A i \in Ids : \A e \in Depths(i) :
          dk[i][e] = IF i = id /\ e = d THEN Missing
                     ELSE IF i = id /\ e = d + 1 THEN disk[id][d]
                     ELSE disk[i][e]
    BY <1>1, <1>3
  <1> QED BY <1>1, <1>2, <1>4 DEF dk, es

LEMMA EmptyIsAList ==
  ASSUME NEW S
  PROVE  <<>> \in Seq(S) /\ DOMAIN <<>> = {}
  <1>1. <<>> \in Seq(S) /\ DOMAIN <<>> = 1..0
    OBVIOUS
  <1>2. 1..0 = {}
    OBVIOUS
  <1> QED BY <1>1, <1>2

LEMMA StoreInitially == Init => StoreInv
  <1> SUFFICES ASSUME Init PROVE StoreInv
    OBVIOUS
  <1>1. disk = [id \in Ids |-> disk[id]] /\ entries = [id \in Ids |-> entries[id]]
    BY DEF Init
  <1>2. \A id \in Ids : /\ disk[id] \in [Depths(id) -> Contents]
                        /\ entries[id] = <<>> /\ undo[id] = Unmarked
    BY DEF Init, Contents
  <1>3. undo \in [Ids -> Contents \cup {Unmarked}]
    BY DEF Init
  <1>4. \A id \in Ids : entries[id] \in Seq(Entries(id)) /\ DOMAIN entries[id] = {}
    BY <1>2, EmptyIsAList
  <1>5. TypeOK
    BY <1>2, <1>3, <1>4 DEF TypeOK
  <1>6. \A id \in Ids : ListedOnce(id)
    BY <1>4 DEF ListedOnce
  <1> QED BY <1>1, <1>2, <1>5, <1>6 DEF StoreInv, ShapeOK, UndoInv

\* An operation that touches a plugin has left nothing to undo for it.
LEMMA TouchedUndo ==
  ASSUME StoreInv, NEW id \in Ids, Touched(id),
         \A i \in Ids \ {id} : 1 \in Depths(i) => disk'[i][1] = disk[i][1]
  PROVE  undo' \in [Ids -> Contents \cup {Unmarked}] /\ UndoInv'
  BY DEF StoreInv, TypeOK, UndoInv, Touched

LEMMA UpgradeKeeps ==
  ASSUME StoreInv, NEW id \in Ids, NEW to \in Ids, NEW v \in Versions,
         Upgrade(id, to, v)
  PROVE  /\ NoneStaleBut(StaleIds)
         /\ disk'[id][Source(id) + 1] = disk[id][Source(id)]
  <1> DEFINE d == Source(id)
             dk == Put(BackedUp(id), id, d, Missing)
             es == [entries EXCEPT ![id] = Tail(@)]
  <1>1. /\ d \in Depths(id) /\ d + 1 \in Depths(id)
        /\ DiskOK(dk) /\ ListOK(dk, es, StaleIds)
        /\ \A i \in Ids : \A e \in Depths(i) :
             dk[i][e] = IF i = id /\ e = d THEN Missing
                        ELSE IF i = id /\ e = d + 1 THEN disk[id][d]
                        ELSE disk[i][e]
    BY BackupIsOK DEF Upgrade
  <1>2. PICK o \in InstallOutcomes(dk, es, to, v) : disk' = o[1] /\ entries' = o[2]
    BY DEF Upgrade
  <1> HIDE DEF d, dk, es
  <1>3. /\ DiskOK(disk') /\ ListOK(disk', entries', StaleIds)
        /\ \A i \in Ids : \A e \in Depths(i) :
             i # to \/ e # 0 => disk'[i][e] = dk[i][e]
    BY <1>1, <1>2, InstallIsOK
  <1>4. d \in Nat /\ d + 1 # 0
    BY <1>1 DEF Depths
  <1>5. disk'[id][d + 1] = disk[id][d]
    BY <1>1, <1>3, <1>4
  <1>6. undo' = [undo EXCEPT ![to] = Unmarked,
                             ![id] = IF d = 0 THEN disk[id][0] ELSE Unmarked]
    BY DEF Upgrade, Undoable, d
  <1>7. disk[id][0] \in Contents
    BY InvIsOK, DepthsStart DEF DiskOK
  <1>8. undo' \in [Ids -> Contents \cup {Unmarked}]
    BY <1>6, <1>7 DEF StoreInv, TypeOK
  <1>9. UndoInv'
    <2> SUFFICES ASSUME NEW i \in Ids, undo'[i] # Unmarked
                 PROVE  1 \in Depths(i) /\ disk'[i][1] = undo'[i]
      BY DEF UndoInv
    <2>1. CASE i = id
      <3>1. d = 0 /\ undo'[i] = disk[id][0]
        BY <1>6, <2>1 DEF StoreInv, TypeOK
      <3> QED BY <1>1, <1>5, <2>1, <3>1
    <2>2. CASE i # id
      <3>1. undo'[i] = undo[i] /\ undo[i] # Unmarked
        BY <1>6, <2>2 DEF StoreInv, TypeOK
      <3>2. 1 \in Depths(i) /\ disk[i][1] = undo[i]
        BY <3>1 DEF StoreInv, UndoInv
      <3> QED BY <1>1, <1>3, <2>2, <3>1, <3>2
    <2> QED BY <2>1, <2>2
  <1> QED BY <1>3, <1>5, <1>8, <1>9, OKIsInv DEF d

\* An upgrade whose uninstall() throws has made its backup.
LEMMA UpgradeUninstallThrowsKeeps ==
  ASSUME StoreInv, NEW id \in Ids, UpgradeUninstallThrows(id)
  PROVE  /\ NoneStaleBut(StaleIds)
         /\ disk'[id][Source(id) + 1] = disk[id][Source(id)]
  <1> DEFINE d == Source(id)
  <1>1. /\ d \in Depths(id) /\ d + 1 \in Depths(id) /\ d + 1 # 0 /\ d + 1 # d
        /\ DiskOK(BackedUp(id)) /\ ListOK(BackedUp(id), entries, StaleIds)
        /\ \A i \in Ids : \A e \in Depths(i) :
             BackedUp(id)[i][e] = IF i = id /\ e = d + 1 THEN disk[id][d] ELSE disk[i][e]
    BY BackedUpIsOK DEF UpgradeUninstallThrows
  <1>2. PICK c \in Remains(disk[id][d]) : disk' = Put(BackedUp(id), id, d, c)
    BY DEF UpgradeUninstallThrows
  <1>3. undo' = [undo EXCEPT ![id] = IF d = 0 THEN disk[id][0] ELSE Unmarked]
    BY DEF UpgradeUninstallThrows, Undoable
  <1>4. disk[id][d] \in Contents /\ disk[id][0] \in Contents /\ disk[id][d] # Missing
    BY <1>1, InvIsOK, DepthsStart DEF DiskOK, UpgradeUninstallThrows
  <1>5. c \in Contents /\ c # Missing
    BY <1>2, <1>4, RemainsOK
  <1> HIDE DEF d
  <1>6. /\ DiskOK(disk') /\ ListOK(disk', entries, StaleIds)
        /\ \A i \in Ids : \A e \in Depths(i) :
             disk'[i][e] = IF i = id /\ e = d THEN c ELSE BackedUp(id)[i][e]
    BY <1>1, <1>2, <1>5, ChangeIsOK, PutOK
  <1>7. disk'[id][d + 1] = disk[id][d]
    BY <1>1, <1>6
  <1>8. undo' \in [Ids -> Contents \cup {Unmarked}]
    BY <1>3, <1>4 DEF StoreInv, TypeOK
  <1>9. UndoInv'
    <2> SUFFICES ASSUME NEW i \in Ids, undo'[i] # Unmarked
                 PROVE  1 \in Depths(i) /\ disk'[i][1] = undo'[i]
      BY DEF UndoInv
    <2>1. CASE i = id
      <3>1. d = 0 /\ undo'[i] = disk[id][0]
        BY <1>3, <2>1 DEF StoreInv, TypeOK
      <3> QED BY <1>1, <1>7, <2>1, <3>1
    <2>2. CASE i # id
      <3>1. undo'[i] = undo[i] /\ undo[i] # Unmarked
        BY <1>3, <2>2 DEF StoreInv, TypeOK
      <3>2. 1 \in Depths(i) /\ disk[i][1] = undo[i]
        BY <3>1 DEF StoreInv, UndoInv
      <3> QED BY <1>1, <1>6, <2>2, <3>1, <3>2
    <2> QED BY <2>1, <2>2
  <1>10. entries' = entries
    BY DEF UpgradeUninstallThrows
  <1> QED BY <1>6, <1>7, <1>8, <1>9, <1>10, OKIsInv DEF d

\* An upgrade that throws before that leaves the plugin it would have replaced.
LEMMA UpgradeThrowsKeeps ==
  ASSUME StoreInv, NEW id \in Ids, UpgradeThrows(id)
  PROVE  /\ NoneStaleBut(StaleIds)
         /\ disk'[id][Source(id)] = disk[id][Source(id)]
  <1> DEFINE d == Source(id)
  <1>1. DiskOK(disk) /\ ListOK(disk, entries, StaleIds)
    BY InvIsOK
  <1>2. d \in Depths(id) /\ d + 1 \in Depths(id) /\ d + 1 # 0 /\ d + 1 # d
    BY BackedUpIsOK DEF UpgradeThrows
  <1>3. PICK c \in BrokenBackups(disk[id][d + 1], disk[id][d]) :
          disk' = Put(disk, id, d + 1, c)
    BY DEF UpgradeThrows
  <1>4. c \in Contents
    <2>1. disk[id][d + 1] \in Contents
      BY <1>1, <1>2 DEF DiskOK
    <2> QED BY <1>3, <2>1, RemainsOK DEF BrokenBackups, Contents
  <1> HIDE DEF d
  <1>5. /\ DiskOK(disk') /\ ListOK(disk', entries, StaleIds)
        /\ \A i \in Ids : \A e \in Depths(i) :
             disk'[i][e] = IF i = id /\ e = d + 1 THEN c ELSE disk[i][e]
    BY <1>1, <1>2, <1>3, <1>4, ChangeIsOK, PutOK
  <1>6. undo' \in [Ids -> Contents \cup {Unmarked}] /\ UndoInv'
    BY <1>5, TouchedUndo DEF UpgradeThrows
  <1>7. entries' = entries
    BY DEF UpgradeThrows
  <1> QED BY <1>2, <1>5, <1>6, <1>7, OKIsInv DEF d

\* A rollback puts the backup in the place of the plugin.
LEMMA RollbackKeeps ==
  ASSUME StoreInv, NEW id \in Ids, Rollback(id)
  PROVE  NoneStaleBut({}) /\ disk'[id][0] = disk[id][1]
  <1> DEFINE dk == Put(disk, id, 0, disk[id][1])
  <1>1. DiskOK(disk) /\ 1 \in Depths(id) /\ 0 \in Depths(id)
    BY InvIsOK, DepthsStart DEF Rollback, HasBackup
  <1>2. disk[id][1] \in Contents
    BY <1>1 DEF DiskOK
  <1>3. /\ DiskOK(dk)
        /\ \A i \in Ids : \A e \in Depths(i) :
             dk[i][e] = IF i = id /\ e = 0 THEN disk[id][1] ELSE disk[i][e]
    BY <1>1, <1>2, PutOK
  <1>4. disk' = Put(dk, id, 1, Missing)
    BY DEF Rollback
  <1> HIDE DEF dk
  <1>5. /\ DiskOK(disk')
        /\ \A i \in Ids : \A e \in Depths(i) :
             disk'[i][e] = IF i = id /\ e = 1 THEN Missing ELSE dk[i][e]
    BY <1>1, <1>3, <1>4, PutOK DEF Contents
  <1>6. ListOK(disk', entries', {})
    BY <1>5, ScansAreOK DEF Rollback
  <1>7. undo' \in [Ids -> Contents \cup {Unmarked}] /\ UndoInv'
    BY <1>3, <1>5, TouchedUndo DEF Rollback
  <1>8. disk'[id][0] = disk[id][1]
    BY <1>1, <1>3, <1>5
  <1> QED BY <1>5, <1>6, <1>7, <1>8, OKIsInv

\* A rollback that throws leaves the backup where it was.
LEMMA RollbackThrowsKeeps ==
  ASSUME StoreInv, NEW id \in Ids, RollbackThrows(id)
  PROVE  NoneStaleBut(StaleIds \cup {id}) /\ disk'[id][1] = disk[id][1]
  <1>1. /\ DiskOK(disk) /\ ListOK(disk, entries, StaleIds)
        /\ 1 \in Depths(id) /\ 0 \in Depths(id)
    BY InvIsOK, DepthsStart DEF RollbackThrows, HasBackup
  <1>2. PICK c \in Remains(disk[id][0]) \cup {Missing} : disk' = Put(disk, id, 0, c)
    BY DEF RollbackThrows
  <1>3. c \in Contents
    <2>1. disk[id][0] \in Contents
      BY <1>1 DEF DiskOK
    <2> QED BY <1>2, <2>1, RemainsOK DEF Contents
  <1>4. /\ DiskOK(disk')
        /\ \A i \in Ids : \A e \in Depths(i) :
             disk'[i][e] = IF i = id /\ e = 0 THEN c ELSE disk[i][e]
    BY <1>1, <1>2, <1>3, PutOK
  <1>5. ListOK(disk', entries, StaleIds \cup {id})
    <2>1. ListOK(disk, entries, StaleIds \cup {id})
      BY <1>1 DEF ListOK
    <2>2. \A i \in Ids : disk[i][0] # Missing => i = id \/ disk'[i][0] # Missing
      BY <1>4, DepthsStart
    <2> QED BY <2>1, <2>2, ListSurvives
  <1>6. UNCHANGED <<entries, undo>>
    BY DEF RollbackThrows
  <1>7. undo' \in [Ids -> Contents \cup {Unmarked}] /\ UndoInv'
    BY <1>4, <1>6 DEF StoreInv, TypeOK, UndoInv
  <1>8. disk'[id][1] = disk[id][1]
    BY <1>1, <1>4
  <1> QED BY <1>4, <1>5, <1>6, <1>7, <1>8, OKIsInv

\* The operations that leave alone what an upgrade has backed up.
LEMMA OthersKeep ==
  ASSUME StoreInv,
         \/ Restart
         \/ Scan
         \/ \E id \in Ids : \/ \E v \in Versions : Install(id, v)
                            \/ Uninstall(id)
                            \/ UninstallThrows(id)
                            \/ \E enabled \in BOOLEAN : SetEnabled(id, enabled)
  PROVE  NoneStaleBut(StaleIds)
  <1>0. DiskOK(disk) /\ ListOK(disk, entries, StaleIds)
    BY InvIsOK
  <1>a. /\ DiskOK(disk') /\ ListOK(disk', entries', StaleIds)
        /\ undo' \in [Ids -> Contents \cup {Unmarked}] /\ UndoInv'
        => NoneStaleBut(StaleIds)
    BY OKIsInv
  <1>b. ASSUME UNCHANGED <<disk, undo>>
        PROVE  DiskOK(disk') /\ undo' \in [Ids -> Contents \cup {Unmarked}] /\ UndoInv'
    BY <1>b, <1>0 DEF StoreInv, TypeOK, UndoInv
  <1>1. CASE Scan
    <2>1. UNCHANGED <<disk, undo>> /\ entries' \in ScansOf(disk)
      BY <1>1 DEF Scan
    <2> QED BY <1>0, <1>a, <1>b, <2>1, ScansAreOK
  <1>2. ASSUME NEW id \in Ids, NEW v \in Versions, Install(id, v)
        PROVE  NoneStaleBut(StaleIds)
    <2>1. PICK o \in InstallOutcomes(disk, entries, id, v) :
            disk' = o[1] /\ entries' = o[2]
      BY <1>2 DEF Install
    <2>2. /\ DiskOK(disk') /\ ListOK(disk', entries', StaleIds)
          /\ \A i \in Ids : \A e \in Depths(i) :
               i # id \/ e # 0 => disk'[i][e] = disk[i][e]
      BY <1>0, <2>1, InstallIsOK
    <2>3. undo' \in [Ids -> Contents \cup {Unmarked}] /\ UndoInv'
      BY <1>2, <2>2, TouchedUndo DEF Install
    <2> QED BY <1>a, <2>2, <2>3
  <1>3. ASSUME NEW id \in Ids, Uninstall(id)
        PROVE  NoneStaleBut(StaleIds)
    <2>1. /\ entries[id] # <<>>
          /\ disk' = Put(disk, id, entries[id][1].depth, Missing)
          /\ entries' = [entries EXCEPT ![id] = Tail(@)]
      BY <1>3 DEF Uninstall, Listing, Source
    <2>2. DiskOK(disk') /\ ListOK(disk', entries', StaleIds)
      BY <1>0, <2>1, RemovalIsOK
    <2>3. entries[id][1].depth \in Depths(id)
      BY <1>0, <2>1, FirstEntry
    <2>4. \A i \in Ids \ {id} : 1 \in Depths(i) => disk'[i][1] = disk[i][1]
      BY <1>0, <2>1, <2>3, PutOK DEF Contents
    <2>5. undo' \in [Ids -> Contents \cup {Unmarked}] /\ UndoInv'
      BY <1>3, <2>4, TouchedUndo DEF Uninstall
    <2> QED BY <1>a, <2>2, <2>5
  <1>4. ASSUME NEW id \in Ids, NEW enabled \in BOOLEAN, SetEnabled(id, enabled)
        PROVE  NoneStaleBut(StaleIds)
    <2>1. /\ entries[id] # <<>>
          /\ entries' = [entries EXCEPT ![id][1].enabled = enabled]
          /\ UNCHANGED <<disk, undo>>
      BY <1>4 DEF SetEnabled, Listing
    <2>2. entries[id] \in Seq(Entries(id)) /\ 1 \in DOMAIN entries[id]
          /\ entries[id][1] \in Entries(id)
      BY <1>0, <2>1 DEF ListOK
    <2> DEFINE s == [entries[id] EXCEPT ![1].enabled = enabled]
    <2>3. /\ s \in Seq(Entries(id)) /\ DOMAIN s = DOMAIN entries[id]
          /\ \A n \in DOMAIN s : s[n].depth = entries[id][n].depth
      <3>1. [entries[id][1] EXCEPT !.enabled = enabled] \in Entries(id)
            /\ [entries[id][1] EXCEPT !.enabled = enabled].depth = entries[id][1].depth
        BY <2>2 DEF Entries
      <3>2. s = [entries[id] EXCEPT ![1] = [entries[id][1] EXCEPT !.enabled = enabled]]
        BY <2>2
      <3> QED BY <2>2, <3>1, <3>2
    <2>4. /\ entries' = [i \in Ids |-> entries'[i]]
          /\ \A i \in Ids : entries'[i] = IF i = id THEN s ELSE entries[i]
      BY <1>0, <2>1 DEF ListOK
    <2> HIDE DEF s
    <2>5. ListOK(disk', entries', StaleIds)
      <3>1. ASSUME NEW i \in Ids
            PROVE  /\ entries'[i] \in Seq(Entries(i))
                   /\ DOMAIN entries'[i] = DOMAIN entries[i]
                   /\ \A n \in DOMAIN entries[i] :
                        entries'[i][n].depth = entries[i][n].depth
        BY <1>0, <2>3, <2>4 DEF ListOK
      <3>2. ASSUME NEW i \in Ids, NEW m \in DOMAIN entries'[i], NEW n \in DOMAIN entries'[i]
            PROVE  /\ entries'[i][m].depth = entries'[i][n].depth => m = n
                   /\ entries'[i][m].depth = 0 => i \in StaleIds \/ disk'[i][0] # Missing
        <4>1. /\ m \in DOMAIN entries[i] /\ n \in DOMAIN entries[i]
              /\ entries'[i][m].depth = entries[i][m].depth
              /\ entries'[i][n].depth = entries[i][n].depth
          BY <3>1
        <4>2. /\ entries[i][m].depth = entries[i][n].depth => m = n
              /\ entries[i][m].depth = 0 => i \in StaleIds \/ disk[i][0] # Missing
          BY <1>0, <4>1 DEF ListOK
        <4> QED BY <2>1, <4>1, <4>2
      <3> QED BY <2>4, <3>1, <3>2 DEF ListOK
    <2> QED BY <1>a, <1>b, <2>1, <2>5
  <1>5. ASSUME NEW id \in Ids, UninstallThrows(id)
        PROVE  NoneStaleBut(StaleIds)
    <2> DEFINE d == entries[id][1].depth
    <2>1. /\ entries[id] # <<>> /\ entries' = entries
          /\ \E c \in Remains(disk[id][d]) : disk' = Put(disk, id, d, c)
      BY <1>5 DEF UninstallThrows, Listing, Source
    <2>2. d \in Depths(id)
      BY <1>0, <2>1, FirstEntry
    <2> HIDE DEF d
    <2>3. PICK c \in Remains(disk[id][d]) : disk' = Put(disk, id, d, c)
      BY <2>1
    <2>4. c \in Contents /\ (c = Missing => disk[id][d] = Missing)
      <3>1. disk[id][d] \in Contents
        BY <1>0, <2>2 DEF DiskOK
      <3> QED BY <2>3, <3>1, RemainsOK
    <2>5. DiskOK(disk') /\ ListOK(disk', entries', StaleIds)
      BY <1>0, <2>1, <2>2, <2>3, <2>4, ChangeIsOK
    <2>6. \A i \in Ids \ {id} : 1 \in Depths(i) => disk'[i][1] = disk[i][1]
      BY <1>0, <2>2, <2>3, <2>4, PutOK
    <2>7. undo' \in [Ids -> Contents \cup {Unmarked}] /\ UndoInv'
      BY <1>5, <2>6, TouchedUndo DEF UninstallThrows
    <2> QED BY <1>a, <2>5, <2>7
  <1>6. CASE Restart
    <2>1. UNCHANGED <<disk, undo>> /\ entries' = [id \in Ids |-> <<>>]
      BY <1>6 DEF Restart
    <2>2. \A id \in Ids : entries'[id] \in Seq(Entries(id)) /\ DOMAIN entries'[id] = {}
      BY <2>1, EmptyIsAList
    <2>3. ListOK(disk', entries', StaleIds)
      BY <2>1, <2>2 DEF ListOK
    <2> QED BY <1>a, <1>b, <2>1, <2>3
  <1> QED BY <1>1, <1>2, <1>3, <1>4, <1>5, <1>6

\* Every step keeps the invariant, and only a rollback that throws makes a
\* plugin stale.
LEMMA StoreStep ==
  ASSUME StoreInv, [Next]_vars
  PROVE  /\ StoreInv'
         /\ \A id \in Ids : Stale(id)' => Stale(id) \/ last' = <<"rollback throws", id>>
  <1>0. NoneStaleBut(StaleIds) =>
          StoreInv' /\ \A id \in Ids : Stale(id)' => Stale(id)
    BY DEF NoneStaleBut, StaleIds
  <1>1. CASE UNCHANGED vars
    BY <1>1 DEF vars, StoreInv, TypeOK, ShapeOK, ListedOnce, UndoInv, Stale
  <1>2. CASE \/ Restart
             \/ Scan
             \/ \E id \in Ids : \/ \E v \in Versions : Install(id, v)
                                \/ Uninstall(id)
                                \/ UninstallThrows(id)
                                \/ \E enabled \in BOOLEAN : SetEnabled(id, enabled)
    BY <1>0, <1>2, OthersKeep
  <1>3. ASSUME NEW id \in Ids,
               \/ \E to \in Ids, v \in Versions : Upgrade(id, to, v)
               \/ UpgradeThrows(id)
               \/ UpgradeUninstallThrows(id)
        PROVE  NoneStaleBut(StaleIds)
    BY <1>3, UpgradeKeeps, UpgradeThrowsKeeps, UpgradeUninstallThrowsKeeps
  <1>4. ASSUME NEW id \in Ids, Rollback(id)
        PROVE  StoreInv' /\ \A i \in Ids : ~Stale(i)'
    BY <1>4, RollbackKeeps DEF NoneStaleBut
  <1>5. ASSUME NEW id \in Ids, RollbackThrows(id)
        PROVE  /\ StoreInv'
               /\ \A i \in Ids : Stale(i)' => Stale(i) \/ last' = <<"rollback throws", i>>
    <2>1. NoneStaleBut(StaleIds \cup {id})
      BY <1>5, RollbackThrowsKeeps
    <2>2. last' = <<"rollback throws", id>>
      BY <1>5 DEF RollbackThrows, Did
    <2> QED BY <2>1, <2>2 DEF NoneStaleBut, StaleIds
  <1> QED BY <1>0, <1>1, <1>2, <1>3, <1>4, <1>5 DEF Next

LEMMA StoreInvHolds == Spec => []StoreInv
  <1>1. StoreInv /\ [Next]_vars => StoreInv'
    BY StoreStep
  <1> QED BY <1>1, StoreInitially, PTL DEF Spec

-----------------------------------------------------------------------------
(* The theorems. *)

\* The directories and the list of every plugin keep their types through any
\* sequence of scans, installs, upgrades, rollbacks and restarts.
THEOREM StoreTypes == Spec => []TypeOK
  BY StoreInvHolds, PTL DEF StoreInv

\* scan(), uninstall(), set_enabled(), upgrade() and rollback(), however they
\* end, keep the list free of duplicates, and only a rollback() that throws
\* leaves an entry of store/<id> whose directory is gone.
THEOREM ListedPluginsAreThere == Spec => EntriesAreDirectories
  <1> DEFINE Listed1 == \A id \in Ids :
               /\ ListedOnce(id)'
               /\ Stale(id)' => Stale(id) \/ last' = <<"rollback throws", id>>
  <1>1. StoreInv /\ [Next]_vars => [Listed1]_vars
    <2>1. StoreInv' => \A id \in Ids : ListedOnce(id)'
      BY DEF StoreInv
    <2> QED BY <2>1, StoreStep
  <1> QED BY <1>1, StoreInvHolds, PTL DEF Spec, EntriesAreDirectories

\* Which operation a step is, from what it says of itself.
LEMMA WhichStep ==
  ASSUME Next, NEW id \in Ids
  PROVE  /\ last' = <<"upgrade", id>> =>
              \/ \E to \in Ids, v \in Versions : Upgrade(id, to, v)
              \/ UpgradeThrows(id)
              \/ UpgradeUninstallThrows(id)
         /\ last' = <<"rollback", id>> => Rollback(id)
         /\ last' = <<"rollback throws", id>> => RollbackThrows(id)
  <1> DEFINE Upgrades(i) == \/ \E to \in Ids, v \in Versions : Upgrade(i, to, v)
                            \/ UpgradeThrows(i)
                            \/ UpgradeUninstallThrows(i)
  <1>0. /\ last' = <<"upgrade", id>> => last'[1] = "upgrade" /\ last'[2] = id
        /\ last' = <<"rollback", id>> => last'[1] = "rollback" /\ last'[2] = id
        /\ last' = <<"rollback throws", id>> =>
             last'[1] = "rollback throws" /\ last'[2] = id
    <2>1. \A op : <<op, id>>[1] = op /\ <<op, id>>[2] = id
      OBVIOUS
    <2>2. last' = <<"upgrade", id>> => last'[1] = "upgrade" /\ last'[2] = id
      BY <2>1, Zenon
    <2>3. last' = <<"rollback", id>> => last'[1] = "rollback" /\ last'[2] = id
      BY <2>1, Zenon
    <2>4. last' = <<"rollback throws", id>> =>
            last'[1] = "rollback throws" /\ last'[2] = id
      BY <2>1, Zenon
    <2> QED BY <2>2, <2>3, <2>4
  <1>1. CASE Restart \/ Scan
    <2>1. last'[1] \in {"restart", "scan"}
      BY <1>1 DEF Restart, Scan
    <2> QED BY <1>0, <2>1
  <1>2. ASSUME NEW i \in Ids,
               \/ \E v \in Versions : Install(i, v)
               \/ Uninstall(i) \/ UninstallThrows(i)
               \/ \E enabled \in BOOLEAN : SetEnabled(i, enabled)
        PROVE  last'[1] \in {"install", "uninstall", "set_enabled"}
    BY <1>2 DEF Install, Uninstall, UninstallThrows, SetEnabled, Did
  <1>3. ASSUME NEW i \in Ids, Upgrades(i)
        PROVE  last'[1] = "upgrade" /\ last'[2] = i
    BY <1>3 DEF Upgrade, UpgradeThrows, UpgradeUninstallThrows, Did
  <1>4. ASSUME NEW i \in Ids, Rollback(i)
        PROVE  last'[1] = "rollback" /\ last'[2] = i
    BY <1>4 DEF Rollback, Did
  <1>5. ASSUME NEW i \in Ids, RollbackThrows(i)
        PROVE  last'[1] = "rollback throws" /\ last'[2] = i
    BY <1>5 DEF RollbackThrows, Did
  <1>6. \/ Restart \/ Scan
        \/ \E i \in Ids : \/ \E v \in Versions : Install(i, v)
                          \/ Uninstall(i) \/ UninstallThrows(i)
                          \/ \E enabled \in BOOLEAN : SetEnabled(i, enabled)
        \/ \E i \in Ids : Upgrades(i)
        \/ \E i \in Ids : Rollback(i)
        \/ \E i \in Ids : RollbackThrows(i)
    BY DEF Next
  <1> HIDE DEF Upgrades
  <1>7. CASE \E i \in Ids : \/ \E v \in Versions : Install(i, v)
                            \/ Uninstall(i) \/ UninstallThrows(i)
                            \/ \E enabled \in BOOLEAN : SetEnabled(i, enabled)
    BY <1>0, <1>2, <1>7
  <1>8. CASE \E i \in Ids : Upgrades(i)
    <2>1. PICK i \in Ids : Upgrades(i)
      BY <1>8
    <2>2. last'[1] = "upgrade" /\ last'[2] = i
      BY <1>3, <2>1
    <2> QED BY <1>0, <2>1, <2>2 DEF Upgrades
  <1>9. CASE \E i \in Ids : Rollback(i)
    BY <1>0, <1>4, <1>9
  <1>10. CASE \E i \in Ids : RollbackThrows(i)
    BY <1>0, <1>5, <1>10
  <1> QED BY <1>1, <1>6, <1>7, <1>8, <1>9, <1>10

\* Whatever an upgrade() meets (a package that another plugin's id makes
\* install() refuse, a deletion or a copy that throws before or after the old
\* directory is gone) the version it started from is still in the store.
THEOREM UpgradesKeepTheOldVersion == Spec => UpgradeLosesNothing
  <1> DEFINE Kept == \A id \in Ids :
               last' = <<"upgrade", id>> =>
                 disk[id][Source(id)] \in {disk'[id][Source(id)], disk'[id][Source(id) + 1]}
  <1>1. ASSUME StoreInv, Next, NEW id \in Ids, last' = <<"upgrade", id>>
        PROVE  disk[id][Source(id)] \in {disk'[id][Source(id)], disk'[id][Source(id) + 1]}
    BY <1>1, WhichStep, UpgradeKeeps, UpgradeThrowsKeeps, UpgradeUninstallThrowsKeeps
  <1>2. StoreInv /\ [Next]_vars => [Kept]_vars
    BY <1>1
  <1> QED BY <1>2, StoreInvHolds, PTL DEF Spec, UpgradeLosesNothing

\* rollback() after an upgrade() of the plugin, with whatever happened to the
\* other plugins in between, and after any number of rollbacks that threw and
\* restarts, brings back what store/<id> held before the upgrade.
THEOREM RollbackRestores == Spec => RollbackUndoesUpgrade
  <1> DEFINE Undone == \A id \in Ids :
               last' = <<"rollback", id>> /\ undo[id] # Unmarked => disk'[id][0] = undo[id]
  <1>1. ASSUME StoreInv, Next, NEW id \in Ids,
               last' = <<"rollback", id>>, undo[id] # Unmarked
        PROVE  disk'[id][0] = undo[id]
    <2>1. disk'[id][0] = disk[id][1]
      BY <1>1, WhichStep, RollbackKeeps
    <2> QED BY <1>1, <2>1 DEF StoreInv, UndoInv
  <1>2. StoreInv /\ [Next]_vars => [Undone]_vars
    BY <1>1
  <1> QED BY <1>2, StoreInvHolds, PTL DEF Spec, RollbackUndoesUpgrade

\* rollback() deletes before it moves; wherever it is broken off, the backed-up
\* version is where it was or where it belongs.
THEOREM RollbacksKeepTheBackup == Spec => RollbackLosesNothing
  <1> DEFINE Kept == \A id \in Ids :
               last' \in {<<"rollback", id>>, <<"rollback throws", id>>} =>
                 disk[id][1] \in {disk'[id][0], disk'[id][1]}
  <1>1. ASSUME StoreInv, Next, NEW id \in Ids,
               last' \in {<<"rollback", id>>, <<"rollback throws", id>>}
        PROVE  disk[id][1] \in {disk'[id][0], disk'[id][1]}
    BY <1>1, WhichStep, RollbackKeeps, RollbackThrowsKeeps
  <1>2. StoreInv /\ [Next]_vars => [Kept]_vars
    BY <1>1
  <1> QED BY <1>2, StoreInvHolds, PTL DEF Spec, RollbackLosesNothing
===============================================================================
