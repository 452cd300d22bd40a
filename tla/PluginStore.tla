----------------------------- MODULE PluginStore -----------------------------
(***************************************************************************)
(* src/store/plugin_manifest.cpp: the store of installed plugins.  A       *)
(* directory per plugin, store/<id>, with the manifest and the library; an *)
(* upgrade keeps the version before it in store/<id>.backup, which later   *)
(* scans list as one more installed plugin of the same id.                 *)
(*                                                                         *)
(* The class has no locks and is called from one thread.  Its copies,      *)
(* deletions and renames use the overloads that throw: an operation ends   *)
(* where one of them fails, leaves what was done by then, and whoever      *)
(* caught the exception goes on with that.  Reading a directory does not   *)
(* fail.                                                                   *)
(***************************************************************************)
EXTENDS Naturals, Sequences, SequencesExt

CONSTANTS
  Ids,       \* plugin ids
  Versions,  \* what tells the packages of an id apart
  Missing,   \* no such directory
  Empty,     \* a directory without a manifest
  Damaged,   \* a directory with a manifest and not all the files
  Unmarked,  \* no upgrade to undo
  MaxDepth,  \* bound on the ".backup" suffixes of an id's directories
  IoFails    \* copies, deletions and renames may fail

ASSUME StoreAssumption ==
  /\ MaxDepth \in [Ids -> Nat]
  /\ IoFails \in BOOLEAN
  /\ Missing \notin Versions \cup {Empty, Damaged}

\* A directory is named by the id and by how often ".backup" follows it.  The
\* manifest in it is one of that id.
Depths(id) == 0..MaxDepth[id]
Contents == Versions \cup {Missing, Empty, Damaged}
Entries(id) == [depth : Depths(id), enabled : BOOLEAN]

\* What a remove_all() of c that throws can leave: the directory is still there.
Remains(c) == IF c \in {Missing, Empty} THEN {c} ELSE {c, Empty, Damaged}

VARIABLES
  disk,     \* disk[id][depth]: the directories of the store
  entries,  \* entries_, as the sequence of the entries of each id
  last,     \* history: the last operation and its plugin
  undo      \* history: what store/<id> held before the upgrade that made
            \* store/<id>.backup of it, while nothing else has touched it

vars == <<disk, entries, last, undo>>

Init ==
  /\ disk = [id \in Ids |-> [d \in Depths(id) |-> Missing]]
  /\ entries = [id \in Ids |-> <<>>]
  /\ last = <<"none">>
  /\ undo = [id \in Ids |-> Unmarked]

Put(dk, id, d, c) == [dk EXCEPT ![id][d] = c]

\* scan(): every directory with a manifest, in the order the directory is
\* read, all of them enabled.
Listed(dk, id) == {d \in Depths(id) : dk[id][d] \notin {Missing, Empty}}
Orders(dk, id) == {[n \in DOMAIN s |-> [depth |-> s[n], enabled |-> TRUE]] :
                     s \in SetToSeqs(Listed(dk, id))}
ScansOf(dk) == {es \in [Ids -> UNION {Orders(dk, id) : id \in Ids}] :
                  \A id \in Ids : es[id] \in Orders(dk, id)}

-----------------------------------------------------------------------------
(* install() from the state <<dk, es>> that an operation has reached: the     *)
(* set of the states it can end in.                                           *)

\* Not in the list, and create_directories() makes the directory.
Accepts(dk, es, id) == es[id] = <<>> /\ dk[id][0] = Missing

\* Mutant: the manifest's fields are taken for one another.
InstallOutcomesSwapped(dk, es, id, v) ==
  IF ~Accepts(dk, es, id) THEN {<<dk, es>>}
  ELSE {<<Put(dk, id, 0, id), s>> : s \in ScansOf(Put(dk, id, 0, id))}

\* Nothing is done when load_manifest() fails or the plugin is not accepted.
InstallOutcomes(dk, es, id, v) ==
  {<<dk, es>>}
  \cup (IF Accepts(dk, es, id)
        THEN {<<Put(dk, id, 0, v), s>> : s \in ScansOf(Put(dk, id, 0, v))} ELSE {})
  \cup (IF Accepts(dk, es, id) /\ IoFails
        THEN {<<Put(dk, id, 0, c), es>> : c \in {Empty, Damaged}} ELSE {})

-----------------------------------------------------------------------------
(* The operations. *)

Touched(id) == undo' = [undo EXCEPT ![id] = Unmarked]
Did(op, id) == last' = <<op, id>>

Install(id, v) ==
  /\ Accepts(disk, entries, id)
  /\ \E o \in InstallOutcomes(disk, entries, id, v) :
       disk' = o[1] /\ entries' = o[2]
  /\ Did("install", id)
  /\ Touched(id)

\* Mutant: the list is built anew on top of the old one.
ScanAppends ==
  /\ \E es \in ScansOf(disk) : entries' = [id \in Ids |-> entries[id] \o es[id]]
  /\ last' = <<"scan">>
  /\ UNCHANGED <<disk, undo>>

Scan ==
  /\ entries' \in ScansOf(disk)
  /\ last' = <<"scan">>
  /\ UNCHANGED <<disk, undo>>

\* uninstall(), set_enabled() and upgrade() take the first entry of the id.
Listing(id) == entries[id] # <<>>
Source(id) == entries[id][1].depth

Uninstall(id) ==
  /\ Listing(id)
  /\ disk' = Put(disk, id, Source(id), Missing)
  /\ entries' = [entries EXCEPT ![id] = Tail(@)]
  /\ Did("uninstall", id)
  /\ Touched(id)

\* The exception comes before the entry is erased.
UninstallThrows(id) ==
  /\ IoFails /\ Listing(id)
  /\ \E c \in Remains(disk[id][Source(id)]) : disk' = Put(disk, id, Source(id), c)
  /\ Did("uninstall", id)
  /\ Touched(id)
  /\ UNCHANGED entries

SetEnabled(id, enabled) ==
  /\ Listing(id)
  /\ entries' = [entries EXCEPT ![id][1].enabled = enabled]
  /\ Did("set_enabled", id)
  /\ UNCHANGED <<disk, undo>>

Upgradable(id) == Listing(id) /\ Source(id) < MaxDepth[id]

\* Mutant: a backup that exists is kept.
BackedUpOnce(id) ==
  IF disk[id][Source(id) + 1] # Missing THEN disk
  ELSE Put(disk, id, Source(id) + 1, disk[id][Source(id)])

\* The old backup goes and the directory is copied.
BackedUp(id) == Put(disk, id, Source(id) + 1, disk[id][Source(id)])

\* An upgrade of store/<id> that has made its backup can be undone.
Undoable(id) == IF Source(id) = 0 THEN disk[id][0] ELSE Unmarked

\* The entry is uninstalled and the package installed, whatever its id and
\* whether or not install() accepts it.
Upgrade(id, to, v) ==
  /\ Upgradable(id)
  /\ disk[id][Source(id)] # Missing
  /\ LET dk == Put(BackedUp(id), id, Source(id), Missing)
         es == [entries EXCEPT ![id] = Tail(@)]
     IN \E o \in InstallOutcomes(dk, es, to, v) : disk' = o[1] /\ entries' = o[2]
  /\ Did("upgrade", id)
  /\ undo' = [undo EXCEPT ![to] = Unmarked,
                          ![id] = Undoable(id)]

\* The backup is made, and the uninstall() of the entry throws.
UpgradeUninstallThrows(id) ==
  /\ IoFails /\ Upgradable(id)
  /\ disk[id][Source(id)] # Missing
  /\ \E c \in Remains(disk[id][Source(id)]) :
       disk' = Put(BackedUp(id), id, Source(id), c)
  /\ Did("upgrade", id)
  /\ undo' = [undo EXCEPT ![id] = Undoable(id)]
  /\ UNCHANGED entries

\* What becomes of the backup b when removing it or copying c to it throws: the
\* copy may be broken off at any point, and there may be nothing to copy.
BrokenBackups(b, c) ==
  (IF IoFails THEN Remains(b) \cup {Missing} ELSE {})
  \cup (IF IoFails /\ c # Missing THEN {Empty, Damaged} ELSE {})
  \cup (IF c = Missing THEN {Missing} ELSE {})

\* The exception leaves the entry and its directory in place.
UpgradeThrows(id) ==
  /\ Upgradable(id)
  /\ \E c \in BrokenBackups(disk[id][Source(id) + 1], disk[id][Source(id)]) :
       disk' = Put(disk, id, Source(id) + 1, c)
  /\ Did("upgrade", id)
  /\ Touched(id)
  /\ UNCHANGED entries

HasBackup(id) == 1 \in Depths(id) /\ disk[id][1] # Missing

\* Mutant: a plugin that is there is not removed first.
RollbackBeside(id) ==
  /\ HasBackup(id)
  /\ disk' = Put(IF disk[id][0] = Missing THEN Put(disk, id, 0, disk[id][1]) ELSE disk,
                 id, 1, Missing)
  /\ entries' \in ScansOf(disk')
  /\ Did("rollback", id)
  /\ Touched(id)

\* rollback(): false when there is no store/<id>.backup.
Rollback(id) ==
  /\ HasBackup(id)
  /\ disk' = Put(Put(disk, id, 0, disk[id][1]), id, 1, Missing)
  /\ entries' \in ScansOf(disk')
  /\ Did("rollback", id)
  /\ Touched(id)

\* Mutant: the backup is moved in before what is installed is deleted.
RollbackThrowsMovedIn(id) ==
  /\ IoFails /\ HasBackup(id)
  /\ \E c \in Remains(disk[id][1]) \cup {Missing} :
       disk' = Put(Put(disk, id, 0, c), id, 1, Missing)
  /\ Did("rollback throws", id)
  /\ UNCHANGED <<entries, undo>>

\* The deletion of what is installed throws, or it succeeds and the rename
\* throws: either way the backup stays and scan() is not reached.
RollbackThrows(id) ==
  /\ IoFails /\ HasBackup(id)
  /\ \E c \in Remains(disk[id][0]) \cup {Missing} : disk' = Put(disk, id, 0, c)
  /\ Did("rollback throws", id)
  /\ UNCHANGED <<entries, undo>>

\* The process ends or is killed and a new one starts: a new PluginStore over
\* the old directories.  What a kill leaves of an operation is what one of the
\* operations that throw leaves, or the whole of it.
Restart ==
  /\ entries' = [id \in Ids |-> <<>>]
  /\ last' = <<"restart">>
  /\ UNCHANGED <<disk, undo>>

Next ==
  \/ Restart
  \/ Scan
  \/ \E id \in Ids :
       \/ \E v \in Versions : Install(id, v)
       \/ Uninstall(id) \/ UninstallThrows(id)
       \/ \E enabled \in BOOLEAN : SetEnabled(id, enabled)
       \/ \E to \in Ids, v \in Versions : Upgrade(id, to, v)
       \/ UpgradeThrows(id) \/ UpgradeUninstallThrows(id)
       \/ Rollback(id) \/ RollbackThrows(id)

Spec == Init /\ [][Next]_vars
-----------------------------------------------------------------------------
(* Correctness. *)

TypeOK ==
  /\ \A id \in Ids : disk[id] \in [Depths(id) -> Contents]
  /\ \A id \in Ids : entries[id] \in Seq(Entries(id))
  /\ undo \in [Ids -> Contents \cup {Unmarked}]

\* An upgrade, however it ends, leaves the version it started from on disk:
\* where it was or in its backup.
UpgradeLosesNothing ==
  [][\A id \in Ids :
       last' = <<"upgrade", id>> =>
         disk[id][Source(id)] \in {disk'[id][Source(id)], disk'[id][Source(id) + 1]}]_vars

\* The first rollback after an upgrade that is not broken off itself takes the
\* plugin back to what it was before, whether or not the new version could be
\* installed and however many rollbacks and processes have ended in between.
RollbackUndoesUpgrade ==
  [][\A id \in Ids :
       last' = <<"rollback", id>> /\ undo[id] # Unmarked => disk'[id][0] = undo[id]]_vars

\* A rollback, whichever of its steps it ends at, leaves what the backup held:
\* there or in the plugin's place.
RollbackLosesNothing ==
  [][\A id \in Ids :
       last' \in {<<"rollback", id>>, <<"rollback throws", id>>} =>
         disk[id][1] \in {disk'[id][0], disk'[id][1]}]_vars

ListedOnce(id) ==
  \A m, n \in DOMAIN entries[id] : entries[id][m].depth = entries[id][n].depth => m = n

\* store/<id> is listed and not there.
Stale(id) == disk[id][0] = Missing /\ \E n \in DOMAIN entries[id] : entries[id][n].depth = 0

\* The list names each directory of an id once, and nothing but a rollback that
\* throws makes it name a store/<id> that is not there.
EntriesAreDirectories ==
  [][\A id \in Ids : /\ ListedOnce(id)'
                     /\ Stale(id)' => Stale(id) \/ last' = <<"rollback throws", id>>]_vars
=============================================================================
