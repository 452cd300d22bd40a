------------------------------ MODULE SaveStore ------------------------------
(***************************************************************************)
(* src/services/save_store.cpp: a plugin's values on disk.  put() writes   *)
(* key.tmp, syncs it, renames it over key.bin and appends to journal.log;  *)
(* the process can die between any two of these, and the power can fail.   *)
(* Plugins run on the main thread only, so one put is under way at a time; *)
(* key.tmp is then the file of that put, as put() truncates what an        *)
(* earlier one left behind.                                                *)
(***************************************************************************)
EXTENDS Naturals

CONSTANTS
  Keys,
  Values,
  NoFile,
  Torn,        \* the content of a file that is not a whole value
  NoPut,
  SyncsFiles,  \* fsync reaches the disk: POSIX; on Windows it does nothing
  DiskFills    \* a write may fall short

ASSUME SaveAssumption ==
  /\ NoFile \notin Values
  /\ Torn \notin Values \cup {NoFile}
  /\ SyncsFiles \in BOOLEAN
  /\ DiskFills \in BOOLEAN

Contents == Values \cup {Torn}
Files == [data : Contents, synced : BOOLEAN]
PutSteps == {"write", "sync", "rename", "journal"}
Puts == [key : Keys, value : Values, at : PutSteps, tmp : Files]

ASSUME NamesAssumption == NoFile \notin Files /\ NoPut \notin Puts

VARIABLES
  put,       \* the put under way, with key.tmp
  bin,       \* the key.bin files
  durable,   \* the files the directory on disk names as key.bin
  journal,   \* the keys of the lines in journal.log
  held,      \* history: the contents each key.bin has had
  readable,  \* history: what a plugin that puts and gets may expect to read
  power_lost \* history: the power has failed at least once

fileVars == <<bin, durable, journal>>
historyVars == <<held, readable, power_lost>>
vars == <<put, fileVars, historyVars>>

Data(f) == IF f = NoFile THEN NoFile ELSE f.data

\* save::get: -1 when there is no file, else what is in it.
Get(k) == Data(bin[k])

Init ==
  /\ put = NoPut
  /\ bin = [k \in Keys |-> NoFile]
  /\ durable = bin
  /\ journal = {}
  /\ held = [k \in Keys |-> {NoFile}]
  /\ readable = held
  /\ power_lost = FALSE

At(s) == put # NoPut /\ put.at = s

\* An empty value, a directory that cannot be made or a file that cannot be
\* opened is refused and leaves everything as it is.
OpenTmp(k, v) ==
  /\ put = NoPut
  /\ put' = [key |-> k, value |-> v, at |-> "write",
             tmp |-> [data |-> Torn, synced |-> FALSE]]
  /\ readable' = [readable EXCEPT ![k] = @ \cup {v}]
  /\ UNCHANGED <<fileVars, held, power_lost>>

\* Nobody looks at what became of the write.
WriteTmp ==
  /\ At("write")
  /\ \E d \in {put.value} \cup (IF DiskFills THEN {Torn} ELSE {}) :
       put' = [put EXCEPT !.at = "sync", !.tmp.data = d]
  /\ UNCHANGED <<fileVars, historyVars>>

\* Mutant: no fsync before the rename.
SyncTmpNever ==
  /\ At("sync")
  /\ put' = [put EXCEPT !.at = "rename"]
  /\ UNCHANGED <<fileVars, historyVars>>

SyncTmp ==
  /\ At("sync")
  /\ put' = [put EXCEPT !.at = "rename", !.tmp.synced = SyncsFiles]
  /\ UNCHANGED <<fileVars, historyVars>>

Rename ==
  /\ At("rename")
  /\ bin' = [bin EXCEPT ![put.key] = put.tmp]
  /\ held' = [held EXCEPT ![put.key] = @ \cup {put.tmp.data}]
  /\ put' = [put EXCEPT !.at = "journal"]
  /\ UNCHANGED <<durable, journal, readable, power_lost>>

\* Mutant: nobody looks at what became of the rename.
RenameFailsUnnoticed ==
  /\ At("rename")
  /\ put' = [put EXCEPT !.at = "journal"]
  /\ UNCHANGED <<fileVars, historyVars>>

\* put() returns false, with key.bin as it was.
RenameFails ==
  /\ At("rename")
  /\ put' = NoPut
  /\ readable' = [readable EXCEPT ![put.key] =
                    IF put.value = Get(put.key) THEN @ ELSE @ \ {put.value}]
  /\ UNCHANGED <<fileVars, held, power_lost>>

\* Mutant: put() does not return.
JournalGoesOn ==
  /\ At("journal")
  /\ journal' = journal \cup {put.key}
  /\ put' = [put EXCEPT !.at = "close"]
  /\ UNCHANGED <<bin, durable, historyVars>>

\* put() returns true, whether or not the journal could be written.
Journal ==
  /\ At("journal")
  /\ \/ journal' = journal \cup {put.key}
     \/ UNCHANGED journal
  /\ readable' = [readable EXCEPT ![put.key] = {put.value}]
  /\ put' = NoPut
  /\ UNCHANGED <<bin, durable, held, power_lost>>

-----------------------------------------------------------------------------
(* The machine. *)

\* The file system writes a directory entry to the disk when it likes: put()
\* does not sync the directory.
WriteBack(k) ==
  /\ durable[k] # bin[k]
  /\ durable' = [durable EXCEPT ![k] = bin[k]]
  /\ UNCHANGED <<put, bin, journal, historyVars>>

\* The host dies and starts again; the files are as they were.
Crash ==
  /\ put # NoPut
  /\ put' = NoPut
  /\ UNCHANGED <<fileVars, historyVars>>

\* What the disk has is all there is; data nobody synced may be gone.
PowerLoss ==
  /\ bin' \in {b \in [Keys -> {NoFile} \cup Files] :
                 \A k \in Keys :
                   \/ b[k] = durable[k]
                   \/ /\ durable[k] # NoFile
                      /\ ~durable[k].synced
                      /\ b[k] = [durable[k] EXCEPT !.data = Torn]}
  /\ durable' = bin'
  /\ put' = NoPut
  /\ journal' \in SUBSET journal
  /\ readable' = held
  /\ power_lost' = TRUE
  /\ UNCHANGED held

Next ==
  \/ \E k \in Keys, v \in Values : OpenTmp(k, v)
  \/ WriteTmp \/ SyncTmp \/ Rename \/ RenameFails \/ Journal
  \/ \E k \in Keys : WriteBack(k)
  \/ Crash \/ PowerLoss

Spec == Init /\ [][Next]_vars
-----------------------------------------------------------------------------
(* Correctness. *)

TypeOK ==
  /\ put \in Puts \cup {NoPut}
  /\ bin \in [Keys -> Files \cup {NoFile}]
  /\ durable \in [Keys -> Files \cup {NoFile}]
  /\ journal \in SUBSET Keys
  /\ held \in [Keys -> SUBSET (Contents \cup {NoFile})]
  /\ readable \in [Keys -> SUBSET (Contents \cup {NoFile})]
  /\ power_lost \in BOOLEAN

\* Between power failures a key reads as the last value whose put returned
\* true, or as one whose put was cut off by a crash or is still under way:
\* never as an older value, and a put that returned false changed nothing.
ReadsAreCurrent == \A k \in Keys : Get(k) \in readable[k]

\* Until the power fails, a key in the journal is a key with a file.
JournalTrails == ~power_lost => \A k \in journal : bin[k] # NoFile

\* Through crashes and power failures every key holds nothing or a whole
\* value: put() replaces the file in one step.
Saves == INSTANCE AtomicSaves WITH store <- [k \in Keys |-> Get(k)], past <- held
PutIsAtomic == Saves!Spec
=============================================================================
