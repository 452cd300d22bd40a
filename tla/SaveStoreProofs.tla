--------------------------- MODULE SaveStoreProofs ---------------------------
(***************************************************************************)
(* What put() and get() guarantee for all keys and values, however often   *)
(* the process dies and the power fails, where fsync does what it says and *)
(* no write falls short.                                                   *)
(***************************************************************************)
EXTENDS SaveStore, TLAPS

USE SaveAssumption, NamesAssumption

-----------------------------------------------------------------------------
(* What holds on any disk. *)

RenamedInv == At("journal") => bin[put.key] # NoFile

Base == TypeOK /\ RenamedInv /\ JournalTrails

LEMMA BaseInit == Init => Base
  BY DEF Init, Base, TypeOK, RenamedInv, JournalTrails, At

LEMMA BaseStep ==
  ASSUME Base, [Next]_vars
  PROVE  Base'
<1>. USE DEF Base, TypeOK, RenamedInv, JournalTrails, Get, Data, Contents,
             Files, Puts, PutSteps, At, fileVars, historyVars
<1>1. ASSUME NEW k \in Keys, NEW v \in Values, OpenTmp(k, v)
      PROVE  Base'
  BY <1>1 DEF OpenTmp
<1>2. CASE WriteTmp
  <2>1. put \in Puts /\ put.at = "write" /\ put # NoPut
    BY <1>2 DEF WriteTmp
  <2>2. PICK d \in Contents : put' = [put EXCEPT !.at = "sync", !.tmp.data = d]
    BY <1>2, <2>1 DEF WriteTmp
  <2>3. put' = [key |-> put.key, value |-> put.value, at |-> "sync",
                tmp |-> [data |-> d, synced |-> put.tmp.synced]]
    BY <2>1, <2>2
  <2>4. put' \in Puts
    BY <2>1, <2>3
  <2>. QED  BY <1>2, <2>1, <2>3, <2>4 DEF WriteTmp
<1>3. CASE SyncTmp
  BY <1>3 DEF SyncTmp
<1>4. CASE Rename
  BY <1>4 DEF Rename
<1>5. CASE RenameFails
  BY <1>5 DEF RenameFails
<1>6. CASE Journal
  BY <1>6 DEF Journal
<1>7. ASSUME NEW k \in Keys, WriteBack(k)
      PROVE  Base'
  BY <1>7 DEF WriteBack
<1>8. CASE Crash
  BY <1>8 DEF Crash
<1>9. CASE PowerLoss
  BY <1>9 DEF PowerLoss
<1>10. CASE UNCHANGED vars
  BY <1>10 DEF vars
<1>. QED  BY <1>1, <1>2, <1>3, <1>4, <1>5, <1>6, <1>7, <1>8, <1>9, <1>10 DEF Next

LEMMA BaseHolds == Spec => []Base
<1>1. Init => Base
  BY BaseInit
<1>2. Base /\ [Next]_vars => Base'
  BY BaseStep
<1>. QED  BY <1>1, <1>2, PTL DEF Spec

\* save_store.cpp as a whole: every variable keeps its type.
THEOREM SavesTypeCorrect == Spec => []TypeOK
<1>1. Base => TypeOK
  BY DEF Base
<1>. QED  BY <1>1, BaseHolds, PTL

\* journal.log is appended to after the rename: until the power fails it names
\* no key without a file.
THEOREM JournalIsBehind == Spec => []JournalTrails
<1>1. Base => JournalTrails
  BY DEF Base
<1>. QED  BY <1>1, BaseHolds, PTL

-----------------------------------------------------------------------------
(* What holds where fsync does what it says and no write falls short. *)

\* A file anyone can read is a whole value that is on disk, and one its key
\* has held.
GoodFile(k, f) == f # NoFile => f.data \in Values /\ f.synced /\ f.data \in held[k]

FilesInv == \A k \in Keys : GoodFile(k, bin[k]) /\ GoodFile(k, durable[k])

\* The put under way has in key.tmp what its step says it has, and its value
\* may be read from now on.
PutInv ==
  put # NoPut =>
    /\ put.at \in {"sync", "rename", "journal"} => put.tmp.data = put.value
    /\ put.at \in {"rename", "journal"} => put.tmp.synced
    /\ put.at = "journal" => bin[put.key] # NoFile /\ Get(put.key) = put.value
    /\ put.value \in readable[put.key]

\* Every key has been nothing at all once.
HeldInv == \A k \in Keys : NoFile \in held[k]

Inv == Base /\ FilesInv /\ PutInv /\ HeldInv /\ ReadsAreCurrent

LEMMA InvInit == Init => Inv
  BY BaseInit DEF Init, Inv, FilesInv, GoodFile, PutInv, HeldInv,
                  ReadsAreCurrent, Get, Data

LEMMA InvStep ==
  ASSUME SyncsFiles, ~DiskFills, Inv, [Next]_vars
  PROVE  Inv'
<1>. USE DEF FilesInv, GoodFile, PutInv, HeldInv, ReadsAreCurrent, Get, Data,
             At, fileVars, historyVars
<1>. DEFINE Rest == FilesInv /\ PutInv /\ HeldInv /\ ReadsAreCurrent
<1>1. Base' /\ TypeOK /\ TypeOK'
  BY BaseStep DEF Inv, Base
<1>2. Rest /\ (put # NoPut => put \in Puts)
  BY <1>1 DEF Inv, TypeOK
<1>. SUFFICES Rest'
  BY <1>1 DEF Inv
<1>3. ASSUME NEW k \in Keys, NEW v \in Values, OpenTmp(k, v)
      PROVE  Rest'
  BY <1>1, <1>2, <1>3 DEF OpenTmp, TypeOK
<1>4. CASE WriteTmp
  <2>1. put' = [put EXCEPT !.at = "sync", !.tmp.data = put.value]
    BY <1>4 DEF WriteTmp
  <2>2. put' = [key |-> put.key, value |-> put.value, at |-> "sync",
                tmp |-> [data |-> put.value, synced |-> put.tmp.synced]]
    BY <1>2, <1>4, <2>1 DEF WriteTmp, Puts, Files
  <2>. QED  BY <1>2, <1>4, <2>2 DEF WriteTmp
<1>5. CASE SyncTmp
  BY <1>2, <1>5 DEF SyncTmp, Puts, Files
<1>6. CASE Rename
  BY <1>1, <1>2, <1>6 DEF Rename, TypeOK, Puts, Files
<1>7. CASE RenameFails
  BY <1>1, <1>2, <1>7 DEF RenameFails, TypeOK, Puts
<1>8. CASE Journal
  BY <1>1, <1>2, <1>8 DEF Journal, TypeOK, Puts
<1>9. ASSUME NEW k \in Keys, WriteBack(k)
      PROVE  Rest'
  BY <1>1, <1>2, <1>9 DEF WriteBack, TypeOK
<1>10. CASE Crash
  BY <1>2, <1>10 DEF Crash
<1>11. CASE PowerLoss
  BY <1>1, <1>2, <1>11 DEF PowerLoss, TypeOK
<1>12. CASE UNCHANGED vars
  BY <1>2, <1>12 DEF vars
<1>. QED  BY <1>3, <1>4, <1>5, <1>6, <1>7, <1>8, <1>9, <1>10, <1>11, <1>12 DEF Next

LEMMA InvHolds ==
  ASSUME SyncsFiles, ~DiskFills
  PROVE  Spec => []Inv
<1>1. Init => Inv
  BY InvInit
<1>2. Inv /\ [Next]_vars => Inv'
  BY InvStep
<1>. QED  BY <1>1, <1>2, PTL DEF Spec

\* save::get after save::put: between power failures a key reads as its last
\* put that returned true or as one that was cut off since, and one that
\* returned false has changed nothing.
THEOREM SavesAreCurrent ==
  ASSUME SyncsFiles, ~DiskFills
  PROVE  Spec => []ReadsAreCurrent
<1>1. Inv => ReadsAreCurrent
  BY DEF Inv
<1>. QED  BY <1>1, InvHolds, PTL

\* Stuttering and steps of the abstract store.
LEMMA StepIsAtomic ==
  ASSUME SyncsFiles, ~DiskFills, Inv, [Next]_vars
  PROVE  [Saves!Next]_<<[k \in Keys |-> Get(k)], held>>
<1>. DEFINE Store == [k \in Keys |-> Get(k)]
<1>1. CASE UNCHANGED <<bin, held>>
  <2>1. Store' = Store
    BY <1>1 DEF Get, Data
  <2>. QED  BY <1>1, <2>1
<1>2. CASE Rename
  <2>1. put.key \in Keys /\ put.value \in Values /\ put.tmp # NoFile
        /\ put.tmp.data = put.value
    BY <1>2 DEF Rename, At, Inv, Base, TypeOK, PutInv, Puts
  <2>2. Store' = [Store EXCEPT ![put.key] = put.value]
    BY <1>2, <2>1 DEF Rename, Get, Data, Inv, Base, TypeOK
  <2>3. held' = [held EXCEPT ![put.key] = @ \cup {put.value}]
    BY <1>2, <2>1 DEF Rename
  <2>. QED  BY <2>1, <2>2, <2>3 DEF Saves!Next, Saves!Replace
<1>3. CASE PowerLoss
  <2>1. \A k \in Keys : Get(k)' \in held[k]
    BY <1>3 DEF PowerLoss, Get, Data, Inv, FilesInv, GoodFile, HeldInv
  <2>2. Store' \in [Keys -> UNION {held[k] : k \in Keys}]
    BY <2>1
  <2>3. \A k \in Keys : Store'[k] \in held[k]
    BY <2>1
  <2>4. held' = held
    BY <1>3 DEF PowerLoss
  <2>. QED  BY <2>2, <2>3, <2>4 DEF Saves!Next, Saves!Revert
<1>. QED  BY <1>1, <1>2, <1>3
             DEF Next, OpenTmp, WriteTmp, SyncTmp, RenameFails, Journal,
                 WriteBack, Crash, vars, fileVars, historyVars

\* The temporary file, the sync and the rename together: put() replaces a value
\* at once or not at all, through crashes and power failures.
THEOREM PutsAreAtomic ==
  ASSUME SyncsFiles, ~DiskFills
  PROVE  Spec => PutIsAtomic
<1>1. Init => Saves!Init
  BY DEF Init, Saves!Init, Get, Data
<1>2. Inv /\ [Next]_vars => [Saves!Next]_<<[k \in Keys |-> Get(k)], held>>
  BY StepIsAtomic
<1>. QED  BY <1>1, <1>2, InvHolds, PTL DEF Spec, PutIsAtomic, Saves!Spec
=============================================================================
