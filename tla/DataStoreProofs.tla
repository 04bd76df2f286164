---------------------------- MODULE DataStoreProofs ---------------------------
(***************************************************************************)
(* While AppState::save is the only code that writes data.json, the store  *)
(* keeps the promise of DurableStore, and the last whole copy of the data  *)
(* is never given up.  The inductive invariant is StoreInv (DataStore).    *)
(***************************************************************************)
EXTENDS DataStore, TLAPS

USE Store_Assumption

\* The invariant holds at the start: nothing is saved and nobody writes.
LEMMA StoreInit == Init => StoreInv
BY DEF Init, StoreInv, TypeOK, OneWriter, NoneOlder, Repaired, NoFile, Idle, File, Holdings,
       At, Writing, Loaded, Recovered, Whole

\* A step that leaves the calls alone.
LEMMA ChangeInv == ASSUME StoreInv, Change PROVE StoreInv'
<1> USE DEF StoreInv, Change
<1>1. TypeOK' BY DEF TypeOK, At
<1>2. OneWriter' BY DEF OneWriter, At
<1>3. NoneOlder' BY DEF NoneOlder, TypeOK, At, Loaded, Recovered, Whole, Holdings, File
<1>4. Repaired' BY DEF Repaired, TypeOK, At, Loaded, Recovered, Whole, Holdings, File
<1> QED BY <1>1, <1>2, <1>3, <1>4

\* A call that asks has not serialised anything: only what it asks for is noted.
LEMMA AskInv == ASSUME StoreInv, NEW s \in Savers, Ask(s) PROVE StoreInv'
<1> USE DEF StoreInv, Ask
<1>1. TypeOK' BY DEF TypeOK, At, Writing
<1>2. OneWriter' BY DEF OneWriter, TypeOK, At, Writing
<1>3. NoneOlder' BY DEF NoneOlder, TypeOK, At, Writing, Loaded, Recovered, Whole,
      Holdings, File
<1>4. Repaired' BY DEF Repaired, TypeOK, At, Loaded, Recovered, Whole, Holdings, File
<1> QED BY <1>1, <1>2, <1>3, <1>4

\* Memory is serialised only when nobody else holds SAVE_ORDER, and is no older than what is there.
LEMMA SnapInv == ASSUME OnlySave, StoreInv, NEW s \in Savers, Snap(s) PROVE StoreInv'
<1> USE DEF StoreInv, Snap, OnlySave, Serialised
<1>1. TypeOK'
  <2>1. saver' \in [Savers ->
            [at : Writing \cup {"idle", "asked"}, snap : Nat, old : Holdings]]
    BY DEF TypeOK, Writing, Holdings, File
  <2>2. \A t \in tmp'.open \cup main'.open : At(t, {"write"})'
    BY DEF TypeOK, At, Writing, OneWriter, File
  <2> QED BY <2>1, <2>2 DEF TypeOK, Holdings, File
<1>2. OneWriter' BY DEF OneWriter, TypeOK, At, Writing, SaveOrder
<1>3. NoneOlder' BY DEF NoneOlder, TypeOK, Repaired, At, Writing, Loaded, Recovered,
      Whole, Holdings, File
<1>4. Repaired' BY DEF Repaired, TypeOK, At, Loaded, Recovered, Whole, Holdings, File
<1> QED BY <1>1, <1>2, <1>3, <1>4

\* The backup is rolled from a data.json that is whole, or that has no whole backup.
LEMMA BackupBeginsInv == ASSUME StoreInv, NEW s \in Savers, BackupBegins(s) PROVE StoreInv'
<1> USE DEF StoreInv, BackupBegins
<1>a. /\ saver'[s].at \in {"copying", "create"} /\ saver'[s].snap = saver[s].snap
      /\ saver'[s].old \in Holdings
      /\ \A t \in Savers \ {s} : saver'[t] = saver[t]
      /\ saver' = [saver EXCEPT ![s] = saver'[s]]
      /\ DOMAIN saver'[s] = {"at", "snap", "old"}
  BY DEF TypeOK, File, Holdings
<1>b. saver'[s] \in [at : Writing \cup {"idle", "asked"}, snap : Nat, old : Holdings]
  BY <1>a DEF TypeOK, Writing
<1>1. TypeOK'
  <2>1. saver' \in [Savers ->
            [at : Writing \cup {"idle", "asked"}, snap : Nat, old : Holdings]]
    BY <1>a, <1>b DEF TypeOK
  <2>2. \A t \in tmp'.open \cup main'.open : At(t, {"write"})'
    BY DEF TypeOK, At, Writing, OneWriter, File
  <2> QED BY <2>1, <2>2 DEF TypeOK, Holdings, File
<1>2. OneWriter' BY <1>a DEF OneWriter, TypeOK, At, Writing, File, Holdings
<1>3. NoneOlder' BY DEF NoneOlder, OneWriter, Repaired, TypeOK, At, Writing, Loaded,
      Recovered, Whole, Holdings, File
<1>4. Repaired' BY DEF Repaired, NoneOlder, OneWriter, TypeOK, At, Writing, Loaded,
      Recovered, Whole, Holdings, File
<1> QED BY <1>1, <1>2, <1>3, <1>4

\* The backup is what data.json holds, or torn: never later than data.json.
LEMMA BackupEndsInv == ASSUME StoreInv, NEW s \in Savers, BackupEnds(s) PROVE StoreInv'
<1> USE DEF StoreInv, BackupEnds
<1>a. /\ saver'[s].at \in {"create"} /\ saver'[s].snap = saver[s].snap
      /\ saver'[s].old \in Holdings
      /\ \A t \in Savers \ {s} : saver'[t] = saver[t]
      /\ saver' = [saver EXCEPT ![s] = saver'[s]]
      /\ saver'[s] = [at |-> "create", snap |-> saver[s].snap, old |-> Missing]
  <2> DEFINE mid == [saver EXCEPT ![s].at = "create"]
  <2>1. saver' = [mid EXCEPT ![s].old = Missing]
    OBVIOUS
  <2>2. /\ DOMAIN saver = Savers /\ DOMAIN mid = Savers
        /\ saver[s] \in [at : Writing \cup {"idle", "asked"}, snap : Nat, old : Holdings]
    BY DEF TypeOK
  <2>3. mid[s] = [at |-> "create", snap |-> saver[s].snap, old |-> saver[s].old]
    BY <2>2
  <2> HIDE DEF mid
  <2>4. saver'[s] = [at |-> "create", snap |-> saver[s].snap, old |-> Missing]
    BY <2>1, <2>2, <2>3
  <2>5. \A t \in Savers \ {s} : saver'[t] = saver[t]
    BY <2>2
  <2>6. saver' = [saver EXCEPT ![s] = saver'[s]]
    BY <2>2
  <2>7. /\ saver'[s].at = "create" /\ saver'[s].snap = saver[s].snap
        /\ saver'[s].old = Missing
    BY <2>4
  <2> HIDE DEF BackupEnds
  <2> QED BY <2>4, <2>5, <2>6, <2>7 DEF Holdings
<1>b. saver'[s] \in [at : Writing \cup {"idle", "asked"}, snap : Nat, old : Holdings]
  BY <1>a DEF TypeOK, Writing
<1>1. TypeOK'
  <2>1. saver' \in [Savers ->
            [at : Writing \cup {"idle", "asked"}, snap : Nat, old : Holdings]]
    BY <1>a, <1>b DEF TypeOK
  <2>2. \A t \in tmp'.open \cup main'.open : At(t, {"write"})'
    BY DEF TypeOK, At, Writing, OneWriter, File
  <2> QED BY <2>1, <2>2 DEF TypeOK, Holdings, File
<1>2. OneWriter' BY <1>a DEF OneWriter, TypeOK, At, Writing, File, Holdings
<1>3. NoneOlder' BY DEF NoneOlder, OneWriter, Repaired, TypeOK, At, Writing, Loaded,
      Recovered, Whole, Holdings, File
<1>4. Repaired' BY DEF Repaired, NoneOlder, OneWriter, TypeOK, At, Writing, Loaded,
      Recovered, Whole, Holdings, File
<1> QED BY <1>1, <1>2, <1>3, <1>4

\* The one writer empties data.json.tmp; data.json is not touched.
LEMMA CreateInv == ASSUME StoreInv, NEW s \in Savers, Create(s) PROVE StoreInv'
<1> USE DEF StoreInv, Create, Emptied
<1>1. TypeOK' BY DEF TypeOK, At, Writing, Holdings, File, OneWriter
<1>2. OneWriter' BY DEF OneWriter, TypeOK, At, Writing, File, Holdings
<1>3. NoneOlder' BY DEF NoneOlder, OneWriter, Repaired, TypeOK, At, Writing, Loaded,
      Recovered, Whole, Holdings, File
<1>4. Repaired' BY DEF Repaired, NoneOlder, OneWriter, TypeOK, At, Writing, Loaded,
      Recovered, Whole, Holdings, File
<1> QED BY <1>1, <1>2, <1>3, <1>4

\* What the one writer leaves in data.json.tmp is the version it serialised.
LEMMA WriteInv == ASSUME StoreInv, NEW s \in Savers, Write(s) PROVE StoreInv'
<1> USE DEF StoreInv, Write, Finished
<1>a. /\ tmp' = [holds |-> saver[s].snap, open |-> {}, mixed |-> FALSE]
      /\ main' = main
  <2>1. /\ tmp.open = {s} /\ ~tmp.mixed /\ main.open = {}
        /\ tmp = [holds |-> tmp.holds, open |-> tmp.open, mixed |-> tmp.mixed]
    BY DEF OneWriter, TypeOK, File
  <2>2. Finished(main, s) = {main}
    BY <2>1 DEF Finished
  <2>3. PICK v \in {saver[s].snap} :
           tmp' = [holds |-> v, open |-> tmp.open \ {s}, mixed |-> tmp.mixed]
    BY <2>1 DEF Finished
  <2>4. tmp.open \ {s} = {} /\ tmp.mixed = FALSE
    BY <2>1 DEF TypeOK, File
  <2> QED BY <2>2, <2>3, <2>4
<1>b. /\ saver' = [saver EXCEPT ![s].at = "rename"]
      /\ UNCHANGED <<mem, bak, asked, kept, load, damage>>
      /\ At(s, {"write"})
  OBVIOUS
<1> HIDE DEF Write, Finished
<1>1. TypeOK'
  <2>1. saver' \in [Savers ->
            [at : Writing \cup {"idle", "asked"}, snap : Nat, old : Holdings]]
    BY <1>a, <1>b DEF TypeOK, Writing, Holdings, File
  <2>2. \A t \in tmp'.open \cup main'.open : At(t, {"write"})'
    BY <1>a, <1>b DEF TypeOK, At, Writing, OneWriter, File
  <2> QED BY <1>a, <1>b, <2>1, <2>2 DEF TypeOK, Holdings, File
<1>2. OneWriter' BY <1>a, <1>b DEF OneWriter, TypeOK, At, Writing, File, Holdings
<1>3. NoneOlder' BY <1>a, <1>b DEF NoneOlder, OneWriter, Repaired, TypeOK, At, Writing,
      Loaded, Recovered, Whole, Holdings, File
<1>4. Repaired' BY <1>a, <1>b DEF Repaired, NoneOlder, OneWriter, TypeOK, At, Writing,
      Loaded, Recovered, Whole, Holdings, File
<1> QED BY <1>1, <1>2, <1>3, <1>4

\* A write that fails gives nothing to data.json.
LEMMA WriteFailsInv == ASSUME StoreInv, NEW s \in Savers, WriteFails(s) PROVE StoreInv'
<1> USE DEF StoreInv, WriteFails, Returns, Idle
<1>1. TypeOK' BY DEF TypeOK, At, Writing, Holdings, File, OneWriter
<1>2. OneWriter' BY DEF OneWriter, TypeOK, At, Writing, File, Holdings
<1>3. NoneOlder' BY DEF NoneOlder, OneWriter, Repaired, TypeOK, At, Writing, Loaded,
      Recovered, Whole, Holdings, File
<1>4. Repaired' BY DEF Repaired, NoneOlder, OneWriter, TypeOK, At, Writing, Loaded,
      Recovered, Whole, Holdings, File
<1> QED BY <1>1, <1>2, <1>3, <1>4

\* The rename puts the serialised version, no older than the last, in data.json.
LEMMA RenameInv == ASSUME StoreInv, NEW s \in Savers, Rename(s) PROVE StoreInv'
<1> USE DEF StoreInv, Rename, NoFile
<1>1. TypeOK' BY DEF TypeOK, At, Writing, Holdings, File, OneWriter
<1>2. OneWriter' BY DEF OneWriter, TypeOK, At, Writing, File, Holdings
<1>3. NoneOlder' BY DEF NoneOlder, OneWriter, Repaired, TypeOK, At, Writing, Loaded,
      Recovered, Whole, Holdings, File
<1>4. Repaired' BY DEF Repaired, NoneOlder, OneWriter, TypeOK, At, Writing, Loaded,
      Recovered, Whole, Holdings, File
<1> QED BY <1>1, <1>2, <1>3, <1>4

\* A rename that fails leaves data.json as it was.
LEMMA RenameFailsInv == ASSUME StoreInv, NEW s \in Savers, RenameFails(s) PROVE StoreInv'
<1> USE DEF StoreInv, RenameFails, Returns, Idle
<1>1. TypeOK' BY DEF TypeOK, At, Writing, Holdings, File, OneWriter
<1>2. OneWriter' BY DEF OneWriter, TypeOK, At, Writing, File, Holdings
<1>3. NoneOlder' BY DEF NoneOlder, OneWriter, Repaired, TypeOK, At, Writing, Loaded,
      Recovered, Whole, Holdings, File
<1>4. Repaired' BY DEF Repaired, NoneOlder, OneWriter, TypeOK, At, Writing, Loaded,
      Recovered, Whole, Holdings, File
<1> QED BY <1>1, <1>2, <1>3, <1>4

\* A call is answered when what it asked for is there.
LEMMA AnswerInv == ASSUME StoreInv, NEW s \in Savers, Answer(s) PROVE StoreInv'
<1> USE DEF StoreInv, Answer, Returns, Idle, Newest
<1>1. TypeOK'
  <2>1. saver' \in [Savers ->
            [at : Writing \cup {"idle", "asked"}, snap : Nat, old : Holdings]]
    BY DEF TypeOK, Writing, Holdings, File
  <2>2. \A t \in tmp'.open \cup main'.open : At(t, {"write"})'
    BY DEF TypeOK, At, Writing, OneWriter, File
  <2> QED BY <2>1, <2>2 DEF TypeOK, Holdings, File
<1>2. OneWriter' BY DEF OneWriter, TypeOK, At, Writing, File, Holdings
<1>3. NoneOlder' BY DEF NoneOlder, OneWriter, Repaired, TypeOK, At, Writing, Loaded,
      Recovered, Whole, Holdings, File
<1>4. Repaired' BY DEF Repaired, NoneOlder, OneWriter, TypeOK, At, Writing, Loaded,
      Recovered, Whole, Holdings, File
<1> QED BY <1>1, <1>2, <1>3, <1>4

\* A crash ends all calls and changes no file.
LEMMA CrashInv == ASSUME StoreInv, Crash PROVE StoreInv'
<1> USE DEF StoreInv, Crash, Closed, Idle
<1>1. TypeOK' BY DEF TypeOK, At, Writing, Holdings, File, OneWriter
<1>2. OneWriter' BY DEF OneWriter, TypeOK, At, Writing, File, Holdings
<1>3. NoneOlder' BY DEF NoneOlder, OneWriter, Repaired, TypeOK, At, Writing, Loaded,
      Recovered, Whole, Holdings, File
<1>4. Repaired' BY DEF Repaired, NoneOlder, OneWriter, TypeOK, At, Writing, Loaded,
      Recovered, Whole, Holdings, File
<1> QED BY <1>1, <1>2, <1>3, <1>4

\* A start takes what Loaded says, and knows when data.json has to be repaired.
LEMMA LoadInv == ASSUME StoreInv, Load PROVE StoreInv'
<1> USE DEF StoreInv, Load
<1>1. TypeOK'
  <2>1. saver' \in [Savers ->
            [at : Writing \cup {"idle", "asked"}, snap : Nat, old : Holdings]]
    BY DEF TypeOK, Writing, Holdings, File
  <2>2. \A t \in tmp'.open \cup main'.open : At(t, {"write"})'
    BY DEF TypeOK, At, Writing, OneWriter, File
  <2> QED BY <2>1, <2>2 DEF TypeOK, Holdings, File, Loaded, Recovered, Whole
<1>2. OneWriter' BY DEF OneWriter, TypeOK, At, Writing, File, Holdings
<1>3. NoneOlder' BY DEF NoneOlder, OneWriter, Repaired, TypeOK, At, Writing, Loaded,
      Recovered, Whole, Holdings, File
<1>4. Repaired' BY DEF Repaired, NoneOlder, OneWriter, TypeOK, At, Writing, Loaded,
      Recovered, Whole, Holdings, File
<1> QED BY <1>1, <1>2, <1>3, <1>4

\* The copy back makes data.json what the start found in the backup.
LEMMA RestoredInv == ASSUME OnlySave, StoreInv, Restored PROVE StoreInv'
<1> USE DEF StoreInv, Restored, OnlySave
<1>1. TypeOK' BY DEF TypeOK, At, Writing, Holdings, File, OneWriter
<1>2. OneWriter' BY DEF OneWriter, TypeOK, At, Writing, File, Holdings
<1>3. NoneOlder' BY DEF NoneOlder, OneWriter, Repaired, TypeOK, At, Writing, Loaded,
      Recovered, Whole, Holdings, File
<1>4. Repaired' BY DEF Repaired, NoneOlder, OneWriter, TypeOK, At, Writing, Loaded,
      Recovered, Whole, Holdings, File
<1> QED BY <1>1, <1>2, <1>3, <1>4

\* Damage takes data.json back to the backup at most, and what was promised with it.
LEMMA DamageInv == ASSUME StoreInv, Damage PROVE StoreInv'
<1> USE DEF StoreInv, Damage
<1>1. TypeOK'
  <2>1. saver' \in [Savers ->
            [at : Writing \cup {"idle", "asked"}, snap : Nat, old : Holdings]]
    BY DEF TypeOK, Writing, Holdings, File
  <2>2. \A t \in tmp'.open \cup main'.open : At(t, {"write"})'
    BY DEF TypeOK, At, Writing, OneWriter, File
  <2> QED BY <2>1, <2>2 DEF TypeOK, Holdings, File, Loaded, Recovered, Whole
<1>2. OneWriter' BY DEF OneWriter, TypeOK, At, Writing, File, Holdings
<1>3. NoneOlder' BY DEF NoneOlder, OneWriter, Repaired, TypeOK, At, Writing, Loaded,
      Recovered, Whole, Holdings, File
<1>4. Repaired' BY DEF Repaired, NoneOlder, OneWriter, TypeOK, At, Writing, Loaded,
      Recovered, Whole, Holdings, File
<1> QED BY <1>1, <1>2, <1>3, <1>4

\* Every step keeps the invariant.
LEMMA StoreStep == ASSUME OnlySave, StoreInv, [Next]_vars PROVE StoreInv'
<1>1. CASE UNCHANGED vars
  BY <1>1 DEF StoreInv, TypeOK, OneWriter, NoneOlder, Repaired, At, Loaded, Recovered, vars
<1>2. CASE Change
  BY <1>2, ChangeInv
<1>3. CASE Crash
  BY <1>3, CrashInv
<1>4. CASE Load
  BY <1>4, LoadInv
<1>5. CASE Restored
  BY <1>5, RestoredInv
<1>6. CASE Damage
  BY <1>6, DamageInv
<1>7. ASSUME NEW s \in Savers, Save(s) PROVE StoreInv'
  BY <1>7, AskInv, SnapInv, BackupBeginsInv, BackupEndsInv, CreateInv, WriteInv,
      WriteFailsInv,
     RenameInv, RenameFailsInv, AnswerInv DEF Save
<1> QED BY <1>1, <1>2, <1>3, <1>4, <1>5, <1>6, <1>7 DEF Next

\* While AppState::save is the only writer, the files are written by one call at a time,
\* from what is no older than what is there, and a start repairs data.json (state.rs
\* 529-596): for any number of callers, versions, crashes and failures.
THEOREM StoreIsOrdered == ASSUME OnlySave PROVE Spec => []StoreInv
<1>1. Init => StoreInv
  BY StoreInit
<1>2. StoreInv /\ [Next]_vars => StoreInv'
  BY StoreStep
<1> QED BY <1>1, <1>2, PTL DEF Spec

-------------------------------------------------------------------------------
(* The last whole copy *)

\* No step but damage takes away the last whole copy.
LEMMA LastWholeStep ==
    ASSUME OnlySave, StoreInv, StoreInv', [Next]_vars, OneWhole, damage' = damage
    PROVE  OneWhole'
<1> USE DEF StoreInv, OneWhole
<1>1. CASE UNCHANGED vars
  BY <1>1 DEF vars
<1>2. CASE Change \/ Crash
  BY <1>2 DEF Change, Crash, Closed, TypeOK, File
<1>3. CASE Load \/ Restored
  BY <1>3 DEF Load, Restored, Repaired, TypeOK, File, OnlySave
<1>4. CASE Damage
  BY <1>4 DEF Damage, TypeOK
<1>5. ASSUME NEW s \in Savers, Save(s) PROVE OneWhole'
  <2>1. CASE Ask(s) \/ Snap(s) \/ Create(s) \/ RenameFails(s) \/ Answer(s)
    BY <2>1 DEF Ask, Snap, Create, RenameFails, Answer
  <2>2. CASE BackupBegins(s) \/ BackupEnds(s)
    <3>1. load = "up"
      BY <2>2 DEF BackupBegins, BackupEnds, Repaired, At
    <3> QED BY <2>2, <3>1 DEF BackupBegins, BackupEnds, Repaired
  <2>3. CASE Write(s)
    BY <2>3 DEF Write, Finished, OneWriter
  <2>4. CASE WriteFails(s)
    BY <2>4 DEF WriteFails, TypeOK, File
  <2>5. CASE Rename(s)
    <3>1. tmp.holds = saver[s].snap /\ saver[s].snap \in Nat
      BY <2>5 DEF Rename, OneWriter, TypeOK
    <3> QED BY <2>5, <3>1 DEF Rename, Whole
  <2> QED BY <1>5, <2>1, <2>2, <2>3, <2>4, <2>5 DEF Save
<1> QED BY <1>1, <1>2, <1>3, <1>4, <1>5 DEF Next

\* No step of a save, a crash or a start gives up the last whole copy of the data
\* (load_with_recovery, state.rs 473-505; the .bak roll, 586-594).
THEOREM TheLastWholeStays == ASSUME OnlySave PROVE Spec => LastWholeStays
<1>1. StoreInv /\ StoreInv' /\ [Next]_vars => [OneWhole /\ damage' = damage => OneWhole']_vars
  BY LastWholeStep
<1> QED BY <1>1, StoreIsOrdered, PTL DEF Spec, LastWholeStays

-------------------------------------------------------------------------------
(* The promise *)

\* The start of the store is a start of the promise.
LEMMA PromiseInit == Init => Promise!Init
BY DEF Init, Promise!Init, Loaded, Recovered, NoFile, Whole

\* The steps of a save a restart does not see.
LEMMA UnseenSteps ==
    ASSUME OnlySave, StoreInv, NEW s \in Savers,
           Snap(s) \/ BackupBegins(s) \/ BackupEnds(s) \/ Create(s) \/ Write(s)
    PROVE  UNCHANGED Promise!vars
<1> USE DEF StoreInv, Promise!vars
<1>1. CASE Snap(s) \/ Create(s)
  BY <1>1 DEF Snap, Create, Loaded, Recovered
<1>2. CASE BackupBegins(s) \/ BackupEnds(s)
  <2>1. load = "up"
    BY <1>2 DEF BackupBegins, BackupEnds, Repaired, At
  <2>2. Loaded' = Loaded
    BY <1>2, <2>1 DEF BackupBegins, BackupEnds, Repaired, NoneOlder, Loaded, Recovered,
        Whole, At
  <2> QED BY <1>2, <2>2 DEF BackupBegins, BackupEnds
<1>3. CASE Write(s)
  BY <1>3 DEF Write, Finished, OneWriter, Loaded, Recovered
<1> QED BY <1>1, <1>2, <1>3

\* Every step keeps the promise.
LEMMA PromiseStep ==
    ASSUME OnlySave, StoreInv, StoreInv', [Next]_vars
    PROVE  [Promise!Next]_(Promise!vars)
<1> USE DEF StoreInv
<1>0. Loaded \in Nat /\ Loaded' \in Nat
  BY DEF TypeOK, File, Holdings, Loaded, Recovered, Whole
<1>1. CASE UNCHANGED vars
  BY <1>1 DEF vars, Promise!vars, Loaded, Recovered
<1>2. CASE Change
  BY <1>2 DEF Change, Promise!Change, Promise!Next, Loaded, Recovered
<1>3. CASE Crash
  <2>1. Promise!Stop
    BY <1>3 DEF Crash, Closed, Promise!Stop, Loaded, Recovered, TypeOK, File
  <2> QED BY <2>1 DEF Promise!Next
<1>4. CASE Load
  <2>1. Loaded' = Loaded
    BY <1>4 DEF Load, Loaded, Recovered, Whole, TypeOK, File
  <2>2. Promise!Start
    BY <1>4, <2>1 DEF Load, Promise!Start
  <2> QED BY <2>2 DEF Promise!Next
<1>5. CASE Restored
  <2>1. Loaded' = Loaded
    BY <1>5 DEF Restored, OnlySave, Repaired, Loaded, Recovered, Whole, TypeOK, File
  <2> QED BY <1>5, <2>1 DEF Restored, Promise!vars
<1>6. CASE Damage
  <2>1. Loaded' = Recovered /\ Recovered \in 0..Loaded
    BY <1>0, <1>6 DEF Damage, Repaired, Loaded, Recovered, Whole, TypeOK, File
  <2>2. Promise!Damage
    BY <1>6, <2>1 DEF Damage, Promise!Damage
  <2> QED BY <2>2 DEF Promise!Next
<1>7. ASSUME NEW s \in Savers, Save(s) PROVE [Promise!Next]_(Promise!vars)
  <2>1. CASE Ask(s)
    <3>1. Promise!Ask(s)
      BY <2>1 DEF Ask, Promise!Ask, Loaded, Recovered, NoneOlder
    <3> QED BY <3>1 DEF Promise!Next
  <2>2. CASE WriteFails(s) \/ RenameFails(s)
    <3>1. Promise!Refuse(s)
      BY <2>2 DEF WriteFails, RenameFails, Returns, Promise!Refuse, Loaded, Recovered,
          NoneOlder,
                  At, TypeOK, File
    <3> QED BY <3>1 DEF Promise!Next
  <2>3. CASE Rename(s)
    <3>1. Loaded' = saver[s].snap /\ saver[s].snap \in Loaded..mem
      BY <1>0, <2>3 DEF Rename, OneWriter, NoneOlder, Loaded, Whole, TypeOK, At, Writing
    <3>2. Promise!Persist
      BY <2>3, <3>1 DEF Rename, Promise!Persist, NoneOlder, Repaired, At
    <3> QED BY <3>2 DEF Promise!Next
  <2>4. CASE Answer(s)
    <3>1. asked[s] # Nothing /\ Loaded >= asked[s]
      BY <1>0, <2>4 DEF Answer, NoneOlder, At, Writing, TypeOK
    <3>2. Promise!Answer(s)
      BY <2>4, <3>1 DEF Answer, Returns, Newest, Promise!Answer, Loaded, Recovered
    <3> QED BY <3>2 DEF Promise!Next
  <2> QED BY <1>7, <2>1, <2>2, <2>3, <2>4, UnseenSteps DEF Save
<1> QED BY <1>1, <1>2, <1>3, <1>4, <1>5, <1>6, <1>7 DEF Next

\* What a caller was told is saved, a restart finds, or a later version, wherever the
\* program died since, whatever failed: AppState::save and AppState::load implement
\* DurableStore.
THEOREM StoreKeepsItsPromise == ASSUME OnlySave PROVE Spec => Implements
<1>1. Init => Promise!Init
  BY PromiseInit
<1>2. StoreInv /\ StoreInv' /\ [Next]_vars => [Promise!Next]_(Promise!vars)
  BY PromiseStep
<1> QED BY <1>1, <1>2, StoreIsOrdered, PTL DEF Spec, Implements, Promise!Spec

===============================================================================
