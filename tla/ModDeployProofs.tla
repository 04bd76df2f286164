--------------------------- MODULE ModDeployProofs ---------------------------
(****************************************************************************)
(* What holds of activation for every library and every number of profiles.  *)
(*                                                                          *)
(* Whatever fails, whatever is stopped and however many calls are in flight: *)
(* types, an original leaves a backup folder only for the game folder, and   *)
(* what is quiet is saved.  TypeOK is not inductive: a step that uses        *)
(* op[o].mod or the profile holding a backup needs to know there is one,     *)
(* which the other conjuncts of TypeInv say (ModDeployInvariants).           *)
(*                                                                          *)
(* With one call at a time and nothing failing but copies into the game      *)
(* folder (Calm): the game's own files are never lost, the game folder       *)
(* follows the lists, and each call keeps the promise of DeployPromise.      *)
(*                                                                          *)
(* OriginalsKept says nothing of what the calls know, so it is not           *)
(* inductive.  CalmInv (ModDeployInvariants) follows every file through a    *)
(* deploy, its rollback and a removal: at rest a file no active mod ships is *)
(* as the game shipped it and any other original is in a backup folder       *)
(* (Settled), and what the calls and the worker have read is still so.       *)
(*                                                                          *)
(* DiskInv (ModDeployInvariants) says whose copy each file is at every       *)
(* moment: what a deploy stashes and what a removal has planned to put back  *)
(* is the right copy for the lists of that moment, and nothing changes the   *)
(* lists until the worker has ended.                                         *)
(*                                                                          *)
(* Job and Shown (ModDeployInvariants) map a state to one of DeployPromise.  *)
(* A worker changes nothing that shows, so its steps are none of the         *)
(* promise's; ChainInv says that the mod a call records is the first left of *)
(* its chain.                                                               *)
(****************************************************************************)
EXTENDS ModDeployInvariants, FiniteSetTheorems, WellFoundedInduction, TLAPS

----------------------------------------------------------------------------
(* What the operators return: the choices among mods, files and profiles are *)
(* well defined, and the lists stay lists                                   *)

\* A set of numbers has a least one, and Least is it.
LEMMA LeastExists ==
    ASSUME NEW S \in SUBSET Nat, S # {}
    PROVE  Least(S) \in S /\ \A r \in S : Least(S) <= r
<1> DEFINE R == {ss \in Nat \X Nat : ss[1] < ss[2]}
<1>1. IsWellFoundedOn(R, Nat)
  BY NatLessThanWellFounded DEF OpToRel
<1>2. \E q \in S : \A r \in S : <<r, q>> \notin R
  <2> HIDE DEF R
  <2> QED BY <1>1, WFMin, Zenon
<1>3. PICK q \in S : \A r \in S : <<r, q>> \notin R
  BY <1>2
<1>4. \A r \in S : q <= r
  <2> TAKE r \in S
  <2>1. <<r, q>> \in Nat \X Nat /\ ~(r < q)
    BY <1>3
  <2> QED BY <2>1, q \in Nat, r \in Nat
<1> QED BY <1>4 DEF Least

\* A bounded set of numbers has a greatest one, and Greatest is it.
LEMMA GreatestExists ==
    ASSUME NEW B \in Nat, NEW S \in SUBSET (0 .. B), S # {}
    PROVE  Greatest(S) \in S /\ \A r \in S : r <= Greatest(S)
<1> DEFINE D == {B - r : r \in S}
<1>1. D \in SUBSET Nat /\ D # {}
  <2>1. \A r \in S : B - r \in Nat
    OBVIOUS
  <2> QED BY <2>1
<1>2. PICK d \in D : \A e \in D : d <= e
  <2> HIDE DEF D
  <2> QED BY <1>1, LeastExists
<1>3. PICK q \in S : d = B - q
  BY <1>2
<1>4. \A r \in S : r <= q
  <2> TAKE r \in S
  <2>1. B - r \in D
    OBVIOUS
  <2>2. d <= B - r
    BY <2>1, <1>2
  <2> QED BY <2>2, <1>3
<1> QED BY <1>3, <1>4 DEF Greatest

\* Of mods in a list one is last, and LastOf is it.
LEMMA LastOfExists ==
    ASSUME NEW B \in Nat, NEW list \in [Mods -> 0 .. B], NEW S \in SUBSET Mods, S # {}
    PROVE  LastOf(list, S) \in S /\ \A n \in S : list[n] <= list[LastOf(list, S)]
<1> DEFINE V == {list[m] : m \in S}
<1>1. V \in SUBSET (0 .. B) /\ V # {}
  OBVIOUS
<1>2. PICK v \in V : \A w \in V : w <= v
  <2> HIDE DEF V
  <2> QED BY <1>1, GreatestExists
<1>3. PICK m \in S : v = list[m]
  BY <1>2
<1>4. \A n \in S : list[n] <= list[m]
  BY <1>2, <1>3
<1> QED BY <1>3, <1>4 DEF LastOf

\* The library is finite.
LEMMA ModsCount == Cardinality(Mods) \in Nat
BY FS_CardinalityType, Library_Assumption

\* Mods without one of them are fewer.
LEMMA FewerMods ==
    ASSUME NEW S \in SUBSET Mods, NEW m \in Mods, m \notin S
    PROVE  Cardinality(S) \in Nat /\ Cardinality(S) + 1 <= Cardinality(Mods)
<1>1. IsFiniteSet(Mods) /\ IsFiniteSet(S)
  BY Library_Assumption, FS_Subset
<1>2. Cardinality(S) \in Nat /\ Cardinality(Mods) \in Nat
  BY <1>1, FS_CardinalityType
<1>3. Cardinality(S) <= Cardinality(Mods) /\ Cardinality(S) # Cardinality(Mods)
  BY <1>1, FS_Subset
<1> QED BY <1>2, <1>3

\* push: appending a mod to a list gives a list.
LEMMA PushedType ==
    ASSUME NEW list \in [Mods -> Ranks], NEW m \in Mods
    PROVE  Pushed(list, m) \in [Mods -> Ranks]
<1> DEFINE S == {n \in Mods : list[n] > 0}
<1>1. CASE list[m] > 0
  BY <1>1 DEF Pushed
<1>2. CASE ~(list[m] > 0)
  <2>1. Cardinality(S) \in Nat /\ Cardinality(S) + 1 <= Cardinality(Mods)
    BY <1>2, FewerMods
  <2> HIDE DEF S
  <2>2. Cardinality(S) + 1 \in Ranks
    BY <2>1, ModsCount DEF Ranks
  <2>3. Pushed(list, m) = [list EXCEPT ![m] = Cardinality(S) + 1]
    BY <1>2 DEF Pushed, S
  <2> QED BY <2>2, <2>3
<1> QED BY <1>1, <1>2

\* retain: removing mods from a list gives a list.
LEMMA RetainedType ==
    ASSUME NEW list \in [Mods -> Ranks], NEW gone
    PROVE  Retained(list, gone) \in [Mods -> Ranks]
<1> SUFFICES ASSUME NEW n \in Mods, list[n] # 0, n \notin gone
             PROVE  1 + Cardinality({x \in Mods \ gone : 0 < list[x] /\ list[x] < list[n]})
                        \in Ranks
  BY ModsCount DEF Retained, Ranks
<1> DEFINE S == {x \in Mods \ gone : 0 < list[x] /\ list[x] < list[n]}
<1>1. S \in SUBSET Mods /\ n \notin S
  BY DEF Ranks
<1> HIDE DEF S
<1>2. Cardinality(S) \in Nat /\ Cardinality(S) + 1 <= Cardinality(Mods)
  BY <1>1, FewerMods
<1>3. 1 + Cardinality(S) \in Ranks
  BY <1>2, ModsCount DEF Ranks
<1> QED BY <1>3 DEF S

\* Active mods are mods of the library.
LEMMA ActiveSets ==
    ASSUME TypeOK
    PROVE  /\ \A p \in Profiles : Active(p) \in SUBSET Mods
           /\ OnFolder \in SUBSET Mods
BY DEF TypeOK, Active, OnFolder

\* A profile's list, with the bound that LastOfExists asks for.
LEMMA ListOf ==
    ASSUME TypeOK, NEW p \in Profiles
    PROVE  at[p] \in [Mods -> 0 .. Cardinality(Mods)]
BY DEF TypeOK, Ranks

\* The last of some active mods, several lists read one after the other, is one of them.
LEMMA LastInListsIn ==
    ASSUME TypeOK, NEW Q \in SUBSET Profiles, NEW S \in SUBSET Mods, S # {},
           \A m \in S : \E q \in Q : m \in Active(q)
    PROVE  LastInLists(Q, S) \in S
<1> DEFINE home == [m \in S |-> Least({q \in Q : m \in Active(q)})]
           V    == {home[m] : m \in S}
           last == Greatest(V)
           T    == {m \in S : home[m] = last}
<1>1. NProfiles \in Nat /\ Profiles \subseteq 0 .. NProfiles /\ Profiles \subseteq Nat
  BY Library_Assumption DEF Profiles
<1>2. \A m \in S : home[m] \in Q
  <2> SUFFICES ASSUME NEW m \in S PROVE Least({q \in Q : m \in Active(q)}) \in Q
    OBVIOUS
  <2> DEFINE H == {q \in Q : m \in Active(q)}
  <2>1. H # {}
    OBVIOUS
  <2>2. H \in SUBSET Nat
    BY <1>1
  <2>3. Least(H) \in H
    <3> HIDE DEF H
    <3> QED BY <2>1, <2>2, LeastExists
  <2> QED BY <2>3
<1>3. V \in SUBSET Profiles /\ V # {}
  <2>1. V \in SUBSET Profiles
    BY <1>2
  <2> QED BY <2>1
<1>4. last \in V
  <2> HIDE DEF V
  <2>1. V \in SUBSET (0 .. NProfiles)
    BY <1>1, <1>3
  <2> QED BY <1>1, <1>3, <2>1, GreatestExists
<1>5. T \in SUBSET Mods /\ T # {} /\ T \in SUBSET S /\ last \in Profiles
  BY <1>3, <1>4
<1>6. LastOf(at[last], T) \in T
  <2> HIDE DEF T, last
  <2> QED BY <1>5, ListOf, ModsCount, LastOfExists
<1> QED BY <1>5, <1>6 DEF LastInLists

\* A file falls back to a mod that stays and ships it, when there is one.
LEMMA FallbackProvides ==
    ASSUME TypeOK, NEW p \in Profiles, NEW gone \in SUBSET Mods, NEW f \in Files
    PROVE  IF Providing(OnFolder \ gone, f) = {}
           THEN Fallback(p, gone, f) = Nothing
           ELSE Fallback(p, gone, f) \in Providing(OnFolder \ gone, f)
<1> DEFINE own    == Providing(Active(p) \ gone, f)
           owners == Providing(OnFolder \ (Active(p) \cup gone), f)
<1>1. Providing(OnFolder \ gone, f) = own \cup owners
  BY ActiveSets DEF Providing, OnFolder
<1>2. own \in SUBSET Mods /\ owners \in SUBSET Mods
  BY ActiveSets DEF Providing
<1>3. CASE own # {}
  <2>1. LastOf(at[p], own) \in own
    <3> HIDE DEF own
    <3> QED BY <1>2, <1>3, ListOf, ModsCount, LastOfExists
  <2>2. Fallback(p, gone, f) = LastOf(at[p], own)
    BY <1>3 DEF Fallback
  <2> QED BY <1>1, <2>1, <2>2
<1>4. CASE own = {} /\ owners # {}
  <2>1. \A m \in owners : \E q \in Profiles \ {p} : m \in Active(q)
    BY DEF Providing, OnFolder
  <2>2. LastInLists(Profiles \ {p}, owners) \in owners
    <3> HIDE DEF owners
    <3> QED BY <1>2, <1>4, <2>1, LastInListsIn
  <2>3. Fallback(p, gone, f) = LastInLists(Profiles \ {p}, owners)
    BY <1>4 DEF Fallback
  <2> QED BY <1>1, <2>2, <2>3
<1>5. CASE own = {} /\ owners = {}
  BY <1>1, <1>5 DEF Fallback
<1> QED BY <1>3, <1>4, <1>5

\* The same of plan_batch_disable.
LEMMA BatchFallbackProvides ==
    ASSUME TypeOK, NEW gone \in SUBSET Mods, NEW f \in Files
    PROVE  IF Providing(OnFolder \ gone, f) = {}
           THEN BatchFallback(gone, f) = Nothing
           ELSE BatchFallback(gone, f) \in Providing(OnFolder \ gone, f)
<1> DEFINE R == Providing(OnFolder \ gone, f)
<1>1. R \in SUBSET Mods /\ \A m \in R : \E q \in Profiles : m \in Active(q)
  BY ActiveSets DEF Providing, OnFolder
<1>2. CASE R = {}
  BY <1>2 DEF BatchFallback
<1>3. CASE R # {}
  <2>1. LastInLists(Profiles, R) \in R
    <3> HIDE DEF R
    <3> QED BY <1>1, <1>3, LastInListsIn
  <2> QED BY <1>3, <2>1 DEF BatchFallback
<1> QED BY <1>2, <1>3

\* The profile a restore takes an original from holds one.
LEMMA HolderType ==
    ASSUME TypeOK, NEW f \in Files, Holders(f) # {}
    PROVE  HolderFor(f) \in Holders(f)
<1>1. Holders(f) \in SUBSET Nat
  BY Library_Assumption DEF Holders, Profiles
<1>2. Least(Holders(f)) \in Holders(f)
  BY <1>1, LeastExists
<1> QED BY <1>2 DEF HolderFor

----------------------------------------------------------------------------
(* The cascade of disable_mod_in *)

\* What the mods that stay require holds each of them, so a disable never finds a
\* dependency to take down behind its mod: its cascade does nothing.
THEOREM NoOrphans ==
    ASSUME NEW m \in Mods
    PROVE  Orphans(m) = {}
<1> SUFFICES ASSUME NEW d \in Orphans(m)
             PROVE  FALSE
  OBVIOUS
<1>1. d \in Active(cur) /\ d \notin InChain(d)
  BY DEF Orphans
<1>2. d \in InChain(d)
  BY <1>1, Library_Assumption DEF Active, InChain
<1> QED BY <1>1, <1>2

----------------------------------------------------------------------------
(* Types *)

\* The resting call and the resting worker are well typed.
LEMMA NoneTypes ==
    /\ 1 \in Profiles /\ 0 \in Ranks
    /\ NoCall \in CallRecords
    /\ NoWork \in WorkRecords
<1>1. /\ 1 \in Profiles /\ 0 \in Ranks
      /\ {Orig, Torn, Nothing} \in SUBSET Contents
  BY Library_Assumption, ModsCount DEF Profiles, Ranks, Contents
<1>2. NoCall \in CallRecords
  BY <1>1 DEF NoCall, CallRecords, NoFile, Phases
<1>3. NoWork \in WorkRecords
  BY <1>1 DEF NoWork, WorkRecords, NoFile, Stages, Mends
<1> QED BY <1>1, <1>2, <1>3

\* The type invariant holds at the start.
LEMMA TypeInit == Init => TypeInv
<1> SUFFICES ASSUME Init PROVE TypeInv
  OBVIOUS
<1>4. TypeOK
  BY NoneTypes DEF Init, TypeOK, NoFile, Contents
<1> QED
  BY <1>4 DEF Init, TypeInv, CallHasMod, WorkerHasCall, CopyHasSource, BackupUnderWay,
              NoCall, NoWork

\* A step of one call that leaves the folders and the worker alone.
LEMMA CallStepTypes ==
    ASSUME TypeInv, NEW o \in Ops, NEW c \in CallRecords, ModKnown(c),
           op[o].phase = "work" => c.phase = "work" /\ c.kind = op[o].kind,
           op' = [op EXCEPT ![o] = c],
           at' \in [Profiles -> [Mods -> Ranks]], saved' \in [Profiles -> [Mods -> Ranks]],
           cur' = cur, UNCHANGED <<disk, worker>>
    PROVE  TypeInv'
<1> USE DEF TypeInv
<1>1. TypeOK'
  BY DEF TypeOK, disk
<1>2. CallHasMod'
  BY DEF TypeOK, CallHasMod, ModKnown
<1>3. WorkerHasCall'
  BY DEF TypeOK, WorkerHasCall
<1>4. CopyHasSource' /\ BackupUnderWay'
  BY DEF CopyHasSource, BackupUnderWay, Holders, disk
<1> QED BY <1>1, <1>2, <1>3, <1>4

\* EnableBegin keeps the type invariant.
LEMMA EnableBeginTypes ==
    ASSUME TypeInv, NEW o \in Ops, NEW m \in Mods, EnableBegin(o, m)
    PROVE  TypeInv'
<1> DEFINE c == [NoCall EXCEPT !.kind = "enable", !.phase = "survey", !.prof = cur,
                               !.target = m, !.todo = InChain(m) \ Active(cur)]
<1>1. InChain(m) \in SUBSET Mods
  BY Library_Assumption DEF InChain
<1>2. c \in CallRecords /\ ModKnown(c)
  BY <1>1, NoneTypes DEF CallRecords, Commands, Phases, ModKnown, TypeInv, TypeOK
<1>3. /\ op[o].phase = "work" => c.phase = "work" /\ c.kind = op[o].kind
      /\ op' = [op EXCEPT ![o] = c] /\ UNCHANGED <<disk, worker>> /\ cur' = cur
  BY DEF EnableBegin, TypeInv, TypeOK, CallRecords, lists
<1> QED
  <2> HIDE DEF c
  <2> QED BY <1>2, <1>3, CallStepTypes DEF EnableBegin, TypeInv, TypeOK, lists

\* EnableSurvey keeps the type invariant.
LEMMA EnableSurveyTypes ==
    ASSUME TypeInv, NEW o \in Ops, EnableSurvey(o)
    PROVE  TypeInv'
<1> DEFINE c == [op[o] EXCEPT !.phase = "next", !.others = FilesOf(OnFolder)]
<1>1. FilesOf(OnFolder) \in SUBSET Files
  BY Library_Assumption, ActiveSets DEF FilesOf, TypeInv
<1>2. c \in CallRecords /\ ModKnown(c)
  <2>1. op[o] \in CallRecords
    BY DEF TypeInv, TypeOK
  <2> QED BY <1>1, <2>1 DEF CallRecords, Commands, Phases, ModKnown
<1>3. /\ op[o].phase = "work" => c.phase = "work" /\ c.kind = op[o].kind
      /\ op' = [op EXCEPT ![o] = c] /\ UNCHANGED <<disk, worker>> /\ cur' = cur
  BY DEF EnableSurvey, TypeInv, TypeOK, CallRecords, lists
<1> QED
  <2> HIDE DEF c
  <2> QED BY <1>2, <1>3, CallStepTypes DEF EnableSurvey, TypeInv, TypeOK, lists

\* EnableNext keeps the type invariant.
LEMMA EnableNextTypes ==
    ASSUME TypeInv, NEW o \in Ops, NEW m \in Mods, EnableNext(o, m)
    PROVE  TypeInv'
<1> DEFINE c == [op[o] EXCEPT !.phase = "wait", !.mod = m, !.todo = @ \ {m}]
<1>1. c \in CallRecords /\ ModKnown(c)
  <2>1. op[o] \in CallRecords
    BY DEF TypeInv, TypeOK
  <2> QED BY <2>1 DEF CallRecords, Commands, Phases, ModKnown
<1>2. /\ op[o].phase = "work" => c.phase = "work" /\ c.kind = op[o].kind
      /\ op' = [op EXCEPT ![o] = c] /\ UNCHANGED <<disk, worker>> /\ cur' = cur
  BY DEF EnableNext, TypeInv, TypeOK, CallRecords, lists
<1> QED
  <2> HIDE DEF c
  <2> QED BY <1>1, <1>2, CallStepTypes DEF EnableNext, TypeInv, TypeOK, lists

\* EnableLeave keeps the type invariant.
LEMMA EnableLeaveTypes ==
    ASSUME TypeInv, NEW o \in Ops, EnableLeave(o)
    PROVE  TypeInv'
<1> DEFINE c == [op[o] EXCEPT !.phase = "save"]
<1>1. c \in CallRecords /\ ModKnown(c)
  <2>1. op[o] \in CallRecords
    BY DEF TypeInv, TypeOK
  <2> QED BY <2>1 DEF CallRecords, Commands, Phases, ModKnown
<1>2. /\ op[o].phase = "work" => c.phase = "work" /\ c.kind = op[o].kind
      /\ op' = [op EXCEPT ![o] = c] /\ UNCHANGED <<disk, worker>> /\ cur' = cur
  BY DEF EnableLeave, TypeInv, TypeOK, CallRecords, lists
<1> QED
  <2> HIDE DEF c
  <2> QED BY <1>1, <1>2, CallStepTypes DEF EnableLeave, TypeInv, TypeOK, lists

\* EnableRecord keeps the type invariant.
LEMMA EnableRecordTypes ==
    ASSUME TypeInv, NEW o \in Ops, EnableRecord(o)
    PROVE  TypeInv'
<1> DEFINE c == [op[o] EXCEPT !.phase = "next", !.others = @ \cup Ships[op[o].mod],
                               !.mod = Nothing]
<1>1. op[o].mod \in Mods /\ Ships[op[o].mod] \in SUBSET Files
  BY Library_Assumption DEF EnableRecord, TypeInv, CallHasMod
<1>2. c \in CallRecords /\ ModKnown(c)
  <2>1. op[o] \in CallRecords
    BY DEF TypeInv, TypeOK
  <2> QED BY <1>1, <2>1 DEF CallRecords, Commands, Phases, ModKnown
<1>3. /\ op[o].phase = "work" => c.phase = "work" /\ c.kind = op[o].kind
      /\ op' = [op EXCEPT ![o] = c] /\ UNCHANGED <<disk, worker>> /\ cur' = cur
  BY DEF EnableRecord, TypeInv, TypeOK, CallRecords, lists
<1>4. at' \in [Profiles -> [Mods -> Ranks]] /\ saved' \in [Profiles -> [Mods -> Ranks]]
  <2>1. \A p \in Profiles : Pushed(at[p], op[o].mod) \in [Mods -> Ranks]
    BY <1>1, PushedType DEF TypeInv, TypeOK
  <2> QED BY <2>1 DEF EnableRecord, TypeInv, TypeOK
<1> QED
  <2> HIDE DEF c
  <2> QED BY <1>2, <1>3, <1>4, CallStepTypes

\* The plan of a disable is a well-typed call.
LEMMA DisablePlanType ==
    ASSUME TypeOK, NEW c \in CallRecords, NEW m \in Mods
    PROVE  DisablePlan(c, m) \in CallRecords /\ ModKnown(DisablePlan(c, m))
<1>1. \A f \in Files : Fallback(cur, {m}, f) \in Contents
  <2> TAKE f \in Files
  <2>1. Providing(OnFolder \ {m}, f) \in SUBSET Mods
    BY ActiveSets DEF Providing
  <2> QED BY <2>1, FallbackProvides DEF Contents, TypeOK
<1>2. [f \in Files |-> IF f \in Ships[m] THEN Fallback(cur, {m}, f) ELSE Nothing]
          \in [Files -> Contents]
  BY <1>1 DEF Contents
<1>3. cur \in Profiles /\ Ships[m] \in SUBSET Files
  BY Library_Assumption DEF TypeOK
<1> QED BY <1>2, <1>3 DEF DisablePlan, CallRecords, Phases, ModKnown

\* DisableBegin keeps the type invariant.
LEMMA DisableBeginTypes ==
    ASSUME TypeInv, NEW o \in Ops, NEW m \in Mods, DisableBegin(o, m)
    PROVE  TypeInv'
<1> DEFINE d == [NoCall EXCEPT !.kind = "disable", !.target = m]
           c == DisablePlan(d, m)
<1>1. d \in CallRecords
  BY NoneTypes DEF CallRecords, Commands
<1>2. c \in CallRecords /\ ModKnown(c)
  <2> HIDE DEF d
  <2> QED BY <1>1, DisablePlanType DEF TypeInv
<1>3. /\ op[o].phase # "work" /\ op' = [op EXCEPT ![o] = c]
      /\ UNCHANGED <<disk, lists, worker>>
  BY DEF DisableBegin
<1> QED
  <2> HIDE DEF c
  <2> QED BY <1>2, <1>3, CallStepTypes DEF TypeInv, TypeOK, lists

\* DisableRecord keeps the type invariant.
LEMMA DisableRecordTypes ==
    ASSUME TypeInv, NEW o \in Ops, DisableRecord(o)
    PROVE  TypeInv'
<1> DEFINE c == [op[o] EXCEPT !.phase = "save"]
<1>1. c \in CallRecords /\ ModKnown(c)
  <2>1. op[o] \in CallRecords
    BY DEF TypeInv, TypeOK
  <2> QED BY <2>1 DEF CallRecords, Commands, Phases, ModKnown
<1>2. /\ op[o].phase = "work" => c.phase = "work" /\ c.kind = op[o].kind
      /\ op' = [op EXCEPT ![o] = c] /\ UNCHANGED <<disk, worker>> /\ cur' = cur
  BY DEF DisableRecord, TypeInv, TypeOK, CallRecords, lists
<1>3. at' \in [Profiles -> [Mods -> Ranks]] /\ saved' \in [Profiles -> [Mods -> Ranks]]
  <2>1. \A p \in Profiles : Retained(at[p], {op[o].mod}) \in [Mods -> Ranks]
    BY RetainedType DEF TypeInv, TypeOK
  <2> QED BY <2>1 DEF DisableRecord, TypeInv, TypeOK
<1> QED
  <2> HIDE DEF c
  <2> QED BY <1>1, <1>2, <1>3, CallStepTypes

\* BulkBegin keeps the type invariant.
LEMMA BulkBeginTypes ==
    ASSUME TypeInv, NEW o \in Ops, NEW asked \in BulkGroups, NEW wanted \in SUBSET Mods, BulkBegin(o, asked, wanted)
    PROVE  TypeInv'
<1> DEFINE touched == {p \in asked : Active(p) \cap wanted # {}}
           mine == [p \in Profiles |-> IF p \in touched THEN Active(p) \cap wanted ELSE {}]
           c == [NoCall EXCEPT !.kind = "bulk", !.phase = "next", !.group = touched,
                               !.tasks = touched, !.gone = wanted, !.mine = mine]
<1>1. touched \in SUBSET Profiles /\ mine \in [Profiles -> SUBSET Mods]
  BY Library_Assumption DEF Active
<1>2. c \in CallRecords /\ ModKnown(c)
  BY <1>1, NoneTypes DEF CallRecords, Commands, Phases, ModKnown, TypeInv, TypeOK
<1>3. /\ op[o].phase = "work" => c.phase = "work" /\ c.kind = op[o].kind
      /\ op' = [op EXCEPT ![o] = c] /\ UNCHANGED <<disk, worker>> /\ cur' = cur
  BY DEF BulkBegin, TypeInv, TypeOK, CallRecords, lists
<1> QED
  <2> HIDE DEF c
  <2> QED BY <1>2, <1>3, CallStepTypes DEF BulkBegin, TypeInv, TypeOK, lists

\* BulkNext keeps the type invariant.
LEMMA BulkNextTypes ==
    ASSUME TypeInv, NEW o \in Ops, NEW p \in Profiles, BulkNext(o, p)
    PROVE  TypeInv'
<1> DEFINE mine == op[o].mine[p]
           files == FilesOf(mine)
           under == [f \in Files |-> IF f \in files THEN BatchFallback(mine, f) ELSE Nothing]
           c == [op[o] EXCEPT !.phase = "wait", !.prof = p, !.tasks = @ \ {p},
                               !.files = files, !.under = under]
<1>1. files \in SUBSET Files /\ under \in [Files -> Contents]
  <2>1. mine \in SUBSET Mods
    BY DEF TypeInv, TypeOK, CallRecords
  <2>2. files \in SUBSET Files
    BY <2>1, Library_Assumption DEF FilesOf
  <2>3. \A f \in Files : BatchFallback(mine, f) \in Contents
    <3> HIDE DEF mine
    <3> TAKE f \in Files
    <3>1. Providing(OnFolder \ mine, f) \in SUBSET Mods
      BY ActiveSets DEF Providing, TypeInv
    <3> QED BY <2>1, <3>1, BatchFallbackProvides DEF Contents, TypeInv
  <2> HIDE DEF files, mine
  <2> QED BY <2>2, <2>3 DEF Contents
<1>2. c \in CallRecords /\ ModKnown(c)
  <2>1. op[o] \in CallRecords /\ op[o].kind = "bulk"
    BY DEF TypeInv, TypeOK, BulkNext
  <2>2. op[o].tasks \ {p} \in SUBSET Profiles
    BY <2>1 DEF CallRecords
  <2>3. c = [op[o] EXCEPT !.phase = "wait", !.prof = p, !.tasks = op[o].tasks \ {p},
                          !.files = files, !.under = under]
    BY <2>1 DEF CallRecords
  <2> HIDE DEF files, under, mine
  <2>4. c \in CallRecords
    BY <1>1, <2>1, <2>2, <2>3 DEF CallRecords, Phases
  <2>5. c.kind = "bulk"
    BY <2>1, <2>3 DEF CallRecords
  <2> HIDE DEF c
  <2> QED BY <2>4, <2>5 DEF ModKnown
<1>3. /\ op[o].phase = "work" => c.phase = "work" /\ c.kind = op[o].kind
      /\ op' = [op EXCEPT ![o] = c] /\ UNCHANGED <<disk, worker>> /\ cur' = cur
  BY DEF BulkNext, TypeInv, TypeOK, CallRecords, lists
<1> QED
  <2> HIDE DEF c
  <2> QED BY <1>2, <1>3, CallStepTypes DEF BulkNext, TypeInv, TypeOK, lists

\* BulkRecord keeps the type invariant.
LEMMA BulkRecordTypes ==
    ASSUME TypeInv, NEW o \in Ops, BulkRecord(o)
    PROVE  TypeInv'
<1> DEFINE c == [op[o] EXCEPT !.phase = "save"]
<1>1. c \in CallRecords /\ ModKnown(c)
  <2>1. op[o] \in CallRecords
    BY DEF TypeInv, TypeOK
  <2> QED BY <2>1 DEF CallRecords, Commands, Phases, ModKnown
<1>2. /\ op[o].phase = "work" => c.phase = "work" /\ c.kind = op[o].kind
      /\ op' = [op EXCEPT ![o] = c] /\ UNCHANGED <<disk, worker>> /\ cur' = cur
  BY DEF BulkRecord, TypeInv, TypeOK, CallRecords, lists
<1>3. at' \in [Profiles -> [Mods -> Ranks]] /\ saved' \in [Profiles -> [Mods -> Ranks]]
  <2>1. \A p \in Profiles : Retained(at[p], op[o].gone) \in [Mods -> Ranks]
    BY RetainedType DEF TypeInv, TypeOK
  <2> QED BY <2>1 DEF BulkRecord, TypeInv, TypeOK
<1> QED
  <2> HIDE DEF c
  <2> QED BY <1>1, <1>2, <1>3, CallStepTypes

\* Save keeps the type invariant.
LEMMA SaveTypes ==
    ASSUME TypeInv, NEW o \in Ops, Save(o)
    PROVE  TypeInv'
<1> DEFINE c == NoCall
<1>1. c \in CallRecords /\ ModKnown(c)
  BY NoneTypes DEF CallRecords, Commands, Phases, ModKnown, TypeInv, TypeOK, NoCall
<1>2. /\ op[o].phase = "work" => c.phase = "work" /\ c.kind = op[o].kind
      /\ op' = [op EXCEPT ![o] = c] /\ UNCHANGED <<disk, worker>> /\ cur' = cur
  BY DEF Save, TypeInv, TypeOK, CallRecords, lists
<1>3. at' \in [Profiles -> [Mods -> Ranks]] /\ saved' \in [Profiles -> [Mods -> Ranks]]
  BY DEF Save, TypeInv, TypeOK
<1> QED
  <2> HIDE DEF c
  <2> QED BY <1>1, <1>2, <1>3, CallStepTypes

\* Cancel keeps the type invariant.
LEMMA CancelTypes ==
    ASSUME TypeInv, NEW o \in Ops, Cancel(o)
    PROVE  TypeInv'
<1> DEFINE c == [op[o] EXCEPT !.stop = TRUE]
<1>1. c \in CallRecords /\ ModKnown(c)
  <2>1. op[o] \in CallRecords
    BY DEF TypeInv, TypeOK
  <2> QED BY <2>1 DEF CallRecords, Commands, Phases, ModKnown, TypeInv, CallHasMod
<1>2. /\ op[o].phase = "work" => c.phase = "work" /\ c.kind = op[o].kind
      /\ op' = [op EXCEPT ![o] = c] /\ UNCHANGED <<disk, worker>> /\ cur' = cur
  BY DEF Cancel, TypeInv, TypeOK, CallRecords, lists
<1> QED
  <2> HIDE DEF c
  <2> QED BY <1>1, <1>2, CallStepTypes DEF Cancel, TypeInv, TypeOK, lists

\* LeaveQueue keeps the type invariant.
LEMMA LeaveQueueTypes ==
    ASSUME TypeInv, NEW o \in Ops, LeaveQueue(o)
    PROVE  TypeInv'
<1> DEFINE c == AfterStop(op[o])
<1>1. c \in CallRecords /\ ModKnown(c)
  <2>1. op[o] \in CallRecords
    BY DEF TypeInv, TypeOK
  <2> QED BY <2>1, NoneTypes DEF CallRecords, Commands, Phases, ModKnown, AfterStop, NoCall
<1>2. /\ op[o].phase = "work" => c.phase = "work" /\ c.kind = op[o].kind
      /\ op' = [op EXCEPT ![o] = c] /\ UNCHANGED <<disk, worker>> /\ cur' = cur
  BY DEF LeaveQueue, TypeInv, TypeOK, CallRecords, lists
<1> QED
  <2> HIDE DEF c
  <2> QED BY <1>1, <1>2, CallStepTypes DEF LeaveQueue, TypeInv, TypeOK, lists

\* EnableStart keeps the type invariant.
LEMMA EnableStartTypes ==
    ASSUME TypeInv, NEW o \in Ops, EnableStart(o)
    PROVE  TypeInv'
<1>1. op[o] \in CallRecords /\ op[o].mod \in Mods /\ Ships[op[o].mod] \in SUBSET Files
  BY Library_Assumption DEF EnableStart, TypeInv, TypeOK, CallHasMod
<1>2. worker' \in WorkRecords
  BY <1>1, NoneTypes DEF EnableStart, WorkRecords, CallRecords
<1>3. TypeOK'
  BY <1>1, <1>2 DEF EnableStart, TypeInv, TypeOK, CallRecords, Phases, disk, lists
<1>4. CallHasMod' /\ WorkerHasCall'
  BY <1>1 DEF EnableStart, TypeInv, TypeOK, CallRecords, CallHasMod, WorkerHasCall, NoWork
<1>5. CopyHasSource' /\ BackupUnderWay'
  BY DEF EnableStart, CopyHasSource, BackupUnderWay, NoWork
<1> QED BY <1>3, <1>4, <1>5 DEF TypeInv

\* DisableStart keeps the type invariant.
LEMMA DisableStartTypes ==
    ASSUME TypeInv, NEW o \in Ops, DisableStart(o)
    PROVE  TypeInv'
<1>1. op[o] \in CallRecords /\ op[o].mod \in Mods
  BY DEF DisableStart, TypeInv, TypeOK, CallHasMod
<1>2. worker' \in WorkRecords
  BY <1>1, NoneTypes DEF DisableStart, WorkRecords, CallRecords
<1>3. TypeOK'
  BY <1>1, <1>2 DEF DisableStart, TypeInv, TypeOK, CallRecords, Phases, disk, lists
<1>4. CallHasMod' /\ WorkerHasCall'
  BY <1>1 DEF DisableStart, TypeInv, TypeOK, CallRecords, CallHasMod, WorkerHasCall, NoWork
<1>5. CopyHasSource' /\ BackupUnderWay'
  BY DEF DisableStart, CopyHasSource, BackupUnderWay, NoWork
<1> QED BY <1>3, <1>4, <1>5 DEF TypeInv

\* BulkStart keeps the type invariant.
LEMMA BulkStartTypes ==
    ASSUME TypeInv, NEW o \in Ops, BulkStart(o)
    PROVE  TypeInv'
<1>1. op[o] \in CallRecords
  BY DEF TypeInv, TypeOK
<1>2. worker' \in WorkRecords
  BY <1>1, NoneTypes DEF BulkStart, WorkRecords, CallRecords
<1>3. TypeOK'
  BY <1>1, <1>2 DEF BulkStart, TypeInv, TypeOK, CallRecords, Phases, disk, lists
<1>4. CallHasMod' /\ WorkerHasCall'
  BY <1>1 DEF BulkStart, TypeInv, TypeOK, CallRecords, CallHasMod, WorkerHasCall, NoWork
<1>5. CopyHasSource' /\ BackupUnderWay'
  BY DEF BulkStart, CopyHasSource, BackupUnderWay, NoWork
<1> QED BY <1>3, <1>4, <1>5 DEF TypeInv

\* ApplyFile keeps the type invariant.
LEMMA ApplyFileTypes ==
    ASSUME TypeInv, NEW f \in Files, ApplyFile(f)
    PROVE  TypeInv'
<1> USE DEF TypeInv
<1>1. CASE NeedsBackup(f)
  <2>1. backup' = [backup EXCEPT ![worker.prof][f] = Torn] /\ worker' = Set(f, "backup")
    BY <1>1 DEF ApplyFile
  <2>2. TypeOK'
    BY <2>1 DEF ApplyFile, Set, TypeOK, WorkRecords, Stages, Contents, lists
  <2>3. CallHasMod' /\ WorkerHasCall'
    BY <2>1 DEF ApplyFile, Set, TypeOK, WorkRecords, CallHasMod, WorkerHasCall
  <2>4. CopyHasSource' /\ BackupUnderWay'
    BY <2>1 DEF ApplyFile, Set, TypeOK, WorkRecords, CopyHasSource, BackupUnderWay
  <2> QED BY <2>2, <2>3, <2>4
<1>2. CASE ~NeedsBackup(f)
  <2> DEFINE mend == MendFor(f)
  <2>1. /\ worker' = [worker EXCEPT !.stage[f] = "ready", !.mend[f] = mend,
                                    !.stash[f] = game[f]]
        /\ backup' = backup
    BY <1>2 DEF ApplyFile
  <2>2. mend \in Mends
    BY DEF MendFor, Mends
  <2> HIDE DEF mend
  <2>3. worker' \in WorkRecords
    BY <2>1, <2>2 DEF TypeOK, WorkRecords, Stages
  <2>4. TypeOK'
    BY <2>1, <2>3 DEF ApplyFile, TypeOK, lists
  <2>5. CallHasMod' /\ WorkerHasCall'
    BY <2>1 DEF ApplyFile, TypeOK, WorkRecords, CallHasMod, WorkerHasCall
  <2>6. CopyHasSource' /\ BackupUnderWay'
    BY <2>1 DEF ApplyFile, TypeOK, WorkRecords, CopyHasSource, BackupUnderWay, Holders
  <2> QED BY <2>4, <2>5, <2>6
<1> QED BY <1>1, <1>2

\* BackupWritten keeps the type invariant.
LEMMA BackupWrittenTypes ==
    ASSUME TypeInv, NEW f \in Files, BackupWritten(f)
    PROVE  TypeInv'
<1> USE DEF BackupWritten, Set, lists, disk
<1>1. TypeOK'
  BY DEF TypeInv, TypeOK, WorkRecords, Stages, Mends, Contents
<1>2. CallHasMod' /\ WorkerHasCall'
  BY DEF TypeInv, TypeOK, WorkRecords, CallHasMod, WorkerHasCall
<1>3. CopyHasSource'
  BY DEF TypeInv, TypeOK, WorkRecords, CopyHasSource, Holders
<1>4. BackupUnderWay'
  BY DEF TypeInv, TypeOK, WorkRecords, BackupUnderWay
<1> QED BY <1>1, <1>2, <1>3, <1>4 DEF TypeInv

\* BackupFails keeps the type invariant.
LEMMA BackupFailsTypes ==
    ASSUME TypeInv, NEW f \in Files, BackupFails(f)
    PROVE  TypeInv'
<1> USE DEF TypeInv
<1>1. /\ worker.task = "apply" /\ worker.stage[f] = "backup"
      /\ UNCHANGED <<game, lists, op>>
  BY DEF BackupFails
<1>2. CASE worker' = [worker EXCEPT !.stage[f] = "ready", !.mend[f] = "unbackup"]
           /\ UNCHANGED backup
  <2>1. TypeOK'
    BY <1>1, <1>2 DEF TypeOK, WorkRecords, Stages, Mends, lists
  <2>2. CallHasMod' /\ WorkerHasCall'
    BY <1>1, <1>2 DEF TypeOK, WorkRecords, CallHasMod, WorkerHasCall
  <2>3. CopyHasSource' /\ BackupUnderWay'
    BY <1>1, <1>2 DEF TypeOK, WorkRecords, CopyHasSource, BackupUnderWay
  <2> QED BY <2>1, <2>2, <2>3
<1>3. CASE /\ worker' = [worker EXCEPT !.stage[f] = "ready", !.mend[f] = "stash",
                                       !.stash[f] = game[f]]
           /\ backup' = [backup EXCEPT ![worker.prof][f] = Nothing]
  <2>1. TypeOK'
    <3>1. worker' \in WorkRecords
      BY <1>1, <1>3 DEF TypeOK, WorkRecords, Stages, Mends
    <3>2. backup' \in [Profiles -> [Files -> Contents]]
      BY <1>3 DEF TypeOK, WorkRecords, Contents
    <3> QED BY <1>1, <3>1, <3>2 DEF TypeOK, lists
  <2>2. CallHasMod' /\ WorkerHasCall'
    BY <1>1, <1>3 DEF TypeOK, WorkRecords, CallHasMod, WorkerHasCall
  <2>3. CopyHasSource' /\ BackupUnderWay'
    BY <1>1, <1>3 DEF TypeOK, WorkRecords, CopyHasSource, BackupUnderWay
  <2> QED BY <2>1, <2>2, <2>3
<1> QED BY <1>2, <1>3 DEF BackupFails

\* CopyStarts keeps the type invariant.
LEMMA CopyStartsTypes ==
    ASSUME TypeInv, NEW f \in Files, CopyStarts(f)
    PROVE  TypeInv'
<1> USE DEF CopyStarts, Set, lists, disk
<1>1. TypeOK'
  BY DEF TypeInv, TypeOK, WorkRecords, Stages, Mends, Contents
<1>2. CallHasMod' /\ WorkerHasCall'
  BY DEF TypeInv, TypeOK, WorkRecords, CallHasMod, WorkerHasCall
<1>3. CopyHasSource'
  BY DEF TypeInv, TypeOK, WorkRecords, CopyHasSource, Holders
<1>4. BackupUnderWay'
  BY DEF TypeInv, TypeOK, WorkRecords, BackupUnderWay
<1> QED BY <1>1, <1>2, <1>3, <1>4 DEF TypeInv

\* CopyEnds keeps the type invariant.
LEMMA CopyEndsTypes ==
    ASSUME TypeInv, NEW f \in Files, CopyEnds(f)
    PROVE  TypeInv'
<1> USE DEF CopyEnds, Set, lists, disk
<1>1. TypeOK'
  BY DEF TypeInv, TypeOK, WorkRecords, Stages, Mends, Contents
<1>2. CallHasMod' /\ WorkerHasCall'
  BY DEF TypeInv, TypeOK, WorkRecords, CallHasMod, WorkerHasCall
<1>3. CopyHasSource'
  BY DEF TypeInv, TypeOK, WorkRecords, CopyHasSource, Holders
<1>4. BackupUnderWay'
  BY DEF TypeInv, TypeOK, WorkRecords, BackupUnderWay
<1> QED BY <1>1, <1>2, <1>3, <1>4 DEF TypeInv

\* CopyFails keeps the type invariant.
LEMMA CopyFailsTypes ==
    ASSUME TypeInv, NEW f \in Files, CopyFails(f)
    PROVE  TypeInv'
<1> USE DEF CopyFails, Set, lists, disk
<1>1. TypeOK'
  BY DEF TypeInv, TypeOK, WorkRecords, Stages, Mends, Contents
<1>2. CallHasMod' /\ WorkerHasCall'
  BY DEF TypeInv, TypeOK, WorkRecords, CallHasMod, WorkerHasCall
<1>3. CopyHasSource'
  BY DEF TypeInv, TypeOK, WorkRecords, CopyHasSource, Holders
<1>4. BackupUnderWay'
  BY DEF TypeInv, TypeOK, WorkRecords, BackupUnderWay
<1> QED BY <1>1, <1>2, <1>3, <1>4 DEF TypeInv

\* RollBack keeps the type invariant.
LEMMA RollBackTypes ==
    ASSUME TypeInv, NEW f \in Files, RollBack(f)
    PROVE  TypeInv'
<1> USE DEF RollBack, Set, lists, disk
<1> DEFINE own == backup[worker.prof][f]
<1>0. own \in Contents /\ worker.stash[f] \in Contents /\ Nothing \in Contents
  BY DEF TypeInv, TypeOK, WorkRecords, Contents
<1>1. TypeOK'
  <2>1. game' \in [Files -> Contents]
    BY <1>0 DEF TypeInv, TypeOK
  <2>2. backup' \in [Profiles -> [Files -> Contents]]
    BY <1>0 DEF TypeInv, TypeOK, WorkRecords
  <2>3. worker' \in WorkRecords
    BY DEF TypeInv, TypeOK, WorkRecords, Stages
  <2> QED BY <2>1, <2>2, <2>3 DEF TypeInv, TypeOK
<1>2. CallHasMod' /\ WorkerHasCall'
  BY DEF TypeInv, TypeOK, WorkRecords, CallHasMod, WorkerHasCall
<1>3. CopyHasSource'
  BY DEF TypeInv, TypeOK, WorkRecords, CopyHasSource, Holders
<1>4. BackupUnderWay'
  BY DEF TypeInv, TypeOK, WorkRecords, BackupUnderWay
<1> QED BY <1>1, <1>2, <1>3, <1>4 DEF TypeInv

\* DeleteFile keeps the type invariant.
LEMMA DeleteFileTypes ==
    ASSUME TypeInv, NEW f \in Files, DeleteFile(f)
    PROVE  TypeInv'
<1> USE DEF DeleteFile, Set, lists, disk
<1>1. TypeOK'
  BY DEF TypeInv, TypeOK, WorkRecords, Stages, Mends, Contents
<1>2. CallHasMod' /\ WorkerHasCall'
  BY DEF TypeInv, TypeOK, WorkRecords, CallHasMod, WorkerHasCall
<1>3. CopyHasSource'
  BY DEF TypeInv, TypeOK, WorkRecords, CopyHasSource, Holders
<1>4. BackupUnderWay'
  BY DEF TypeInv, TypeOK, WorkRecords, BackupUnderWay
<1> QED BY <1>1, <1>2, <1>3, <1>4 DEF TypeInv

\* RestoreStarts keeps the type invariant.
LEMMA RestoreStartsTypes ==
    ASSUME TypeInv, NEW f \in Files, RestoreStarts(f)
    PROVE  TypeInv'
<1> USE DEF RestoreStarts, Set, lists, disk
<1>1. TypeOK'
  BY DEF TypeInv, TypeOK, WorkRecords, Stages, Mends, Contents
<1>2. CallHasMod' /\ WorkerHasCall'
  BY DEF TypeInv, TypeOK, WorkRecords, CallHasMod, WorkerHasCall
<1>3. CopyHasSource'
  BY DEF TypeInv, TypeOK, WorkRecords, CopyHasSource, Holders
<1>4. BackupUnderWay'
  BY DEF TypeInv, TypeOK, WorkRecords, BackupUnderWay
<1> QED BY <1>1, <1>2, <1>3, <1>4 DEF TypeInv

\* RestoreFails keeps the type invariant.
LEMMA RestoreFailsTypes ==
    ASSUME TypeInv, NEW f \in Files, RestoreFails(f)
    PROVE  TypeInv'
<1> USE DEF RestoreFails, Set, lists, disk
<1>1. TypeOK'
  BY DEF TypeInv, TypeOK, WorkRecords, Stages, Mends, Contents
<1>2. CallHasMod' /\ WorkerHasCall'
  BY DEF TypeInv, TypeOK, WorkRecords, CallHasMod, WorkerHasCall
<1>3. CopyHasSource'
  BY DEF TypeInv, TypeOK, WorkRecords, CopyHasSource, Holders
<1>4. BackupUnderWay'
  BY DEF TypeInv, TypeOK, WorkRecords, BackupUnderWay
<1> QED BY <1>1, <1>2, <1>3, <1>4 DEF TypeInv

\* RollBackFails keeps the type invariant.
LEMMA RollBackFailsTypes ==
    ASSUME TypeInv, NEW f \in Files, RollBackFails(f)
    PROVE  TypeInv'
<1> USE DEF RollBackFails, Set, lists, disk
<1>1. TypeOK'
  BY DEF TypeInv, TypeOK, WorkRecords, Stages, Mends, Contents
<1>2. CallHasMod' /\ WorkerHasCall'
  BY DEF TypeInv, TypeOK, WorkRecords, CallHasMod, WorkerHasCall
<1>3. CopyHasSource'
  BY DEF TypeInv, TypeOK, WorkRecords, CopyHasSource, Holders
<1>4. BackupUnderWay'
  BY DEF TypeInv, TypeOK, WorkRecords, BackupUnderWay
<1> QED BY <1>1, <1>2, <1>3, <1>4 DEF TypeInv

\* RollbackStarts keeps the type invariant.
LEMMA RollbackStartsTypes ==
    ASSUME TypeInv, RollbackStarts
    PROVE  TypeInv'
<1> USE DEF RollbackStarts, Set, lists, disk
<1>1. TypeOK'
  BY DEF TypeInv, TypeOK, WorkRecords, Stages, Mends, Contents
<1>2. CallHasMod' /\ WorkerHasCall'
  BY DEF TypeInv, TypeOK, WorkRecords, CallHasMod, WorkerHasCall
<1>3. CopyHasSource'
  BY DEF TypeInv, TypeOK, WorkRecords, CopyHasSource, Holders
<1>4. BackupUnderWay'
  BY DEF TypeInv, TypeOK, WorkRecords, BackupUnderWay
<1> QED BY <1>1, <1>2, <1>3, <1>4 DEF TypeInv

\* RestoreEnds keeps the type invariant.
LEMMA RestoreEndsTypes ==
    ASSUME TypeInv, NEW f \in Files, RestoreEnds(f)
    PROVE  TypeInv'
<1> USE DEF RestoreEnds, Set, lists
<1> DEFINE holder == HolderFor(f)
<1>0. worker.under[f] = Nothing => holder \in Profiles
  BY HolderType DEF TypeInv, CopyHasSource, Holders
<1> HIDE DEF holder
<1>1. /\ game' \in [Files -> Contents]
      /\ backup' \in [Profiles -> [Files -> Contents]]
      /\ \A p \in Profiles, g \in Files : g # f => backup'[p][g] = backup[p][g]
  <2>1. CASE worker.under[f] # Nothing
    BY <2>1 DEF TypeInv, TypeOK, WorkRecords
  <2>2. CASE worker.under[f] = Nothing
    <3>1. /\ game' = [game EXCEPT ![f] = backup[holder][f]]
          /\ backup' = [backup EXCEPT ![holder][f] = Nothing]
      BY <2>2 DEF holder
    <3> QED BY <1>0, <2>2, <3>1 DEF TypeInv, TypeOK, Contents
  <2> QED BY <2>1, <2>2
<1>2. worker' \in WorkRecords
  BY DEF TypeInv, TypeOK, WorkRecords, Stages
<1>3. TypeOK'
  BY <1>1, <1>2 DEF TypeInv, TypeOK
<1>4. CallHasMod' /\ WorkerHasCall'
  BY DEF TypeInv, TypeOK, WorkRecords, CallHasMod, WorkerHasCall
<1>5. CopyHasSource'
  <2>1. \A g \in Files : g # f => Holders(g)' = Holders(g)
    BY <1>1 DEF Holders
  <2>2. worker'.stage = [worker.stage EXCEPT ![f] = "done"] /\ worker'.under = worker.under
    BY DEF TypeInv, TypeOK, WorkRecords
  <2> QED BY <2>1, <2>2 DEF TypeInv, TypeOK, WorkRecords, CopyHasSource
<1>6. BackupUnderWay'
  BY DEF TypeInv, TypeOK, WorkRecords, BackupUnderWay
<1> QED BY <1>3, <1>4, <1>5, <1>6 DEF TypeInv

\* A stopped call is at rest or about to save.
LEMMA AfterStopType ==
    ASSUME NEW c \in CallRecords
    PROVE  AfterStop(c) \in CallRecords /\ AfterStop(c).phase \in {"idle", "save"}
BY NoneTypes DEF AfterStop, CallRecords, Phases, NoCall

\* WorkerDone keeps the type invariant.
LEMMA WorkerDoneTypes ==
    ASSUME TypeInv, NEW o \in Ops, WorkerDone(o)
    PROVE  TypeInv'
<1> USE DEF WorkerDone, lists, disk
<1> DEFINE next   == [op[o] EXCEPT !.phase = "next"]
           record == [op[o] EXCEPT !.phase = "record"]
           c      == CASE worker.undo           -> AfterStop(op[o])
                       [] op[o].kind = "bulk"   -> next
                       [] OTHER                 -> record
<1>1. op[o] \in CallRecords /\ op[o].phase = "work" /\ worker.by = o /\ o # NoOp
  BY Library_Assumption DEF TypeInv, TypeOK, WorkerHasCall
<1>2. c \in CallRecords /\ ModKnown(c)
  <2>1. next \in CallRecords /\ next.kind = op[o].kind
    BY <1>1 DEF CallRecords, Phases
  <2>2. record \in CallRecords /\ record.kind = op[o].kind /\ record.mod = op[o].mod
    BY <1>1 DEF CallRecords, Phases
  <2>3. op[o].kind \in {"enable", "disable"} => op[o].mod \in Mods
    BY <1>1 DEF TypeInv, CallHasMod
  <2>4. AfterStop(op[o]) \in CallRecords /\ ModKnown(AfterStop(op[o]))
    BY <1>1, AfterStopType DEF ModKnown
  <2>5. op[o].kind = "bulk" => ModKnown(next)
    BY <2>1 DEF ModKnown
  <2>6. ModKnown(record)
    BY <2>2, <2>3 DEF ModKnown
  <2> HIDE DEF next, record
  <2> QED BY <2>1, <2>2, <2>4, <2>5, <2>6
<1>3. op' = [op EXCEPT ![o] = c]
  OBVIOUS
<1> HIDE DEF next, record, c
<1>4. op' \in [Ops -> CallRecords]
  BY <1>2, <1>3 DEF TypeInv, TypeOK
<1>5. TypeOK'
  BY <1>4, NoneTypes DEF TypeInv, TypeOK
<1>6. CallHasMod' /\ WorkerHasCall'
  BY <1>1, <1>2, <1>3 DEF TypeInv, TypeOK, CallHasMod, WorkerHasCall, NoWork, ModKnown
<1>7. CopyHasSource' /\ BackupUnderWay'
  BY DEF CopyHasSource, BackupUnderWay, NoWork
<1> QED BY <1>5, <1>6, <1>7 DEF TypeInv

\* WorkerErr keeps the type invariant.
LEMMA WorkerErrTypes ==
    ASSUME TypeInv, NEW o \in Ops, WorkerErr(o)
    PROVE  TypeInv'
<1> USE DEF WorkerErr, lists, disk
<1>1. op[o] \in CallRecords /\ worker.by = o
  BY DEF TypeInv, TypeOK
<1>2. PICK c \in CallRecords : ModKnown(c) /\ op' = [op EXCEPT ![o] = c]
  <2>1. CASE op[o].kind = "bulk"
    <3>1. [op[o] EXCEPT !.phase = "next"] \in CallRecords
      BY <1>1 DEF CallRecords, Phases
    <3> QED BY <1>1, <2>1, <3>1 DEF CallRecords, ModKnown
  <2>2. CASE op[o].kind # "bulk"
    BY <1>1, <2>2, AfterStopType DEF ModKnown
  <2> QED BY <2>1, <2>2
<1>3. TypeOK'
  BY <1>2, NoneTypes DEF TypeInv, TypeOK
<1>4. CallHasMod' /\ WorkerHasCall'
  BY <1>1, <1>2 DEF TypeInv, TypeOK, CallHasMod, WorkerHasCall, NoWork, ModKnown
<1>5. CopyHasSource' /\ BackupUnderWay'
  BY DEF CopyHasSource, BackupUnderWay, NoWork
<1> QED BY <1>3, <1>4, <1>5 DEF TypeInv

\* KillAndUndo keeps the type invariant.
LEMMA KillAndUndoTypes ==
    ASSUME TypeInv, NEW o \in Ops, KillAndUndo(o)
    PROVE  TypeInv'
<1> USE DEF KillAndUndo, lists, disk
<1>0. worker.mod \in Mods /\ Ships[worker.mod] \in SUBSET Files
  BY Library_Assumption DEF TypeInv, WorkerHasCall
<1>1. TypeOK'
  BY NoneTypes, <1>0 DEF TypeInv, TypeOK, CallRecords, WorkRecords, Phases, Contents
<1>2. CallHasMod' /\ WorkerHasCall'
  BY <1>0 DEF TypeInv, TypeOK, CallRecords, CallHasMod, WorkerHasCall, NoWork, NoCall
<1>3. CopyHasSource' /\ BackupUnderWay'
  BY DEF CopyHasSource, BackupUnderWay, NoWork, TypeInv, Holders
<1> QED BY <1>1, <1>2, <1>3 DEF TypeInv

\* StopBulk keeps the type invariant.
LEMMA StopBulkTypes ==
    ASSUME TypeInv, NEW o \in Ops, StopBulk(o)
    PROVE  TypeInv'
<1> USE DEF StopBulk, lists, disk
<1>1. op[o] \in CallRecords /\ worker.by = o
  BY DEF TypeInv, TypeOK
<1>2. PICK c \in CallRecords : ModKnown(c) /\ op' = [op EXCEPT ![o] = c]
  <2>1. [op[o] EXCEPT !.phase = "next"] \in CallRecords
    BY <1>1 DEF CallRecords, Phases
  <2> QED BY <1>1, <2>1 DEF CallRecords, ModKnown
<1>3. TypeOK'
  <2>1. op' \in [Ops -> CallRecords]
    BY <1>2 DEF TypeInv, TypeOK
  <2>2. game' \in [Files -> Contents]
    BY DEF TypeInv, TypeOK, Contents
  <2> QED BY <2>1, <2>2, NoneTypes DEF TypeInv, TypeOK
<1>4. CallHasMod' /\ WorkerHasCall'
  BY <1>1, <1>2 DEF TypeInv, TypeOK, CallHasMod, WorkerHasCall, NoWork, ModKnown
<1>5. CopyHasSource' /\ BackupUnderWay'
  BY DEF CopyHasSource, BackupUnderWay, NoWork
<1> QED BY <1>3, <1>4, <1>5 DEF TypeInv

\* SwitchProfile keeps the type invariant.
LEMMA SwitchProfileTypes ==
    ASSUME TypeInv, NEW p \in Profiles, SwitchProfile(p)
    PROVE  TypeInv'
<1> USE DEF SwitchProfile, lists, disk
<1>1. TypeOK'
  BY NoneTypes DEF TypeInv, TypeOK, CallRecords, WorkRecords, Phases, Contents
<1>2. CallHasMod' /\ WorkerHasCall'
  BY DEF TypeInv, TypeOK, CallRecords, CallHasMod, WorkerHasCall, NoWork, NoCall
<1>3. CopyHasSource' /\ BackupUnderWay'
  BY DEF CopyHasSource, BackupUnderWay, NoWork, TypeInv, Holders
<1> QED BY <1>1, <1>2, <1>3 DEF TypeInv

\* Crash keeps the type invariant.
LEMMA CrashTypes ==
    ASSUME TypeInv, Crash
    PROVE  TypeInv'
<1> USE DEF Crash, lists, disk
<1>1. TypeOK'
  BY NoneTypes DEF TypeInv, TypeOK, CallRecords, WorkRecords, Phases, Contents
<1>2. CallHasMod' /\ WorkerHasCall'
  BY DEF TypeInv, TypeOK, CallRecords, CallHasMod, WorkerHasCall, NoWork, NoCall
<1>3. CopyHasSource' /\ BackupUnderWay'
  BY DEF CopyHasSource, BackupUnderWay, NoWork, TypeInv, Holders
<1> QED BY <1>1, <1>2, <1>3 DEF TypeInv

\* ApiEnable keeps the type invariant.
LEMMA ApiEnableTypes ==
    ASSUME TypeInv, NEW m \in Mods, ApiEnable(m)
    PROVE  TypeInv'
<1> USE DEF ApiEnable, disk
<1>1. at' \in [Profiles -> [Mods -> Ranks]] /\ saved' \in [Profiles -> [Mods -> Ranks]]
  BY PushedType DEF TypeInv, TypeOK
<1>2. TypeOK'
  BY <1>1 DEF TypeInv, TypeOK
<1> QED BY <1>2 DEF TypeInv, CallHasMod, WorkerHasCall, CopyHasSource, BackupUnderWay, Holders

\* ApiDisable keeps the type invariant.
LEMMA ApiDisableTypes ==
    ASSUME TypeInv, NEW m \in Mods, ApiDisable(m)
    PROVE  TypeInv'
<1> USE DEF ApiDisable, disk
<1>1. at' \in [Profiles -> [Mods -> Ranks]] /\ saved' \in [Profiles -> [Mods -> Ranks]]
  BY RetainedType DEF TypeInv, TypeOK
<1>2. TypeOK'
  BY <1>1 DEF TypeInv, TypeOK
<1> QED BY <1>2 DEF TypeInv, CallHasMod, WorkerHasCall, CopyHasSource, BackupUnderWay, Holders

\* A step that changes nothing keeps the type invariant.
LEMMA StutterTypes ==
    ASSUME TypeInv, UNCHANGED vars
    PROVE  TypeInv'
BY DEF vars, TypeInv, TypeOK, CallHasMod, WorkerHasCall, CopyHasSource, BackupUnderWay, Holders

----------------------------------------------------------------------------
(* Types: the theorem *)

\* A step of a call keeps the type invariant.
LEMMA CallTypes ==
    ASSUME TypeInv, NEW o \in Ops, Call(o) \/ Step(o)
    PROVE  TypeInv'
<1>1. CASE Call(o)
  <2>1. CASE \E m \in Mods : EnableBegin(o, m) \/ DisableBegin(o, m)
    BY <2>1, EnableBeginTypes, DisableBeginTypes
  <2>2. CASE \E g \in BulkGroups, w \in SUBSET Mods : BulkBegin(o, g, w)
    BY <2>2, BulkBeginTypes, Library_Assumption
  <2> QED BY <1>1, <2>1, <2>2 DEF Call
<1>2. CASE EnableSurvey(o) \/ EnableLeave(o) \/ EnableStart(o) \/ EnableRecord(o)
  BY <1>2, EnableSurveyTypes, EnableLeaveTypes, EnableStartTypes, EnableRecordTypes
<1>3. CASE \E m \in Mods : EnableNext(o, m)
  BY <1>3, EnableNextTypes
<1>4. CASE DisableStart(o) \/ DisableRecord(o)
  BY <1>4, DisableStartTypes, DisableRecordTypes
<1>5. CASE \/ \E p \in Profiles : BulkNext(o, p)
           \/ BulkStart(o) \/ BulkRecord(o) \/ Save(o)
  BY <1>5, BulkNextTypes, BulkStartTypes, BulkRecordTypes, SaveTypes
<1>6. CASE WorkerDone(o) \/ WorkerErr(o) \/ LeaveQueue(o) \/ KillAndUndo(o) \/ StopBulk(o)
  BY <1>6, WorkerDoneTypes, WorkerErrTypes, LeaveQueueTypes, KillAndUndoTypes, StopBulkTypes
<1> QED BY <1>1, <1>2, <1>3, <1>4, <1>5, <1>6 DEF Step

\* So does a step of the worker, or a mishap.
LEMMA WorkerTypes ==
    ASSUME TypeInv, WorkerStep \/ Mishap
    PROVE  TypeInv'
<1>1. CASE RollbackStarts \/ Crash \/ \E o \in Ops : Cancel(o)
  BY <1>1, RollbackStartsTypes, CrashTypes, CancelTypes
<1>2. CASE \E f \in Files : \/ ApplyFile(f) \/ BackupWritten(f) \/ CopyStarts(f)
                           \/ CopyEnds(f) \/ RollBack(f)
  BY <1>2, ApplyFileTypes, BackupWrittenTypes, CopyStartsTypes, CopyEndsTypes, RollBackTypes
<1>3. CASE \E f \in Files : DeleteFile(f) \/ RestoreStarts(f) \/ RestoreEnds(f)
  BY <1>3, DeleteFileTypes, RestoreStartsTypes, RestoreEndsTypes
<1>4. CASE \E f \in Files : BackupFails(f) \/ CopyFails(f) \/ RestoreFails(f) \/ RollBackFails(f)
  BY <1>4, BackupFailsTypes, CopyFailsTypes, RestoreFailsTypes, RollBackFailsTypes
<1> QED BY <1>1, <1>2, <1>3, <1>4 DEF WorkerStep, Mishap

\* Every step of the specification keeps the type invariant.
LEMMA TypeStep == TypeInv /\ [Next]_vars => TypeInv'
<1> SUFFICES ASSUME TypeInv, [Next]_vars
             PROVE  TypeInv'
  OBVIOUS
<1>1. CASE \E o \in Ops : Call(o) \/ Step(o)
  BY <1>1, CallTypes
<1>2. CASE WorkerStep \/ Mishap
  BY <1>2, WorkerTypes
<1>3. CASE \E p \in Profiles : SwitchProfile(p)
  BY <1>3, SwitchProfileTypes
<1>4. CASE \E m \in Mods : ApiEnable(m) \/ ApiDisable(m)
  BY <1>4, ApiEnableTypes, ApiDisableTypes
<1>5. CASE UNCHANGED vars
  BY <1>5, StutterTypes
<1> QED BY <1>1, <1>2, <1>3, <1>4, <1>5 DEF Next

\* The type invariant holds with the facts that make it inductive, for every
\* library, every number of profiles and of calls, whatever fails.
THEOREM TypeInvariant == Spec => []TypeInv
<1>1. Init => TypeInv
  BY TypeInit
<1>2. TypeInv /\ [Next]_vars => TypeInv'
  BY TypeStep
<1> QED BY <1>1, <1>2, PTL DEF Spec

\* Whatever calls are issued and whatever fails, every variable keeps its type:
\* no rank outgrows the library, no restore copies from a backup that is not there.
THEOREM TypeCorrect == Spec => []TypeOK
<1>1. TypeInv => TypeOK
  BY DEF TypeInv
<1> QED BY <1>1, TypeInvariant, PTL

----------------------------------------------------------------------------
(* Originals leave a backup folder for the game folder *)

\* A rollback that takes a backup away has put it in the game folder first.
LEMMA RollBackGoesHome ==
    ASSUME TypeInv, NEW g \in Files, RollBack(g), NEW p \in Profiles, NEW f \in Files,
           backup[p][f] = Orig, backup'[p][f] # Orig
    PROVE  game'[f] = Orig
<1>1. /\ worker.mend[g] = "unbackup"
      /\ backup' = [backup EXCEPT ![worker.prof][g] = Nothing]
  BY DEF RollBack
<1>2. worker.prof = p /\ g = f
  BY <1>1 DEF TypeInv, TypeOK, WorkRecords
<1>3. game' = [game EXCEPT ![g] = backup[worker.prof][g]]
  BY <1>1 DEF RollBack
<1> QED BY <1>2, <1>3 DEF TypeInv, TypeOK

\* A restore that takes a backup away has put it in the game folder first.
LEMMA RestoreGoesHome ==
    ASSUME TypeInv, NEW g \in Files, RestoreEnds(g), NEW p \in Profiles, NEW f \in Files,
           backup[p][f] = Orig, backup'[p][f] # Orig
    PROVE  game'[f] = Orig
<1> DEFINE holder == HolderFor(g)
<1>1. worker.under[g] = Nothing
  BY DEF RestoreEnds, lists
<1>2. /\ game' = [game EXCEPT ![g] = backup[holder][g]]
      /\ backup' = [backup EXCEPT ![holder][g] = Nothing]
  BY <1>1 DEF RestoreEnds
<1>3. holder \in Profiles
  BY <1>1, HolderType DEF TypeInv, CopyHasSource, Holders, RestoreEnds
<1> HIDE DEF holder
<1>4. holder = p /\ g = f
  BY <1>2, <1>3 DEF TypeInv, TypeOK
<1> QED BY <1>2, <1>4 DEF TypeInv, TypeOK

\* No other step of the worker takes an original from a backup folder: a backup is
\* started where there is none and ended where there is half of one.
LEMMA BackupKeeps ==
    ASSUME TypeInv, NEW g \in Files, ApplyFile(g) \/ BackupWritten(g) \/ BackupFails(g),
           NEW p \in Profiles, NEW f \in Files, backup[p][f] = Orig
    PROVE  backup'[p][f] = Orig
<1>1. CASE ApplyFile(g) /\ NeedsBackup(g)
  <2>1. /\ backup' = [backup EXCEPT ![worker.prof][g] = Torn]
        /\ backup[worker.prof][g] = Nothing
    BY <1>1 DEF ApplyFile, NeedsBackup
  <2> QED BY <2>1, Library_Assumption DEF TypeInv, TypeOK, WorkRecords
<1>2. CASE ApplyFile(g) /\ ~NeedsBackup(g)
  BY <1>2 DEF ApplyFile
<1>3. CASE BackupWritten(g)
  <2>1. /\ backup' = [backup EXCEPT ![worker.prof][g] = game[g]]
        /\ backup[worker.prof][g] = Torn
    BY <1>3 DEF BackupWritten, TypeInv, BackupUnderWay
  <2> QED BY <2>1, Library_Assumption DEF TypeInv, TypeOK, WorkRecords
<1>4. CASE BackupFails(g)
  <2>1. \/ backup' = backup
        \/ backup' = [backup EXCEPT ![worker.prof][g] = Nothing]
    BY <1>4 DEF BackupFails
  <2>2. backup[worker.prof][g] = Torn
    BY <1>4 DEF BackupFails, TypeInv, BackupUnderWay
  <2>3. ~(p = worker.prof /\ f = g)
    BY <2>2, Library_Assumption
  <2> QED BY <2>1, <2>3 DEF TypeInv, TypeOK, WorkRecords
<1> QED BY <1>1, <1>2, <1>3, <1>4

\* A step of a call touches no backup folder.
LEMMA CallKeepsBackup ==
    ASSUME NEW o \in Ops, Call(o) \/ Step(o)
    PROVE  UNCHANGED backup
BY DEF Call, Step, disk, EnableBegin, EnableSurvey, EnableNext, EnableLeave, EnableStart,
       EnableRecord, DisableBegin, DisableStart, DisableRecord, BulkBegin, BulkNext, BulkStart, BulkRecord, Save, WorkerDone, WorkerErr,
       LeaveQueue, KillAndUndo, StopBulk

\* Nor do the steps listed here.
LEMMA OthersKeepBackup ==
    ASSUME \/ \E f \in Files : \/ CopyStarts(f) \/ CopyEnds(f) \/ DeleteFile(f)
                               \/ RestoreStarts(f)
           \/ RollbackStarts \/ Crash \/ \E o \in Ops : Cancel(o)
           \/ \E f \in Files : CopyFails(f) \/ RestoreFails(f) \/ RollBackFails(f)
           \/ \E p \in Profiles : SwitchProfile(p)
           \/ \E m \in Mods : ApiEnable(m) \/ ApiDisable(m)
           \/ UNCHANGED vars
    PROVE  UNCHANGED backup
BY DEF disk, vars, CopyStarts, CopyEnds, DeleteFile, RestoreStarts, RollbackStarts,
       CopyFails, RestoreFails, RollBackFails, Cancel, Crash, SwitchProfile, ApiEnable, ApiDisable

\* Whatever calls race and whatever fails, no step takes an original out of a
\* backup folder unless it has put it in the game folder.
THEOREM OriginalsGoHome == Spec => OriginalGoesHome
<1> DEFINE Home == \A p \in Profiles, f \in Files :
                       backup[p][f] = Orig /\ backup'[p][f] # Orig => game'[f] = Orig
<1>1. TypeInv /\ [Next]_vars => Home
  <2> SUFFICES ASSUME TypeInv, [Next]_vars, NEW p \in Profiles, NEW f \in Files,
                      backup[p][f] = Orig, backup'[p][f] # Orig
               PROVE  game'[f] = Orig
    OBVIOUS
  <2>1. CASE \E g \in Files : ApplyFile(g) \/ BackupWritten(g) \/ BackupFails(g)
    BY <2>1, BackupKeeps
  <2>2. CASE \E g \in Files : RollBack(g)
    BY <2>2, RollBackGoesHome
  <2>3. CASE \E g \in Files : RestoreEnds(g)
    BY <2>3, RestoreGoesHome
  <2>4. CASE \E o \in Ops : Call(o) \/ Step(o)
    BY <2>4, CallKeepsBackup
  <2>5. CASE \/ \E g \in Files : \/ CopyStarts(g) \/ CopyEnds(g) \/ DeleteFile(g)
                                 \/ RestoreStarts(g)
             \/ RollbackStarts \/ Crash \/ \E o \in Ops : Cancel(o)
             \/ \E g \in Files : CopyFails(g) \/ RestoreFails(g) \/ RollBackFails(g)
             \/ \E q \in Profiles : SwitchProfile(q)
             \/ \E m \in Mods : ApiEnable(m) \/ ApiDisable(m)
             \/ UNCHANGED vars
    BY <2>5, OthersKeepBackup
  <2> QED BY <2>1, <2>2, <2>3, <2>4, <2>5 DEF Next, WorkerStep, Mishap
<1>2. [Home]_vars => [Home]_vars
  OBVIOUS
<1>3. Spec => [][Home]_vars
  <2> HIDE DEF Home
  <2> QED BY <1>1, TypeInvariant, PTL DEF Spec
<1> QED BY <1>3 DEF OriginalGoesHome

----------------------------------------------------------------------------
(* The lists and data.json *)

\* A step of one call leaves the other calls as they are.
LEMMA CallStepsAlone ==
    ASSUME TypeInv, NEW o \in Ops, Call(o) \/ Step(o), NEW q \in Ops, q # o
    PROVE  op'[q] = op[q]
<1> USE DEF TypeInv, TypeOK
<1>1. CASE \/ \E m \in Mods : \/ EnableBegin(o, m) \/ DisableBegin(o, m) \/ EnableNext(o, m)
           \/ \E g \in BulkGroups, w \in SUBSET Mods : BulkBegin(o, g, w)
           \/ \E p \in Profiles : BulkNext(o, p)
  BY <1>1 DEF EnableBegin, DisableBegin, EnableNext, BulkBegin, BulkNext
<1>2. CASE \/ EnableSurvey(o) \/ EnableLeave(o) \/ EnableStart(o) \/ EnableRecord(o)
           \/ DisableStart(o) \/ DisableRecord(o)
           \/ BulkStart(o) \/ BulkRecord(o) \/ Save(o)
  BY <1>2 DEF EnableSurvey, EnableLeave, EnableStart, EnableRecord, DisableStart, DisableRecord,
              BulkStart, BulkRecord, Save
<1>3. CASE WorkerDone(o) \/ WorkerErr(o) \/ LeaveQueue(o) \/ KillAndUndo(o) \/ StopBulk(o)
  BY <1>3 DEF WorkerDone, WorkerErr, LeaveQueue, KillAndUndo, StopBulk
<1> QED BY <1>1, <1>2, <1>3 DEF Call, Step

\* A call that has its save before it keeps it there until it saves.
LEMMA CallKeepsPending ==
    ASSUME TypeInv, NEW o \in Ops, Call(o) \/ Step(o), WillSave(o)
    PROVE  WillSave(o)' \/ saved' = at'
<1>0. op \in [Ops -> CallRecords] /\ op[o] \in CallRecords /\ op[o].phase # "idle"
  BY DEF TypeInv, TypeOK, WillSave
<1>1. ~Call(o)
  BY <1>0 DEF Call, EnableBegin, DisableBegin, BulkBegin
<1>2. CASE EnableSurvey(o) \/ EnableLeave(o) \/ EnableStart(o) \/ EnableRecord(o)
  BY <1>0, <1>2 DEF EnableSurvey, EnableLeave, EnableStart, EnableRecord, WillSave, CallRecords
<1>3. CASE DisableStart(o) \/ DisableRecord(o) \/ BulkStart(o) \/ BulkRecord(o)
  BY <1>0, <1>3 DEF DisableStart, DisableRecord, BulkStart, BulkRecord, WillSave, CallRecords
<1>4. CASE Save(o)
  BY <1>4 DEF Save
<1>5. CASE \E m \in Mods : EnableNext(o, m)
  BY <1>0, <1>5 DEF EnableNext, WillSave, CallRecords
<1>6. CASE \E p \in Profiles : BulkNext(o, p)
  BY <1>6 DEF BulkNext, WillSave
<1>7. CASE LeaveQueue(o)
  BY <1>0, <1>7 DEF LeaveQueue, AfterStop, WillSave, CallRecords
<1>8. CASE KillAndUndo(o)
  BY <1>8 DEF KillAndUndo, WillSave
<1>9. CASE WorkerDone(o) \/ WorkerErr(o) \/ StopBulk(o)
  <2>1. op[o].kind = "enable"
    BY <1>9, Library_Assumption
       DEF WorkerDone, WorkerErr, StopBulk, TypeInv, WorkerHasCall, WillSave
  <2>2. op'[o].kind = "enable" /\ op'[o].phase \in {"save", "record"}
    <3>1. ~StopBulk(o)
      BY <2>1 DEF StopBulk
    <3> DEFINE record == [op[o] EXCEPT !.phase = "record"]
    <3>2. /\ AfterStop(op[o]).kind = "enable" /\ AfterStop(op[o]).phase = "save"
          /\ record.kind = "enable" /\ record.phase = "record"
      BY <1>0, <2>1 DEF AfterStop, CallRecords
    <3>3. \/ op' = [op EXCEPT ![o] = AfterStop(op[o])]
          \/ op' = [op EXCEPT ![o] = record]
      BY <1>9, <2>1, <3>1 DEF WorkerDone, WorkerErr
    <3> HIDE DEF record
    <3> QED BY <1>0, <3>2, <3>3
  <2> QED BY <2>2 DEF WillSave
<1> QED BY <1>1, <1>2, <1>3, <1>4, <1>5, <1>6, <1>7, <1>8, <1>9 DEF Step

\* A call that changes the lists has its save before it.
LEMMA CallBecomesPending ==
    ASSUME TypeInv, NEW o \in Ops, Call(o) \/ Step(o), at' # at
    PROVE  WillSave(o)'
<1>1. EnableRecord(o) \/ DisableRecord(o) \/ BulkRecord(o)
  BY DEF Call, Step, lists, EnableBegin, EnableSurvey, EnableNext, EnableLeave, EnableStart,
         DisableBegin, DisableStart, BulkBegin, BulkNext,
         BulkStart, Save, WorkerDone, WorkerErr, LeaveQueue, KillAndUndo, StopBulk
<1> QED BY <1>1 DEF EnableRecord, DisableRecord, BulkRecord, WillSave, TypeInv, TypeOK, CallRecords

\* The lists are written when a call's last save is behind it: each step either
\* saves, or leaves a call in flight that will.
LEMMA SaveStep == TypeInv /\ SavePending /\ [Next]_vars => SavePending'
<1> SUFFICES ASSUME TypeInv, SavePending, [Next]_vars
             PROVE  SavePending'
  OBVIOUS
<1> USE DEF SavePending
<1>1. CASE \E o \in Ops : Call(o) \/ Step(o)
  <2>1. PICK o \in Ops : Call(o) \/ Step(o)
    BY <1>1
  <2>2. CASE at' # at
    BY <2>1, <2>2, CallBecomesPending
  <2>3. CASE at' = at /\ saved' # saved
    <3>1. Save(o)
      BY <2>1, <2>3 DEF Call, Step, lists, EnableBegin, EnableSurvey, EnableNext, EnableLeave,
         EnableStart, EnableRecord, DisableBegin, DisableStart, DisableRecord, BulkBegin, BulkNext, BulkStart, BulkRecord, WorkerDone, WorkerErr,
         LeaveQueue, KillAndUndo, StopBulk
    <3> QED BY <3>1 DEF Save
  <2>4. CASE at' = at /\ saved' = saved
    <3>1. \A q \in Ops : q # o => (WillSave(q) => WillSave(q)')
      BY <2>1, CallStepsAlone DEF WillSave
    <3> QED BY <2>1, <2>4, <3>1, CallKeepsPending
  <2> QED BY <2>2, <2>3, <2>4
<1>2. CASE WorkerStep \/ (Mishap /\ ~Crash)
  <2>1. saved' = saved /\ at' = at
    BY <1>2 DEF WorkerStep, Mishap, lists, ApplyFile, BackupWritten, CopyStarts, CopyEnds,
       RollBack, DeleteFile, RestoreStarts, RestoreEnds, RollbackStarts, BackupFails, CopyFails,
       RestoreFails, RollBackFails, Cancel
  <2>2. \A o \in Ops : op'[o].kind = op[o].kind /\ op'[o].phase = op[o].phase
    <3>1. CASE \E o \in Ops : Cancel(o)
      BY <3>1 DEF Cancel, TypeInv, TypeOK, CallRecords
    <3>2. CASE ~ \E o \in Ops : Cancel(o)
      BY <1>2, <3>2 DEF WorkerStep, Mishap, ApplyFile, BackupWritten, CopyStarts, CopyEnds,
         RollBack, DeleteFile, RestoreStarts, RestoreEnds, RollbackStarts, BackupFails, CopyFails,
         RestoreFails, RollBackFails
    <3> QED BY <3>1, <3>2
  <2> QED BY <2>1, <2>2 DEF WillSave
<1>3. CASE Crash
  BY <1>3 DEF Crash
<1>4. CASE \E p \in Profiles : SwitchProfile(p)
  BY <1>4 DEF SwitchProfile
<1>5. CASE \E m \in Mods : ApiEnable(m) \/ ApiDisable(m)
  BY <1>5 DEF ApiEnable, ApiDisable
<1>6. CASE UNCHANGED vars
  BY <1>6 DEF vars, WillSave
<1> QED BY <1>1, <1>2, <1>3, <1>4, <1>5, <1>6 DEF Next, Mishap

\* When no call is in flight, data.json says what memory says, whichever way the
\* calls ended and whatever they raced with.
THEOREM ListsAreSaved == Spec => []SavedWhenQuiet
<1>1. Init => SavePending
  BY DEF Init, SavePending
<1>2. SavePending => SavedWhenQuiet
  BY DEF SavePending, WillSave, SavedWhenQuiet, Restful
<1> QED BY <1>1, <1>2, SaveStep, TypeInvariant, PTL DEF Spec

----------------------------------------------------------------------------
(* One call at a time: lists and files *)

\* push adds its mod to a list, and no other.
LEMMA PushedActive ==
    ASSUME NEW list \in [Mods -> Ranks], NEW m \in Mods, NEW n \in Mods
    PROVE  Pushed(list, m)[n] > 0 <=> list[n] > 0 \/ n = m
<1> DEFINE S == {x \in Mods : list[x] > 0}
<1>1. CASE list[m] > 0
  BY <1>1 DEF Pushed
<1>2. CASE ~(list[m] > 0)
  <2>1. Cardinality(S) \in Nat
    BY <1>2, FewerMods
  <2> HIDE DEF S
  <2>2. Pushed(list, m) = [list EXCEPT ![m] = Cardinality(S) + 1]
    BY <1>2 DEF Pushed, S
  <2> QED BY <2>1, <2>2
<1> QED BY <1>1, <1>2

\* retain removes its mods from a list, and no other.
LEMMA RetainedActive ==
    ASSUME NEW list \in [Mods -> Ranks], NEW gone, NEW n \in Mods
    PROVE  Retained(list, gone)[n] > 0 <=> list[n] > 0 /\ n \notin gone
<1> DEFINE S == {x \in Mods \ gone : 0 < list[x] /\ list[x] < list[n]}
<1>1. list[n] \in Nat
  BY ModsCount DEF Ranks
<1>2. CASE list[n] = 0 \/ n \in gone
  BY <1>1, <1>2 DEF Retained
<1>3. CASE ~(list[n] = 0 \/ n \in gone)
  <2>1. S \in SUBSET Mods /\ n \notin S
    BY <1>1
  <2> HIDE DEF S
  <2>2. Cardinality(S) \in Nat
    BY <2>1, FewerMods
  <2>3. Retained(list, gone)[n] = 1 + Cardinality(S)
    BY <1>3 DEF Retained, S
  <2> QED BY <1>1, <1>3, <2>2, <2>3
<1> QED BY <1>2, <1>3

\* A file is one of the files of some mods when one of them ships it.
LEMMA FileOfMod ==
    ASSUME NEW S, NEW f
    PROVE  f \in FilesOf(S) <=> \E m \in S : f \in Ships[m]
BY DEF FilesOf

\* Without the mods that leave, a file they do not ship is shipped as before.
LEMMA FilesWithout ==
    ASSUME NEW S, NEW gone, NEW f, f \notin FilesOf(gone)
    PROVE  f \in FilesOf(S \ gone) <=> f \in FilesOf(S)
BY FileOfMod

\* With one mod more there are its files too.
LEMMA FilesWith ==
    ASSUME NEW S, NEW m
    PROVE  FilesOf(S \cup {m}) = FilesOf(S) \cup Ships[m]
BY DEF FilesOf

\* shared_fallback_order and plan_batch_disable leave nothing under a file exactly
\* when no mod that stays on the folder, in whichever profile, ships it.
LEMMA NothingUnder ==
    ASSUME TypeOK, NEW p \in Profiles, NEW gone \in SUBSET Mods, NEW f \in Files
    PROVE  /\ Fallback(p, gone, f) = Nothing <=> f \notin FilesOf(OnFolder \ gone)
           /\ BatchFallback(gone, f) = Nothing <=> f \notin FilesOf(OnFolder \ gone)
<1>1. f \in FilesOf(OnFolder \ gone) <=> Providing(OnFolder \ gone, f) # {}
  BY FileOfMod DEF Providing
<1>2. Providing(OnFolder \ gone, f) \in SUBSET Mods
  BY ActiveSets DEF Providing
<1>3. Nothing \notin Mods
  BY Library_Assumption
<1> QED BY <1>1, <1>2, <1>3, FallbackProvides, BatchFallbackProvides

----------------------------------------------------------------------------
(* One call at a time: the worker's steps *)

\* A step of the worker on one file leaves the others right.
LEMMA FileStep ==
    ASSUME TypeInv, CalmInv, NEW f \in Files, worker.task # "none",
           UNCHANGED <<lists, op>>, worker'.task = worker.task,
           worker'.by = worker.by, worker'.undo = worker.undo, worker'.prof = worker.prof,
           worker'.mod = worker.mod, worker'.files = worker.files,
           worker'.others = worker.others, worker'.under = worker.under,
           \A g \in Files : g # f => /\ game'[g] = game[g]
                                    /\ worker'.stage[g] = worker.stage[g]
                                    /\ worker'.mend[g] = worker.mend[g]
                                    /\ \A p \in Profiles : backup'[p][g] = backup[p][g],
           f \in worker.files,
           worker.task \in {"apply", "rollback"} => Deployed(f)',
           worker.task = "unapply" => Removed(f)',
           BackupRight(f)'
    PROVE  CalmInv'
<1>1. /\ at' = at /\ cur' = cur /\ op' = op
      /\ \A p \in Profiles : Active(p)' = Active(p)
      /\ OnFolder' = OnFolder
  BY DEF lists, Active, OnFolder
<1>2. Unstopped' /\ OneLibraryPerMod' /\ TwinsAgree'
  BY <1>1 DEF CalmInv, Unstopped, OneLibraryPerMod, TwinsAgree
<1>3. CallsKnow'
  <2> SUFFICES ASSUME NEW o \in Ops
               PROVE  EnableKnows(op[o])' /\ DisableKnows(op[o])' /\ BulkKnows(op[o])'
    BY DEF CallsKnow
  <2>1. EnableKnows(op[o]) /\ DisableKnows(op[o]) /\ BulkKnows(op[o])
    BY DEF CalmInv, CallsKnow
  <2>2. EnableKnows(op[o])'
    BY <1>1, <2>1 DEF EnableKnows, FilesOf
  <2>3. Planned(op[o])' <=> Planned(op[o])
    BY <1>1 DEF Planned, Leaving, FilesOf
  <2>4. DisableKnows(op[o])'
    <3>1. op[o].mod \in Active(cur)' <=> op[o].mod \in Active(cur)
      BY <1>1 DEF Active
    <3> QED BY <1>1, <2>1, <2>3, <3>1 DEF DisableKnows
  <2>5. BulkKnows(op[o])'
    BY <1>1, <2>1, <2>3 DEF BulkKnows
  <2> QED BY <2>2, <2>4, <2>5
<1>4. WorkerKnows'
  BY <1>1 DEF CalmInv, WorkerKnows
<1>5. ASSUME NEW g \in Files, g # f
      PROVE  /\ Backed(g)' <=> Backed(g)
             /\ Unbacked(g)' <=> Unbacked(g)
             /\ OnlyIn(worker.prof, g)' <=> OnlyIn(worker.prof, g)
             /\ BackedBy(worker.prof, g)' <=> BackedBy(worker.prof, g)
  <2>1. \A p \in Profiles : backup'[p][g] = backup[p][g]
    BY <1>5
  <2>2. Backed(g)' <=> Backed(g)
    BY <2>1 DEF Backed, BackedBy, OnlyIn
  <2>3. Unbacked(g)' <=> Unbacked(g)
    BY <2>1 DEF Unbacked
  <2>4. OnlyIn(worker.prof, g)' <=> OnlyIn(worker.prof, g)
    BY <2>1 DEF OnlyIn
  <2>5. BackedBy(worker.prof, g)' <=> BackedBy(worker.prof, g)
    BY <2>1, <2>4 DEF BackedBy, TypeInv, TypeOK, WorkRecords
  <2> QED BY <2>2, <2>3, <2>4, <2>5
<1>6. worker.task \in {"apply", "rollback"} => \A g \in Files : Deployed(g)'
  <2> SUFFICES ASSUME worker.task \in {"apply", "rollback"}, NEW g \in Files, g # f
               PROVE  Deployed(g)'
    OBVIOUS
  <2>0. /\ Backed(g)' <=> Backed(g)
        /\ Unbacked(g)' <=> Unbacked(g)
        /\ OnlyIn(worker.prof, g)' <=> OnlyIn(worker.prof, g)
        /\ BackedBy(worker.prof, g)' <=> BackedBy(worker.prof, g)
    BY <1>5
  <2>1. Deployed(g)
    BY DEF CalmInv, FilesAreRight
  <2>2. CanMend(g) => CanMend(g)'
    BY <2>0 DEF CanMend
  <2>3. Settled(OnFolder, g) => Settled(OnFolder, g)'
    BY <1>1, <2>0 DEF Settled, FilesOf, Pristine
  <2> QED BY <2>0, <2>1, <2>2, <2>3 DEF Deployed
<1>7. worker.task = "unapply" => \A g \in Files : Removed(g)'
  <2> SUFFICES ASSUME worker.task = "unapply", NEW g \in Files, g # f
               PROVE  Removed(g)'
    OBVIOUS
  <2>0. (Backed(g)' <=> Backed(g)) /\ (Unbacked(g)' <=> Unbacked(g))
    BY <1>5
  <2>1. Removed(g)
    BY DEF CalmInv, FilesAreRight
  <2>2. Settled(OnFolder, g) => Settled(OnFolder, g)'
    BY <1>1, <2>0 DEF Settled, FilesOf, Pristine
  <2>3. Leaving(op[worker.by])' = Leaving(op[worker.by])
    BY <1>1 DEF Leaving
  <2>4. Settled(OnFolder \ Leaving(op[worker.by]), g)
           => Settled(OnFolder \ Leaving(op[worker.by]), g)'
    BY <1>1, <2>0, <2>3 DEF Settled, FilesOf, Pristine
  <2> QED BY <2>1, <2>2, <2>4 DEF Removed
<1>8. FilesAreRight'
  BY <1>6, <1>7 DEF FilesAreRight
<1>9. \A g \in Files : BackupRight(g)'
  BY DEF CalmInv, BackupRight
<1> QED BY <1>2, <1>3, <1>4, <1>8, <1>9 DEF CalmInv

\* What a deploy knows: the files of the mods on the folder, and that they are right.
LEMMA DeployKnows ==
    ASSUME TypeInv, CalmInv, worker.task \in {"apply", "rollback"}
    PROVE  /\ worker.others = FilesOf(OnFolder)
           /\ worker.by \in Ops /\ worker.prof \in Profiles
           /\ \A f \in Files : Deployed(f)
<1>1. worker.by \in Ops /\ worker.by # NoOp /\ worker.prof \in Profiles
  BY DEF TypeInv, TypeOK, WorkRecords, CalmInv, WorkerKnows
<1>2. op[worker.by].phase = "work" /\ op[worker.by].kind = "enable"
  BY <1>1 DEF TypeInv, WorkerHasCall, CalmInv, WorkerKnows
<1>3. op[worker.by].others = FilesOf(OnFolder)
  BY <1>1, <1>2 DEF CalmInv, CallsKnow, EnableKnows
<1> QED BY <1>1, <1>3 DEF CalmInv, WorkerKnows, FilesAreRight

\* ApplyFile keeps CalmInv: what is backed up is the game's own file.
LEMMA ApplyFileCalm ==
    ASSUME TypeInv, CalmInv, NEW f \in Files, ApplyFile(f)
    PROVE  CalmInv'
<1>1. /\ worker.task = "apply" /\ worker.stage[f] = "todo" /\ f \in worker.files
      /\ UNCHANGED <<lists, op>> /\ game' = game /\ worker \in WorkRecords
  BY DEF ApplyFile, TypeInv, TypeOK
<1>2. /\ worker.others = FilesOf(OnFolder) /\ worker.prof \in Profiles
      /\ Settled(OnFolder, f)
  BY <1>1, DeployKnows DEF Deployed
<1>3. f \notin worker.others => game[f] = Pristine(f) /\ Unbacked(f)
  BY <1>2 DEF Settled
<1>4. CASE NeedsBackup(f)
  <2>1. /\ backup' = [backup EXCEPT ![worker.prof][f] = Torn]
        /\ worker' = [worker EXCEPT !.stage[f] = "backup"]
    BY <1>4 DEF ApplyFile, Set
  <2>2. f \in Originals /\ game[f] = Orig /\ f \notin worker.others
    BY <1>3, <1>4 DEF NeedsBackup, Pristine
  <2>3. Deployed(f)'
    <3>1. OnlyIn(worker.prof, f)'
      BY <1>1, <1>2, <1>3, <2>1, <2>2 DEF OnlyIn, Unbacked, TypeInv, TypeOK, WorkRecords
    <3> QED BY <1>1, <2>1, <2>2, <3>1 DEF Deployed, WorkRecords
  <2>4. BackupRight(f)'
    BY <1>1, <2>1 DEF BackupRight, CalmInv, TypeInv, TypeOK, WorkRecords
  <2> QED BY <1>1, <2>1, <2>3, <2>4, FileStep DEF TypeInv, TypeOK, WorkRecords
<1>5. CASE ~NeedsBackup(f)
  <2> DEFINE mend == MendFor(f)
  <2>1. /\ worker' = [worker EXCEPT !.stage[f] = "ready", !.mend[f] = mend,
                                    !.stash[f] = game[f]]
        /\ backup' = backup
    BY <1>5 DEF ApplyFile
  <2>2. f \in worker.others => mend # "unbackup"
    BY DEF MendFor
  <2>3. f \notin worker.others /\ f \notin Originals => mend = "remove"
    BY <1>3 DEF MendFor, Pristine
  <2>4. ~(f \notin worker.others /\ f \in Originals)
    BY <1>2, <1>3, <1>5, Library_Assumption DEF Pristine, NeedsBackup, Unbacked
  <2>5. f \in worker.others /\ f \in Originals => Backed(f)
    BY <1>2 DEF Settled
  <2> HIDE DEF mend
  <2>6. /\ worker'.stage = [worker.stage EXCEPT ![f] = "ready"]
        /\ worker'.mend = [worker.mend EXCEPT ![f] = mend]
        /\ worker'.task = worker.task /\ worker'.by = worker.by /\ worker'.undo = worker.undo
        /\ worker'.prof = worker.prof /\ worker'.mod = worker.mod
        /\ worker'.files = worker.files /\ worker'.others = worker.others
        /\ worker'.under = worker.under
    BY <1>1, <2>1 DEF WorkRecords
  <2>7. CanMend(f)'
    BY <1>1, <2>1, <2>2, <2>3, <2>4, <2>5, <2>6 DEF CanMend, Backed, BackedBy, OnlyIn, WorkRecords
  <2>8. Deployed(f)'
    BY <1>1, <2>6, <2>7 DEF Deployed, WorkRecords
  <2>9. BackupRight(f)'
    BY <1>1, <2>1, <2>6 DEF BackupRight, CalmInv
  <2> QED BY <1>1, <2>1, <2>6, <2>8, <2>9, FileStep DEF WorkRecords
<1> QED BY <1>4, <1>5

\* BackupWritten keeps CalmInv: the backup is the game's own file, whole.
LEMMA BackupWrittenCalm ==
    ASSUME TypeInv, CalmInv, NEW f \in Files, BackupWritten(f)
    PROVE  CalmInv'
<1>1. /\ worker.task = "apply" /\ worker.stage[f] = "backup" /\ f \in worker.files
      /\ UNCHANGED <<lists, op>> /\ game' = game /\ worker \in WorkRecords
      /\ backup' = [backup EXCEPT ![worker.prof][f] = game[f]]
      /\ worker' = [worker EXCEPT !.stage[f] = "ready", !.mend[f] = "unbackup"]
  BY DEF BackupWritten, TypeInv, TypeOK, CalmInv, WorkerKnows
<1>2. /\ worker.prof \in Profiles /\ f \notin worker.others
      /\ f \in Originals /\ game[f] = Orig /\ OnlyIn(worker.prof, f)
  BY <1>1, DeployKnows DEF Deployed
<1>3. backup'[worker.prof][f] = Orig /\ OnlyIn(worker.prof, f)'
  BY <1>1, <1>2 DEF TypeInv, TypeOK, OnlyIn, WorkRecords
<1>4. /\ worker'.stage = [worker.stage EXCEPT ![f] = "ready"]
      /\ worker'.mend = [worker.mend EXCEPT ![f] = "unbackup"]
      /\ worker'.task = worker.task /\ worker'.by = worker.by /\ worker'.undo = worker.undo
      /\ worker'.prof = worker.prof /\ worker'.mod = worker.mod
      /\ worker'.files = worker.files /\ worker'.others = worker.others
      /\ worker'.under = worker.under
  BY <1>1 DEF WorkRecords
<1>5. CanMend(f)'
  BY <1>1, <1>2, <1>3, <1>4 DEF CanMend, BackedBy, OnlyIn, WorkRecords
<1>6. Deployed(f)'
  BY <1>1, <1>4, <1>5 DEF Deployed, WorkRecords
<1>7. BackupRight(f)'
  BY <1>1, <1>2, <1>3, <1>4 DEF BackupRight, CalmInv, TypeInv, TypeOK
<1> QED BY <1>1, <1>4, <1>6, <1>7, FileStep DEF WorkRecords, TypeInv, TypeOK

\* A step of a deploy that changes a file in the game folder once it is backed up, and
\* no backup, keeps CalmInv.
LEMMA CopyCalm ==
    ASSUME TypeInv, CalmInv, NEW f \in Files, NEW s \in {"copy", "done", "failed"},
           worker.task = "apply", worker.stage[f] \in {"ready", "copy"},
           worker' = [worker EXCEPT !.stage[f] = s],
           \A g \in Files : g # f => game'[g] = game[g],
           UNCHANGED <<backup, lists, op>>
    PROVE  CalmInv'
<1>1. worker \in WorkRecords /\ f \in worker.files
  BY DEF TypeInv, TypeOK, CalmInv, WorkerKnows
<1>2. /\ worker'.stage = [worker.stage EXCEPT ![f] = s] /\ worker'.mend = worker.mend
      /\ worker'.task = worker.task /\ worker'.by = worker.by /\ worker'.undo = worker.undo
      /\ worker'.prof = worker.prof /\ worker'.mod = worker.mod
      /\ worker'.files = worker.files /\ worker'.others = worker.others
      /\ worker'.under = worker.under
  BY <1>1 DEF WorkRecords
<1>3. CanMend(f)
  BY DeployKnows DEF Deployed
<1>4. CanMend(f)'
  BY <1>2, <1>3 DEF CanMend, Backed, BackedBy, OnlyIn
<1>5. Deployed(f)'
  BY <1>1, <1>2, <1>4 DEF Deployed, WorkRecords
<1>6. BackupRight(f)'
  BY <1>2 DEF BackupRight, CalmInv
<1> QED BY <1>1, <1>2, <1>5, <1>6, FileStep DEF WorkRecords

\* CopyStarts, CopyEnds and CopyFails keep CalmInv.
LEMMA CopiesCalm ==
    ASSUME TypeInv, CalmInv, NEW f \in Files, CopyStarts(f) \/ CopyEnds(f) \/ CopyFails(f)
    PROVE  CalmInv'
<1>1. CASE CopyStarts(f)
  BY <1>1, CopyCalm DEF CopyStarts, Set, TypeInv, TypeOK
<1>2. CASE CopyEnds(f)
  BY <1>2, CopyCalm DEF CopyEnds, Set, TypeInv, TypeOK
<1>3. CASE CopyFails(f)
  BY <1>3, CopyCalm DEF CopyFails, Set, disk
<1> QED BY <1>1, <1>2, <1>3

\* RollbackStarts keeps CalmInv: no backup is half-written then.
LEMMA RollbackStartsCalm ==
    ASSUME TypeInv, CalmInv, RollbackStarts
    PROVE  CalmInv'
<1>1. /\ worker.task = "apply" /\ worker \in WorkRecords
      /\ worker' = [worker EXCEPT !.task = "rollback"]
      /\ UNCHANGED <<disk, lists, op>>
      /\ \A f \in worker.files : worker.stage[f] \in {"todo", "done", "failed"}
  BY DEF RollbackStarts, TypeInv, TypeOK
<1>2. /\ worker'.stage = worker.stage /\ worker'.mend = worker.mend
      /\ worker'.task = "rollback" /\ worker'.by = worker.by /\ worker'.undo = worker.undo
      /\ worker'.prof = worker.prof /\ worker'.mod = worker.mod
      /\ worker'.files = worker.files /\ worker'.others = worker.others
  BY <1>1 DEF WorkRecords
<1>3. \A f \in Files : worker.stage[f] \in {"todo", "done", "failed"}
  BY <1>1 DEF CalmInv, WorkerKnows
<1>4. /\ at' = at /\ cur' = cur /\ op' = op /\ game' = game /\ backup' = backup
      /\ OnFolder' = OnFolder
  BY <1>1 DEF lists, disk, OnFolder, Active
<1>5. Unstopped' /\ OneLibraryPerMod' /\ TwinsAgree'
  BY <1>2, <1>4 DEF CalmInv, Unstopped, OneLibraryPerMod, TwinsAgree, Active
<1>6. CallsKnow'
  BY <1>4 DEF CalmInv, CallsKnow, EnableKnows, DisableKnows, BulkKnows, Planned, Leaving,
              FilesOf, Active
<1>7. WorkerKnows'
  BY <1>1, <1>2, <1>4 DEF CalmInv, WorkerKnows
<1>8. \A f \in Files : Deployed(f)'
  <2> TAKE f \in Files
  <2>1. Deployed(f)
    BY <1>1, DeployKnows
  <2>2. Settled(OnFolder, f)' <=> Settled(OnFolder, f)
    BY <1>4 DEF Settled, Pristine, Backed, BackedBy, OnlyIn, Unbacked, FilesOf
  <2>3. CanMend(f)' <=> CanMend(f)
    BY <1>2, <1>4 DEF CanMend, Backed, BackedBy, OnlyIn
  <2> QED BY <1>2, <1>3, <2>1, <2>2, <2>3 DEF Deployed
<1>9. FilesAreRight'
  BY <1>2, <1>8 DEF FilesAreRight
<1>10. \A f \in Files : BackupRight(f)'
  BY <1>2, <1>3, <1>4 DEF CalmInv, BackupRight
<1> QED BY <1>5, <1>6, <1>7, <1>9, <1>10 DEF CalmInv

\* RollBack keeps CalmInv: the file is again as the mods on the folder leave it.
LEMMA RollBackCalm ==
    ASSUME TypeInv, CalmInv, NEW f \in Files, RollBack(f)
    PROVE  CalmInv'
<1> DEFINE own == backup[worker.prof][f]
<1>1. /\ worker.task = "rollback" /\ worker.stage[f] \in {"done", "failed"}
      /\ UNCHANGED <<lists, op>> /\ worker \in WorkRecords /\ f \in worker.files
      /\ worker' = [worker EXCEPT !.stage[f] = "todo"]
  BY DEF RollBack, Set, TypeInv, TypeOK, CalmInv, WorkerKnows
<1>2. /\ worker.others = FilesOf(OnFolder) /\ worker.prof \in Profiles
      /\ CanMend(f)
  BY <1>1, DeployKnows DEF Deployed
<1>3. /\ worker'.stage = [worker.stage EXCEPT ![f] = "todo"] /\ worker'.mend = worker.mend
      /\ worker'.task = worker.task /\ worker'.by = worker.by /\ worker'.undo = worker.undo
      /\ worker'.prof = worker.prof /\ worker'.mod = worker.mod
      /\ worker'.files = worker.files /\ worker'.others = worker.others
      /\ worker'.under = worker.under
  BY <1>1 DEF WorkRecords
<1>4. /\ \A g \in Files : g # f => /\ game'[g] = game[g]
                                  /\ \A p \in Profiles : backup'[p][g] = backup[p][g]
      /\ worker.mend[f] = "remove" => game'[f] = Nothing
      /\ worker.mend[f] \in {"restore", "unbackup"} => game'[f] = own
      /\ worker.mend[f] # "unbackup" => backup' = backup
      /\ worker.mend[f] = "unbackup" => backup' = [backup EXCEPT ![worker.prof][f] = Nothing]
  BY DEF RollBack, TypeInv, TypeOK
<1>5. Settled(OnFolder, f)'
  <2>1. OnFolder' = OnFolder
    BY <1>1 DEF lists, OnFolder, Active
  <2>2. CASE f \in worker.others
    <3>1. f \in Originals => Backed(f)'
      BY <1>2, <1>4, <2>2 DEF CanMend, Backed, BackedBy, OnlyIn
    <3> QED BY <1>2, <2>1, <2>2, <3>1 DEF Settled
  <2>3. CASE f \notin worker.others
    <3>1. game'[f] = Pristine(f)
      BY <1>2, <1>4, <2>3 DEF CanMend, Pristine, BackedBy
    <3>2. f \in Originals => Unbacked(f)'
      BY <1>2, <1>4, <2>3 DEF CanMend, BackedBy, OnlyIn, Unbacked, TypeInv, TypeOK
    <3>3. f \notin Originals => Unbacked(f)'
      BY <1>1, <1>2, <1>4, <2>3 DEF CanMend, CalmInv, BackupRight, Unbacked
    <3> QED BY <1>2, <2>1, <2>3, <3>1, <3>2, <3>3 DEF Settled, Pristine
  <2> QED BY <2>2, <2>3
<1>6. Deployed(f)'
  BY <1>1, <1>3, <1>5 DEF Deployed, WorkRecords
<1>7. BackupRight(f)'
  <2>1. \A p \in Profiles : backup[p][f] = Nothing \/ (f \in Originals /\ backup[p][f] = Orig)
    BY <1>1 DEF CalmInv, BackupRight
  <2> QED BY <1>2, <1>4, <2>1 DEF BackupRight, TypeInv, TypeOK
<1> QED BY <1>1, <1>3, <1>4, <1>6, <1>7, FileStep DEF WorkRecords

\* What a removal knows: its files are those of the mods that leave, and under each is
\* nothing when no mod that stays ships it.
LEMMA RemovalKnows ==
    ASSUME TypeInv, CalmInv, worker.task = "unapply"
    PROVE  /\ worker.by \in Ops /\ worker.prof \in Profiles
           /\ worker.files = FilesOf(Leaving(op[worker.by]))
           /\ FilesOf(Leaving(op[worker.by])) \subseteq FilesOf(OnFolder)
           /\ \A f \in worker.files : worker.under[f] = Nothing
                                      <=> f \notin FilesOf(OnFolder \ Leaving(op[worker.by]))
           /\ \A f \in Files : Removed(f)
<1> DEFINE c == op[worker.by]
<1>1. worker.by \in Ops /\ worker.by # NoOp /\ worker.prof \in Profiles
  BY DEF TypeInv, TypeOK, WorkRecords, CalmInv, WorkerKnows
<1>2. /\ c.phase = "work" /\ c.kind \in {"disable", "bulk"}
      /\ worker.files = c.files /\ worker.under = c.under
  BY <1>1 DEF TypeInv, WorkerHasCall, CalmInv, WorkerKnows
<1>3. DisableKnows(c) /\ BulkKnows(c)
  BY <1>1 DEF CalmInv, CallsKnow
<1>4. Planned(c) /\ Leaving(c) \subseteq OnFolder
  <2>1. CASE c.kind = "disable"
    BY <1>2, <1>3, <2>1 DEF DisableKnows, Leaving, OnFolder, TypeInv, TypeOK
  <2>2. CASE c.kind = "bulk"
    BY <1>2, <1>3, <2>2 DEF BulkKnows, Leaving, OnFolder
  <2> QED BY <1>2, <2>1, <2>2
<1> HIDE DEF c
<1>5. FilesOf(Leaving(c)) \subseteq FilesOf(OnFolder)
  BY <1>4 DEF FilesOf
<1> QED BY <1>1, <1>2, <1>4, <1>5 DEF c, Planned, CalmInv, FilesAreRight

\* A step of a removal on one file, whatever it makes of the file and of its backup.
LEMMA RemovalStep ==
    ASSUME TypeInv, CalmInv, NEW f \in Files, NEW s \in {"copy", "done"},
           worker.task = "unapply", f \in worker.files,
           worker' = [worker EXCEPT !.stage[f] = s], UNCHANGED <<lists, op>>,
           \A g \in Files : g # f => /\ game'[g] = game[g]
                                    /\ \A p \in Profiles : backup'[p][g] = backup[p][g],
           s = "copy" => Settled(OnFolder, f)',
           s = "done" => Settled(OnFolder \ Leaving(op[worker.by]), f)',
           \A p \in Profiles : backup'[p][f] \in {backup[p][f], Nothing}
    PROVE  CalmInv'
<1>1. worker \in WorkRecords
  BY DEF TypeInv, TypeOK
<1>2. /\ worker'.stage = [worker.stage EXCEPT ![f] = s] /\ worker'.mend = worker.mend
      /\ worker'.task = worker.task /\ worker'.by = worker.by /\ worker'.undo = worker.undo
      /\ worker'.prof = worker.prof /\ worker'.mod = worker.mod
      /\ worker'.files = worker.files /\ worker'.others = worker.others
      /\ worker'.under = worker.under
  BY <1>1 DEF WorkRecords
<1>3. worker'.stage[f] = s
  BY <1>1, <1>2 DEF WorkRecords
<1>4. Removed(f)'
  BY <1>3 DEF Removed
<1>5. BackupRight(f)'
  BY <1>2 DEF BackupRight, CalmInv
<1> QED BY <1>1, <1>2, <1>4, <1>5, FileStep DEF WorkRecords

\* DeleteFile keeps CalmInv: the game has no file there.
LEMMA DeleteFileCalm ==
    ASSUME Calm, TypeInv, CalmInv, NEW f \in Files, DeleteFile(f)
    PROVE  CalmInv'
<1> DEFINE stay == OnFolder \ Leaving(op[worker.by])
<1>1. /\ worker.task = "unapply" /\ worker.stage[f] = "todo" /\ f \in worker.files
      /\ worker' = [worker EXCEPT !.stage[f] = "done"] /\ UNCHANGED <<backup, lists, op>>
      /\ game' = [game EXCEPT ![f] = Nothing]
      /\ worker.under[f] = Nothing /\ Holders(f) = {}
  BY DEF DeleteFile, Set, Calm
<1>2. Unbacked(f)
  BY <1>1 DEF Holders, Unbacked
<1>3. f \in FilesOf(OnFolder) /\ f \notin FilesOf(stay) /\ Settled(OnFolder, f)
  BY <1>1, RemovalKnows DEF Removed
<1>4. f \notin Originals
  BY <1>2, <1>3, Library_Assumption DEF Settled, Backed, BackedBy, Unbacked
<1>5. Settled(stay, f)'
  <2>1. FilesOf(stay)' = FilesOf(stay)
    BY <1>1 DEF lists, FilesOf, OnFolder, Active, Leaving
  <2>2. game'[f] = Pristine(f) /\ Unbacked(f)'
    BY <1>1, <1>2, <1>4 DEF Pristine, Unbacked, TypeInv, TypeOK
  <2> QED BY <1>3, <2>1, <2>2 DEF Settled, Pristine
<1> QED BY <1>1, <1>5, RemovalStep DEF TypeInv, TypeOK, lists

\* RestoreStarts keeps CalmInv: the original is still in its backup folder.
LEMMA RestoreStartsCalm ==
    ASSUME TypeInv, CalmInv, NEW f \in Files, RestoreStarts(f)
    PROVE  CalmInv'
<1>1. /\ worker.task = "unapply" /\ worker.stage[f] = "todo" /\ f \in worker.files
      /\ worker' = [worker EXCEPT !.stage[f] = "copy"] /\ UNCHANGED <<backup, lists, op>>
      /\ \A g \in Files : g # f => game'[g] = game[g]
  BY DEF RestoreStarts, Set, TypeInv, TypeOK
<1>2. f \in FilesOf(OnFolder) /\ Settled(OnFolder, f)
  BY <1>1, RemovalKnows DEF Removed
<1>3. FilesOf(OnFolder)' = FilesOf(OnFolder)
  BY <1>1 DEF lists, FilesOf, OnFolder, Active
<1>4. Settled(OnFolder, f)'
  BY <1>1, <1>2, <1>3 DEF Settled, Backed, BackedBy, OnlyIn
<1> QED BY <1>1, <1>4, RemovalStep

\* RestoreEnds keeps CalmInv: what it puts back, when no mod is left, is the original.
LEMMA RestoreEndsCalm ==
    ASSUME TypeInv, CalmInv, NEW f \in Files, RestoreEnds(f)
    PROVE  CalmInv'
<1> DEFINE stay   == OnFolder \ Leaving(op[worker.by])
           holder == HolderFor(f)
<1>1. /\ worker.task = "unapply" /\ worker.stage[f] = "copy" /\ f \in worker.files
      /\ worker' = [worker EXCEPT !.stage[f] = "done"] /\ UNCHANGED <<lists, op>>
  BY DEF RestoreEnds, Set, CalmInv, WorkerKnows
<1>2. /\ f \in FilesOf(OnFolder) /\ Settled(OnFolder, f)
      /\ worker.under[f] = Nothing <=> f \notin FilesOf(stay)
  BY <1>1, RemovalKnows DEF Removed
<1>3. FilesOf(stay)' = FilesOf(stay)
  BY <1>1 DEF lists, FilesOf, OnFolder, Active, Leaving
<1>4. CASE worker.under[f] # Nothing
  <2>1. backup' = backup /\ game' = [game EXCEPT ![f] = worker.under[f]]
    BY <1>4 DEF RestoreEnds
  <2>2. Settled(stay, f)'
    BY <1>2, <1>3, <1>4, <2>1 DEF Settled, Backed, BackedBy, OnlyIn
  <2> QED BY <1>1, <2>1, <2>2, RemovalStep DEF TypeInv, TypeOK
<1>5. CASE worker.under[f] = Nothing
  <2>1. holder \in Profiles /\ backup[holder][f] # Nothing
    BY <1>1, <1>5, HolderType DEF TypeInv, CopyHasSource, Holders
  <2>2. f \in Originals /\ backup[holder][f] = Orig
    BY <1>1, <2>1 DEF CalmInv, BackupRight
  <2>3. OnlyIn(holder, f)
    BY <1>2, <2>1, <2>2 DEF Settled, Backed, BackedBy, OnlyIn
  <2>4. /\ game' = [game EXCEPT ![f] = backup[holder][f]]
        /\ backup' = [backup EXCEPT ![holder][f] = Nothing]
    BY <1>5 DEF RestoreEnds
  <2> HIDE DEF holder
  <2>5. game'[f] = Pristine(f) /\ Unbacked(f)'
    BY <2>1, <2>2, <2>3, <2>4 DEF Pristine, Unbacked, OnlyIn, TypeInv, TypeOK
  <2>6. Settled(stay, f)'
    BY <1>2, <1>3, <1>5, <2>5 DEF Settled, Pristine
  <2> QED BY <1>1, <2>1, <2>4, <2>6, RemovalStep DEF TypeInv, TypeOK
<1> QED BY <1>4, <1>5

----------------------------------------------------------------------------
(* One call at a time: the calls' steps *)

\* There is one call, and what is on the disk is its lists' but for its last step.
LEMMA OneCall ==
    ASSUME Calm, NEW o \in Ops
    PROVE  /\ Ops = {o}
           /\ OnDisk = (OnFolder \ Taken(op[o])) \cup Put(op[o])
           /\ OnDisk' = ((OnFolder \ Taken(op[o])) \cup Put(op[o]))'
<1>1. Ops = {o}
  BY DEF Calm
<1> QED BY <1>1 DEF OnDisk

\* While the call does not wait for a worker there is none, and the files are right.
LEMMA NoWorkerNow ==
    ASSUME Calm, TypeInv, CalmInv, NEW o \in Ops, op[o].phase # "work"
    PROVE  /\ worker.by = NoOp /\ worker.task = "none"
           /\ \A f \in Files : Settled(OnDisk, f)
<1>1. worker.by = NoOp
  BY DEF Calm, TypeInv, TypeOK, WorkRecords, WorkerHasCall
<1> QED BY <1>1 DEF CalmInv, WorkerKnows, FilesAreRight

\* A step of the call that touches no file keeps CalmInv when the mods on the disk stay
\* those of the lists and the call still knows what it knew.
LEMMA CallStepCalm ==
    ASSUME Calm, TypeInv, CalmInv, NEW o \in Ops, op[o].phase # "work",
           UNCHANGED <<disk, worker>>, OneLibraryPerMod', TwinsAgree', OnDisk' = OnDisk,
           EnableKnows(op[o])', DisableKnows(op[o])', BulkKnows(op[o])', ~op'[o].stop
    PROVE  CalmInv'
<1>1. /\ worker.task = "none" /\ worker.by = NoOp
      /\ \A f \in Files : Settled(OnDisk, f)
  BY NoWorkerNow
<1>2. game' = game /\ backup' = backup /\ worker' = worker
  BY DEF disk
<1>3. Ops = {o}
  BY OneCall
<1>4. Unstopped'
  BY <1>2, <1>3 DEF CalmInv, Unstopped
<1>5. CallsKnow'
  BY <1>3 DEF CallsKnow
<1>6. WorkerKnows'
  BY <1>1, <1>2 DEF WorkerKnows, CalmInv
<1>7. FilesAreRight'
  <2>1. \A f \in Files : Settled(OnDisk, f)'
    <3> TAKE f \in Files
    <3>1. FilesOf(OnDisk)' = FilesOf(OnDisk)
      BY DEF FilesOf
    <3>2. Settled(OnDisk, f)
      BY <1>1
    <3> QED BY <1>2, <3>1, <3>2 DEF Settled, Pristine, Backed, BackedBy, OnlyIn, Unbacked
  <2> QED BY <1>1, <1>2, <2>1 DEF FilesAreRight
<1>8. \A f \in Files : BackupRight(f)'
  BY <1>2 DEF CalmInv, BackupRight
<1> QED BY <1>4, <1>5, <1>6, <1>7, <1>8 DEF CalmInv

\* The same of a step that leaves the lists alone.
LEMMA PlainStepCalm ==
    ASSUME Calm, TypeInv, CalmInv, NEW o \in Ops, op[o].phase # "work", NEW c,
           op' = [op EXCEPT ![o] = c], UNCHANGED <<disk, worker, at, cur>>,
           Taken(c) = Taken(op[o]), Put(c) = Put(op[o]), ~c.stop,
           EnableKnows(c), DisableKnows(c), BulkKnows(c)
    PROVE  CalmInv'
<1>1. op'[o] = c
  BY DEF TypeInv, TypeOK
<1>2. OnFolder' = OnFolder /\ \A p \in Profiles : Active(p)' = Active(p)
  BY DEF OnFolder, Active
<1>3. OneLibraryPerMod' /\ TwinsAgree'
  BY <1>2 DEF CalmInv, OneLibraryPerMod, TwinsAgree
<1>4. Taken(op[o])' = Taken(c) /\ Put(op[o])' = Put(c)
  BY <1>1 DEF Taken, Put, Leaving
<1>5. OnDisk' = OnDisk
  BY <1>2, <1>4, OneCall
<1>6. EnableKnows(op[o])'
  BY <1>1, <1>2 DEF EnableKnows, FilesOf
<1>7. Planned(c) => Planned(op[o])'
  BY <1>1, <1>2 DEF Planned, Leaving, FilesOf
<1>8. DisableKnows(op[o])'
  BY <1>1, <1>7 DEF DisableKnows, Active
<1>9. BulkKnows(op[o])'
  BY <1>1, <1>2, <1>7 DEF BulkKnows
<1> QED BY <1>1, <1>3, <1>5, <1>6, <1>8, <1>9, CallStepCalm

\* EnableBegin, EnableSurvey, EnableNext and EnableLeave keep CalmInv.
LEMMA EnablePlansCalm ==
    ASSUME Calm, TypeInv, CalmInv, NEW o \in Ops,
           \/ \E m \in Mods : EnableBegin(o, m) \/ EnableNext(o, m)
           \/ EnableSurvey(o) \/ EnableLeave(o)
    PROVE  CalmInv'
<1>1. /\ op \in [Ops -> CallRecords] /\ op[o] \in CallRecords /\ ~op[o].stop
      /\ EnableKnows(op[o])
  BY DEF TypeInv, TypeOK, CalmInv, Unstopped, CallsKnow
<1>2. ASSUME NEW m \in Mods, EnableBegin(o, m)
      PROVE  CalmInv'
  <2> DEFINE c == [NoCall EXCEPT !.kind = "enable", !.phase = "survey", !.prof = cur,
                                 !.target = m, !.todo = InChain(m) \ Active(cur)]
  <2>1. /\ op[o].phase = "idle" /\ op' = [op EXCEPT ![o] = c]
        /\ UNCHANGED <<disk, worker, at, cur>>
    BY <1>2 DEF EnableBegin, lists
  <2>2. /\ c.kind = "enable" /\ c.phase = "survey" /\ ~c.stop
    BY DEF NoCall
  <2> HIDE DEF c
  <2>3. EnableKnows(c) /\ DisableKnows(c) /\ BulkKnows(c)
    BY <2>2 DEF EnableKnows, DisableKnows, BulkKnows
  <2>4. Taken(c) = Taken(op[o]) /\ Put(c) = Put(op[o])
    BY <2>1, <2>2 DEF Taken, Put
  <2> QED BY <2>1, <2>2, <2>3, <2>4, PlainStepCalm
<1>3. ASSUME NEW m \in Mods, EnableNext(o, m)
      PROVE  CalmInv'
  <2> DEFINE c == [op[o] EXCEPT !.phase = "wait", !.mod = m, !.todo = @ \ {m}]
  <2>1. /\ op[o].kind = "enable" /\ op[o].phase = "next" /\ op' = [op EXCEPT ![o] = c]
        /\ \A q \in Profiles \ {op[o].prof} : m \notin Active(q)
        /\ UNCHANGED <<disk, worker, at, cur>>
    BY <1>1, <1>3 DEF EnableNext, lists
  <2>2. /\ c.kind = "enable" /\ c.phase = "wait" /\ ~c.stop
        /\ c.mod = m /\ c.prof = op[o].prof /\ c.others = op[o].others
    BY <1>1, <2>1 DEF CallRecords
  <2> HIDE DEF c
  <2>3. EnableKnows(c) /\ DisableKnows(c) /\ BulkKnows(c)
    BY <1>1, <2>1, <2>2 DEF EnableKnows, DisableKnows, BulkKnows
  <2>4. Taken(c) = Taken(op[o]) /\ Put(c) = Put(op[o])
    BY <2>1, <2>2 DEF Taken, Put
  <2> QED BY <2>1, <2>2, <2>3, <2>4, PlainStepCalm
<1>4. CASE EnableSurvey(o)
  <2> DEFINE c == [op[o] EXCEPT !.phase = "next", !.others = FilesOf(OnFolder)]
  <2>1. /\ op[o].kind = "enable" /\ op[o].phase = "survey" /\ op' = [op EXCEPT ![o] = c]
        /\ UNCHANGED <<disk, worker, at, cur>>
    BY <1>1, <1>4 DEF EnableSurvey, lists
  <2>2. /\ c.kind = "enable" /\ c.phase = "next" /\ ~c.stop /\ c.others = FilesOf(OnFolder)
    BY <1>1, <2>1 DEF CallRecords
  <2> HIDE DEF c
  <2>3. EnableKnows(c) /\ DisableKnows(c) /\ BulkKnows(c)
    BY <2>2 DEF EnableKnows, DisableKnows, BulkKnows
  <2>4. Taken(c) = Taken(op[o]) /\ Put(c) = Put(op[o])
    BY <2>1, <2>2 DEF Taken, Put
  <2> QED BY <2>1, <2>2, <2>3, <2>4, PlainStepCalm
<1>5. CASE EnableLeave(o)
  <2> DEFINE c == [op[o] EXCEPT !.phase = "save"]
  <2>1. /\ op[o].kind = "enable" /\ op[o].phase = "next" /\ op' = [op EXCEPT ![o] = c]
        /\ UNCHANGED <<disk, worker, at, cur>>
    BY <1>1, <1>5 DEF EnableLeave, lists
  <2>2. /\ c.kind = "enable" /\ c.phase = "save" /\ ~c.stop
    BY <1>1, <2>1 DEF CallRecords
  <2> HIDE DEF c
  <2>3. EnableKnows(c) /\ DisableKnows(c) /\ BulkKnows(c)
    BY <2>2 DEF EnableKnows, DisableKnows, BulkKnows
  <2>4. Taken(c) = Taken(op[o]) /\ Put(c) = Put(op[o])
    BY <2>1, <2>2 DEF Taken, Put
  <2> QED BY <2>1, <2>2, <2>3, <2>4, PlainStepCalm
<1> QED BY <1>2, <1>3, <1>4, <1>5

\* DisableBegin keeps CalmInv: its plan is right.
LEMMA DisablePlansCalm ==
    ASSUME Calm, TypeInv, CalmInv, NEW o \in Ops, NEW m \in Mods, DisableBegin(o, m)
    PROVE  CalmInv'
<1> DEFINE under == [f \in Files |-> IF f \in Ships[m] THEN Fallback(cur, {m}, f) ELSE Nothing]
           c == DisablePlan([NoCall EXCEPT !.kind = "disable", !.target = m], m)
<1>1. /\ op[o].phase = "idle" /\ op' = [op EXCEPT ![o] = c] /\ m \in Active(cur)
      /\ UNCHANGED <<disk, worker, at, cur>> /\ TypeOK /\ cur \in Profiles
  BY DEF DisableBegin, lists, TypeInv, TypeOK
<1>2. /\ c.kind = "disable" /\ c.phase = "wait" /\ ~c.stop /\ c.mod = m
      /\ c.files = Ships[m] /\ c.under = under
  BY DEF NoCall, DisablePlan
<1>3. FilesOf({m}) = Ships[m] /\ Ships[m] \subseteq Files
  BY Library_Assumption DEF FilesOf
<1>4. \A f \in Ships[m] : under[f] = Nothing <=> f \notin FilesOf(OnFolder \ {m})
  <2> TAKE f \in Ships[m]
  <2>1. f \in Files /\ under[f] = Fallback(cur, {m}, f)
    BY <1>3
  <2> HIDE DEF under
  <2> QED BY <1>1, <2>1, NothingUnder
<1> HIDE DEF c, under
<1>5. Planned(c)
  BY <1>2, <1>3, <1>4 DEF Planned, Leaving
<1>6. EnableKnows(c) /\ DisableKnows(c) /\ BulkKnows(c)
  BY <1>1, <1>2, <1>5 DEF EnableKnows, DisableKnows, BulkKnows
<1>7. Taken(c) = Taken(op[o]) /\ Put(c) = Put(op[o])
  BY <1>1, <1>2 DEF Taken, Put
<1> QED BY <1>1, <1>2, <1>6, <1>7, PlainStepCalm

\* BulkBegin keeps CalmInv: the profile asked for is alone with its mods folder.
LEMMA BulkBeginCalm ==
    ASSUME Calm, TypeInv, CalmInv, NEW o \in Ops, NEW g \in BulkGroups, NEW w \in SUBSET Mods,
           BulkBegin(o, g, w)
    PROVE  CalmInv'
<1> DEFINE touched == {p \in g : Active(p) \cap w # {}}
           mine == [p \in Profiles |-> IF p \in touched THEN Active(p) \cap w ELSE {}]
           c == [NoCall EXCEPT !.kind = "bulk", !.phase = "next", !.group = touched,
                               !.tasks = touched, !.gone = w, !.mine = mine]
<1>1. /\ op[o].phase = "idle" /\ op' = [op EXCEPT ![o] = c] /\ touched # {}
      /\ UNCHANGED <<disk, worker, at, cur>>
  BY DEF BulkBegin, lists
<1>2. PICK p \in Profiles : g \subseteq {p} /\ Twins(p) = {p}
  BY DEF Calm
<1>3. touched = {p} /\ mine[p] = Active(p) \cap w /\ mine[p] # {}
  BY <1>1, <1>2
<1>4. /\ c.kind = "bulk" /\ c.phase = "next" /\ ~c.stop /\ c.group = touched
      /\ c.tasks = touched /\ c.gone = w /\ c.mine = mine
  BY DEF NoCall
<1> HIDE DEF c, touched, mine
<1>5. EnableKnows(c) /\ DisableKnows(c) /\ BulkKnows(c)
  BY <1>2, <1>3, <1>4 DEF EnableKnows, DisableKnows, BulkKnows
<1>6. Taken(c) = Taken(op[o]) /\ Put(c) = Put(op[o])
  BY <1>1, <1>4 DEF Taken, Put
<1> QED BY <1>1, <1>4, <1>5, <1>6, PlainStepCalm

\* BulkNext keeps CalmInv: its plan is right.
LEMMA BulkNextCalm ==
    ASSUME Calm, TypeInv, CalmInv, NEW o \in Ops, NEW q \in Profiles, BulkNext(o, q)
    PROVE  CalmInv'
<1> DEFINE gone  == op[o].mine[q]
           files == FilesOf(gone)
           under == [f \in Files |-> IF f \in files THEN BatchFallback(gone, f) ELSE Nothing]
           c == [op[o] EXCEPT !.phase = "wait", !.prof = q, !.tasks = @ \ {q},
                              !.files = files, !.under = under]
<1>1. /\ op[o] \in CallRecords /\ op[o].kind = "bulk" /\ op[o].phase = "next"
      /\ q \in op[o].tasks /\ op' = [op EXCEPT ![o] = c] /\ TypeOK
      /\ UNCHANGED <<disk, worker, at, cur>> /\ ~op[o].stop
  BY DEF BulkNext, lists, TypeInv, TypeOK, CalmInv, Unstopped
<1>2. PICK p \in Profiles : /\ op[o].group = {p} /\ op[o].tasks \subseteq {p} /\ Twins(p) = {p}
                            /\ op[o].mine[p] = Active(p) \cap op[o].gone /\ op[o].mine[p] # {}
  BY <1>1 DEF CalmInv, CallsKnow, BulkKnows
<1>3. q = p /\ op[o].tasks \ {q} = {} /\ gone \in SUBSET Mods
  BY <1>1, <1>2 DEF CallRecords
<1>4. files \subseteq Files
  BY <1>3, Library_Assumption DEF FilesOf
<1>5. /\ c.kind = "bulk" /\ c.phase = "wait" /\ ~c.stop /\ c.tasks = {}
      /\ c.group = op[o].group /\ c.mine = op[o].mine /\ c.gone = op[o].gone
      /\ c.files = files /\ c.under = under
  BY <1>1, <1>3 DEF CallRecords
<1>6. \A f \in files : under[f] = Nothing <=> f \notin FilesOf(OnFolder \ gone)
  <2> TAKE f \in files
  <2>1. f \in Files /\ under[f] = BatchFallback(gone, f)
    BY <1>4
  <2> HIDE DEF under, gone
  <2> QED BY <1>1, <1>2, <1>3, <2>1, NothingUnder
<1> HIDE DEF c, under
<1>7. Leaving(c) = gone
  BY <1>2, <1>3, <1>5 DEF Leaving
<1>8. Planned(c)
  BY <1>5, <1>6, <1>7 DEF Planned
<1>9. EnableKnows(c) /\ DisableKnows(c) /\ BulkKnows(c)
  BY <1>2, <1>5, <1>8 DEF EnableKnows, DisableKnows, BulkKnows
<1>10. Taken(c) = Taken(op[o]) /\ Put(c) = Put(op[o])
  BY <1>1, <1>5 DEF Taken, Put
<1> QED BY <1>1, <1>5, <1>9, <1>10, PlainStepCalm

\* Save and SwitchProfile keep CalmInv: no call is under way after the one and before
\* the other.
LEMMA SavesCalm ==
    ASSUME Calm, TypeInv, CalmInv,
           \/ \E o \in Ops : Save(o)
           \/ \E p \in Profiles : SwitchProfile(p)
    PROVE  CalmInv'
<1>1. ASSUME NEW o \in Ops, Save(o)
      PROVE  CalmInv'
  <2>1. /\ op[o].phase = "save" /\ op' = [op EXCEPT ![o] = NoCall]
        /\ UNCHANGED <<disk, worker, at, cur>>
    BY <1>1 DEF Save
  <2>2. NoCall.kind = "none" /\ NoCall.phase = "idle" /\ ~NoCall.stop
    BY DEF NoCall
  <2>3. EnableKnows(NoCall) /\ DisableKnows(NoCall) /\ BulkKnows(NoCall)
    BY <2>2 DEF EnableKnows, DisableKnows, BulkKnows
  <2>4. Taken(NoCall) = Taken(op[o]) /\ Put(NoCall) = Put(op[o])
    BY <2>1, <2>2 DEF Taken, Put
  <2> QED BY <2>1, <2>2, <2>3, <2>4, PlainStepCalm
<1>2. ASSUME NEW p \in Profiles, SwitchProfile(p)
      PROVE  CalmInv'
  <2>1. PICK o \in Ops : TRUE
    BY Library_Assumption
  <2>2. /\ op[o].phase = "idle" /\ op' = op /\ at' = at /\ UNCHANGED <<disk, worker>>
        /\ ~op[o].stop
    BY <1>2 DEF SwitchProfile, Calm, CalmInv, Unstopped
  <2>3. OnFolder' = OnFolder /\ \A q \in Profiles : Active(q)' = Active(q)
    BY <2>2 DEF OnFolder, Active
  <2>4. OneLibraryPerMod' /\ TwinsAgree'
    BY <2>2, <2>3 DEF CalmInv, OneLibraryPerMod, TwinsAgree
  <2>5. OnDisk' = OnDisk
    BY <2>2, <2>3 DEF OnDisk, Taken, Put, Leaving
  <2>6. EnableKnows(op[o])' /\ DisableKnows(op[o])' /\ BulkKnows(op[o])'
    BY <2>2 DEF EnableKnows, DisableKnows, BulkKnows
  <2> QED BY <2>2, <2>4, <2>5, <2>6, CallStepCalm
<1> QED BY <1>1, <1>2

\* A mod put in the lists of a profile that alone may have it, and of its twins.
LEMMA ListsGain ==
    ASSUME TypeInv, OneLibraryPerMod, TwinsAgree, NEW p \in Profiles, NEW m \in Mods,
           \A q \in Profiles \ {p} : m \notin Active(q),
           at' = [q \in Profiles |-> IF q \in Twins(p) THEN Pushed(at[q], m) ELSE at[q]]
    PROVE  OneLibraryPerMod' /\ TwinsAgree' /\ OnFolder' = OnFolder \cup {m}
<1>1. ASSUME NEW q \in Profiles
      PROVE  Active(q)' = IF q \in Twins(p) THEN Active(q) \cup {m} ELSE Active(q)
  <2>1. at[q] \in [Mods -> Ranks] /\ at'[q] = IF q \in Twins(p) THEN Pushed(at[q], m) ELSE at[q]
    BY DEF TypeInv, TypeOK
  <2>2. \A n \in Mods : Pushed(at[q], m)[n] > 0 <=> at[q][n] > 0 \/ n = m
    BY <2>1, PushedActive
  <2> QED BY <2>1, <2>2 DEF Active
<1>2. p \in Twins(p) /\ \A q, r \in Profiles : r \in Twins(q) => (q \in Twins(p) <=> r \in Twins(p))
  BY DEF Twins
<1>3. OneLibraryPerMod'
  <2> SUFFICES ASSUME NEW q \in Profiles, NEW r \in Profiles,
                      NEW n \in Active(q)' \cap Active(r)'
               PROVE  r \in Twins(q)
    BY DEF OneLibraryPerMod, Twins
  <2>1. CASE n = m
    BY <1>1, <1>2, <2>1 DEF Twins
  <2>2. CASE n # m
    BY <1>1, <2>2 DEF OneLibraryPerMod
  <2> QED BY <2>1, <2>2
<1>4. TwinsAgree'
  BY <1>2 DEF TwinsAgree, Twins
<1>5. OnFolder' = OnFolder \cup {m}
  BY <1>1, <1>2 DEF OnFolder
<1> QED BY <1>3, <1>4, <1>5

\* Mods taken from the lists of profiles and of all their twins.
LEMMA ListsLose ==
    ASSUME TypeInv, OneLibraryPerMod, TwinsAgree, NEW Q \in SUBSET Profiles, NEW gone,
           \A p \in Profiles : \A q \in Twins(p) : p \in Q <=> q \in Q,
           \A p \in Profiles : at'[p] = IF p \in Q THEN Retained(at[p], gone) ELSE at[p]
    PROVE  /\ OneLibraryPerMod' /\ TwinsAgree'
           /\ \A n : n \in OnFolder' <=> /\ n \in OnFolder
                                        /\ ~ \E p \in Q : n \in Active(p) \cap gone
<1>1. ASSUME NEW p \in Profiles
      PROVE  Active(p)' = IF p \in Q THEN Active(p) \ gone ELSE Active(p)
  <2>1. at[p] \in [Mods -> Ranks] /\ at'[p] = IF p \in Q THEN Retained(at[p], gone) ELSE at[p]
    BY DEF TypeInv, TypeOK
  <2>2. \A n \in Mods : Retained(at[p], gone)[n] > 0 <=> at[p][n] > 0 /\ n \notin gone
    BY <2>1, RetainedActive
  <2> QED BY <2>1, <2>2 DEF Active
<1>2. OneLibraryPerMod'
  <2> SUFFICES ASSUME NEW q \in Profiles, NEW r \in Profiles,
                      NEW n \in Active(q)' \cap Active(r)'
               PROVE  r \in Twins(q)
    BY DEF OneLibraryPerMod, Twins
  <2> QED BY <1>1 DEF OneLibraryPerMod
<1>3. TwinsAgree'
  <2> SUFFICES ASSUME NEW p \in Profiles, NEW q \in Twins(p)
               PROVE  at'[q] = at'[p]
    BY DEF TwinsAgree, Twins
  <2> QED BY DEF TwinsAgree, Twins
<1>4. ASSUME NEW n \in OnFolder, \E p \in Q : n \in Active(p) \cap gone
      PROVE  n \notin OnFolder'
  <2>1. PICK p \in Q : n \in Active(p) \cap gone
    BY <1>4
  <2>2. \A q \in Profiles : n \in Active(q) => q \in Q
    BY <2>1 DEF OneLibraryPerMod, Twins
  <2> QED BY <1>1, <2>1, <2>2 DEF OnFolder
<1>5. ASSUME NEW n \in OnFolder, ~ \E p \in Q : n \in Active(p) \cap gone
      PROVE  n \in OnFolder'
  BY <1>1, <1>5 DEF OnFolder
<1>6. OnFolder' \subseteq OnFolder
  BY <1>1 DEF OnFolder
<1> QED BY <1>2, <1>3, <1>4, <1>5, <1>6

\* EnableRecord keeps CalmInv: the mod of the files on the disk enters the lists.
LEMMA EnableRecordCalm ==
    ASSUME Calm, TypeInv, CalmInv, NEW o \in Ops, EnableRecord(o)
    PROVE  CalmInv'
<1> DEFINE m == op[o].mod
           c == [op[o] EXCEPT !.phase = "next", !.others = @ \cup Ships[m], !.mod = Nothing]
<1>1. /\ op[o] \in CallRecords /\ op[o].kind = "enable" /\ op[o].phase = "record"
      /\ op'[o] = c /\ ~op[o].stop /\ UNCHANGED <<disk, worker>>
      /\ m \in Mods /\ op[o].prof \in Profiles
  BY DEF EnableRecord, TypeInv, TypeOK, CalmInv, Unstopped, CallHasMod, CallRecords
<1>2. /\ op[o].others = FilesOf(OnFolder)
      /\ \A q \in Profiles \ {op[o].prof} : m \notin Active(q)
  BY <1>1 DEF CalmInv, CallsKnow, EnableKnows
<1>3. /\ c.kind = "enable" /\ c.phase = "next" /\ ~c.stop
      /\ c.others = op[o].others \cup Ships[m]
  BY <1>1 DEF CallRecords
<1> HIDE DEF c
<1>4. OneLibraryPerMod' /\ TwinsAgree' /\ OnFolder' = OnFolder \cup {m}
  BY <1>1, <1>2, ListsGain DEF EnableRecord, CalmInv
<1>5. FilesOf(OnFolder)' = FilesOf(OnFolder) \cup Ships[m]
  BY <1>4, FilesWith DEF FilesOf
<1>6. EnableKnows(op[o])' /\ DisableKnows(op[o])' /\ BulkKnows(op[o])'
  BY <1>1, <1>2, <1>3, <1>5 DEF EnableKnows, DisableKnows, BulkKnows
<1>7. Taken(op[o]) = {} /\ Put(op[o]) = {m} /\ Taken(op[o])' = {} /\ Put(op[o])' = {}
  BY <1>1, <1>3 DEF Taken, Put
<1>8. OnDisk' = OnDisk
  BY <1>4, <1>7, OneCall
<1> QED BY <1>1, <1>3, <1>4, <1>6, <1>8, CallStepCalm

\* DisableRecord and BulkRecord take from the lists the mods whose files have left the
\* disk.
LEMMA RemovalLists ==
    ASSUME Calm, TypeInv, CalmInv, NEW o \in Ops, DisableRecord(o) \/ BulkRecord(o)
    PROVE  /\ OneLibraryPerMod' /\ TwinsAgree' /\ OnFolder' = OnFolder \ Taken(op[o])
           /\ \E gone : \A p \in Profiles : at'[p] = at[p] \/ at'[p] = Retained(at[p], gone)
<1>1. cur \in Profiles /\ DisableKnows(op[o]) /\ BulkKnows(op[o])
  BY DEF TypeInv, TypeOK, CalmInv, CallsKnow
<1>2. CASE DisableRecord(o)
  <2> DEFINE m == op[o].mod
  <2>1. m \in Active(cur) /\ Taken(op[o]) = {m}
    BY <1>1, <1>2 DEF DisableRecord, DisableKnows, Taken, Leaving
  <2>2. Twins(cur) \in SUBSET Profiles /\ cur \in Twins(cur)
    BY <1>1 DEF Twins
  <2>3. \A p \in Profiles : \A q \in Twins(p) : p \in Twins(cur) <=> q \in Twins(cur)
    BY DEF Twins
  <2>4. /\ OneLibraryPerMod /\ TwinsAgree
        /\ \A p \in Profiles :
              at'[p] = IF p \in Twins(cur) THEN Retained(at[p], {m}) ELSE at[p]
    BY <1>2 DEF DisableRecord, CalmInv
  <2>5. /\ OneLibraryPerMod' /\ TwinsAgree'
        /\ \A n : n \in OnFolder' <=> /\ n \in OnFolder
                                     /\ ~ \E p \in Twins(cur) : n \in Active(p) \cap {m}
    BY <2>2, <2>3, <2>4, ListsLose
  <2> QED BY <2>1, <2>2, <2>4, <2>5
<1>3. CASE BulkRecord(o)
  <2>1. /\ op[o].kind = "bulk" /\ op[o].phase = "next" /\ op[o].tasks = {}
        /\ at' = [p \in Profiles |-> IF p \in op[o].group THEN Retained(at[p], op[o].gone)
                                                          ELSE at[p]]
    BY <1>3 DEF BulkRecord
  <2>2. PICK p \in Profiles : /\ op[o].group = {p} /\ Twins(p) = {p}
                              /\ op[o].mine[p] = Active(p) \cap op[o].gone
    BY <1>1, <2>1 DEF BulkKnows
  <2>3. Taken(op[o]) = Active(p) \cap op[o].gone
    BY <2>1, <2>2 DEF Taken, Leaving
  <2> DEFINE Q == op[o].group
  <2>4. /\ OneLibraryPerMod /\ TwinsAgree /\ Q \in SUBSET Profiles
        /\ \A q \in Profiles : \A r \in Twins(q) : q \in Q <=> r \in Q
        /\ \A q \in Profiles : at'[q] = IF q \in Q THEN Retained(at[q], op[o].gone) ELSE at[q]
    BY <2>1, <2>2 DEF CalmInv, Twins
  <2>5. /\ OneLibraryPerMod' /\ TwinsAgree'
        /\ \A n : n \in OnFolder' <=> /\ n \in OnFolder
                                     /\ ~ \E q \in Q : n \in Active(q) \cap op[o].gone
    <3> HIDE DEF Q
    <3> QED BY <2>4, ListsLose
  <2>6. Q = {p}
    BY <2>2
  <2> QED BY <2>3, <2>4, <2>5, <2>6
<1> QED BY <1>2, <1>3

\* So they keep CalmInv.
LEMMA RemovalRecordsCalm ==
    ASSUME Calm, TypeInv, CalmInv, NEW o \in Ops, DisableRecord(o) \/ BulkRecord(o)
    PROVE  CalmInv'
<1> DEFINE c == [op[o] EXCEPT !.phase = "save"]
<1>1. op[o] \in CallRecords /\ ~op[o].stop /\ op'[o] = c /\ UNCHANGED <<disk, worker>>
  BY DEF DisableRecord, BulkRecord, TypeInv, TypeOK, CalmInv, Unstopped
<1>2. c.kind = op[o].kind /\ c.phase = "save" /\ ~c.stop
  BY <1>1 DEF CallRecords
<1> HIDE DEF c
<1>3. EnableKnows(op[o])' /\ DisableKnows(op[o])' /\ BulkKnows(op[o])'
  BY <1>1, <1>2 DEF EnableKnows, DisableKnows, BulkKnows
<1>4. Put(op[o]) = {} /\ Taken(op[o])' = {} /\ Put(op[o])' = {} /\ op[o].phase # "work"
  BY <1>1, <1>2 DEF Taken, Put, DisableRecord, BulkRecord
<1>5. OneLibraryPerMod' /\ TwinsAgree' /\ OnFolder' = OnFolder \ Taken(op[o])
  BY RemovalLists
<1>6. OnDisk' = OnDisk
  BY <1>4, <1>5, OneCall
<1> QED BY <1>1, <1>2, <1>3, <1>4, <1>5, <1>6, CallStepCalm

\* The call gets its worker, which has every file before it.
LEMMA StartCalm ==
    ASSUME Calm, TypeInv, CalmInv, NEW o \in Ops, op[o].phase = "wait",
           op' = [op EXCEPT ![o].phase = "work"], UNCHANGED <<disk, lists>>,
           worker'.by = o, ~worker'.undo, \A f \in Files : worker'.stage[f] = "todo",
           \/ /\ op[o].kind = "enable" /\ worker'.task = "apply" /\ worker'.mod = op[o].mod
              /\ worker'.files = Ships[op[o].mod] /\ worker'.others = op[o].others
           \/ /\ op[o].kind \in {"disable", "bulk"} /\ worker'.task = "unapply"
              /\ worker'.files = op[o].files /\ worker'.under = op[o].under
    PROVE  CalmInv'
<1> DEFINE c == [op[o] EXCEPT !.phase = "work"]
<1>1. /\ op[o] \in CallRecords /\ ~op[o].stop /\ op'[o] = c /\ o # NoOp
      /\ EnableKnows(op[o]) /\ DisableKnows(op[o]) /\ BulkKnows(op[o])
  BY Library_Assumption DEF TypeInv, TypeOK, CalmInv, Unstopped, CallsKnow
<1>2. /\ c.kind = op[o].kind /\ c.phase = "work" /\ ~c.stop /\ c.mod = op[o].mod
      /\ c.prof = op[o].prof /\ c.others = op[o].others /\ c.files = op[o].files
      /\ c.under = op[o].under /\ c.group = op[o].group /\ c.tasks = op[o].tasks
      /\ c.mine = op[o].mine /\ c.gone = op[o].gone
  BY <1>1 DEF CallRecords
<1> HIDE DEF c
<1>3. Ops = {o} /\ worker.task = "none" /\ \A f \in Files : Settled(OnFolder, f)
  <2>1. OnDisk = OnFolder
    BY OneCall DEF Taken, Put
  <2> QED BY <2>1, OneCall, NoWorkerNow
<1>4. /\ game' = game /\ backup' = backup /\ at' = at /\ cur' = cur /\ OnFolder' = OnFolder
      /\ \A p \in Profiles : Active(p)' = Active(p)
  BY DEF disk, lists, OnFolder, Active
<1>5. Unstopped' /\ OneLibraryPerMod' /\ TwinsAgree'
  BY <1>1, <1>2, <1>3, <1>4 DEF Unstopped, CalmInv, OneLibraryPerMod, TwinsAgree
<1>6. CallsKnow'
  <2>1. EnableKnows(op[o])'
    BY <1>1, <1>2, <1>4 DEF EnableKnows, FilesOf
  <2>2. Planned(op[o]) => Planned(op[o])'
    BY <1>1, <1>2, <1>4 DEF Planned, Leaving, FilesOf
  <2>3. DisableKnows(op[o])'
    BY <1>1, <1>2, <1>4, <2>2 DEF DisableKnows, Active
  <2>4. BulkKnows(op[o])'
    BY <1>1, <1>2, <1>4, <2>2 DEF BulkKnows
  <2> QED BY <1>3, <2>1, <2>3, <2>4 DEF CallsKnow
<1>7. WorkerKnows'
  BY <1>1, <1>2 DEF WorkerKnows
<1>8. \A f \in Files : Settled(OnFolder, f)'
  BY <1>3, <1>4 DEF Settled, Pristine, Backed, BackedBy, OnlyIn, Unbacked, FilesOf
<1>9. FilesAreRight'
  BY <1>8 DEF FilesAreRight, Deployed, Removed
<1>10. \A f \in Files : BackupRight(f)'
  BY <1>3, <1>4 DEF CalmInv, BackupRight
<1> QED BY <1>5, <1>6, <1>7, <1>9, <1>10 DEF CalmInv

\* EnableStart, DisableStart and BulkStart keep CalmInv.
LEMMA StartsCalm ==
    ASSUME Calm, TypeInv, CalmInv, NEW o \in Ops,
           EnableStart(o) \/ DisableStart(o) \/ BulkStart(o)
    PROVE  CalmInv'
<1>1. CASE EnableStart(o)
  <2>1. /\ worker'.by = o /\ ~worker'.undo /\ worker'.task = "apply"
        /\ worker'.mod = op[o].mod /\ worker'.files = Ships[op[o].mod]
        /\ worker'.others = op[o].others /\ \A f \in Files : worker'.stage[f] = "todo"
    BY <1>1 DEF EnableStart, NoWork
  <2> QED BY <1>1, <2>1, StartCalm DEF EnableStart
<1>2. CASE DisableStart(o)
  <2>1. /\ worker'.by = o /\ ~worker'.undo /\ worker'.task = "unapply"
        /\ worker'.files = op[o].files /\ worker'.under = op[o].under
        /\ \A f \in Files : worker'.stage[f] = "todo"
    BY <1>2 DEF DisableStart, NoWork
  <2> QED BY <1>2, <2>1, StartCalm DEF DisableStart
<1>3. CASE BulkStart(o)
  <2>1. /\ worker'.by = o /\ ~worker'.undo /\ worker'.task = "unapply"
        /\ worker'.files = op[o].files /\ worker'.under = op[o].under
        /\ \A f \in Files : worker'.stage[f] = "todo"
    BY <1>3 DEF BulkStart, NoWork
  <2> QED BY <1>3, <2>1, StartCalm DEF BulkStart
<1> QED BY <1>1, <1>2, <1>3

\* The worker ends and the call goes on: the files are right for the mods it leaves
\* on the disk.
LEMMA EndCalm ==
    ASSUME Calm, TypeInv, CalmInv, NEW o \in Ops, NEW c,
           op' = [op EXCEPT ![o] = c], worker' = NoWork, UNCHANGED <<disk, lists>>,
           ~c.stop, EnableKnows(c), DisableKnows(c), BulkKnows(c),
           \A f \in Files : Settled((OnFolder \ Taken(c)) \cup Put(c), f),
           \A f \in Files : worker.stage[f] # "backup"
    PROVE  CalmInv'
<1>1. op'[o] = c /\ Ops = {o}
  BY OneCall DEF TypeInv, TypeOK
<1>2. worker'.task = "none" /\ worker'.by = NoOp /\ ~worker'.undo
      /\ \A f \in Files : worker'.stage[f] = "todo"
  BY DEF NoWork
<1>3. /\ game' = game /\ backup' = backup /\ at' = at /\ cur' = cur /\ OnFolder' = OnFolder
      /\ \A p \in Profiles : Active(p)' = Active(p)
  BY DEF disk, lists, OnFolder, Active
<1>4. Unstopped' /\ OneLibraryPerMod' /\ TwinsAgree'
  BY <1>1, <1>2, <1>3 DEF Unstopped, CalmInv, OneLibraryPerMod, TwinsAgree
<1>5. CallsKnow'
  <2>1. EnableKnows(op[o])'
    BY <1>1, <1>3 DEF EnableKnows, FilesOf
  <2>2. Planned(c) => Planned(op[o])'
    BY <1>1, <1>3 DEF Planned, Leaving, FilesOf
  <2>3. DisableKnows(op[o])'
    BY <1>1, <1>3, <2>2 DEF DisableKnows, Active
  <2>4. BulkKnows(op[o])'
    BY <1>1, <1>3, <2>2 DEF BulkKnows
  <2> QED BY <1>1, <2>1, <2>3, <2>4 DEF CallsKnow
<1>6. WorkerKnows'
  BY <1>2 DEF WorkerKnows
<1>7. FilesAreRight'
  <2> DEFINE S == (OnFolder \ Taken(c)) \cup Put(c)
  <2>1. OnDisk' = S
    BY <1>1, <1>3, OneCall DEF Taken, Put, Leaving
  <2>2. ASSUME NEW f \in Files
        PROVE  Settled(OnDisk, f)'
    <3>1. Settled(S, f) /\ FilesOf(OnDisk)' = FilesOf(S)
      BY <2>1 DEF FilesOf
    <3> QED BY <1>3, <3>1 DEF Settled, Pristine, Backed, BackedBy, OnlyIn, Unbacked
  <2> QED BY <1>2, <2>2 DEF FilesAreRight
<1>8. \A f \in Files : BackupRight(f)'
  BY <1>3 DEF CalmInv, BackupRight
<1> QED BY <1>4, <1>5, <1>6, <1>7, <1>8 DEF CalmInv

\* WorkerDone keeps CalmInv: every file of the deploy is the mod's with its original
\* backed up, every file of the removal is as the mods that stay have it.
LEMMA WorkerDoneCalm ==
    ASSUME Calm, TypeInv, CalmInv, NEW o \in Ops, WorkerDone(o)
    PROVE  CalmInv'
<1> DEFINE next == IF op[o].kind = "bulk" THEN "next" ELSE "record"
           c    == [op[o] EXCEPT !.phase = next]
<1>1. /\ op[o] \in CallRecords /\ ~op[o].stop /\ o # NoOp /\ ~worker.undo
      /\ worker.by = o /\ worker.task \in {"apply", "unapply"}
      /\ \A f \in worker.files : worker.stage[f] = "done"
      /\ worker' = NoWork /\ UNCHANGED <<disk, lists>>
      /\ EnableKnows(op[o]) /\ DisableKnows(op[o]) /\ BulkKnows(op[o])
  BY Library_Assumption DEF WorkerDone, TypeInv, TypeOK, CalmInv, Unstopped, CallsKnow
<1>2. op[o].phase = "work" /\ op[o].kind \in {"enable", "disable", "bulk"}
  BY <1>1 DEF TypeInv, WorkerHasCall, CalmInv, WorkerKnows
<1>3. op' = [op EXCEPT ![o] = c]
  BY <1>1 DEF WorkerDone
<1>4. /\ c.kind = op[o].kind /\ c.phase = next /\ ~c.stop /\ c.mod = op[o].mod
      /\ c.prof = op[o].prof /\ c.others = op[o].others /\ c.files = op[o].files
      /\ c.under = op[o].under /\ c.group = op[o].group /\ c.tasks = op[o].tasks
      /\ c.mine = op[o].mine /\ c.gone = op[o].gone
  BY <1>1 DEF CallRecords
<1> HIDE DEF c
<1>5. EnableKnows(c)
  BY <1>1, <1>2, <1>4 DEF EnableKnows
<1>6. DisableKnows(c)
  BY <1>1, <1>2, <1>4 DEF DisableKnows
<1>7. BulkKnows(c)
  BY <1>1, <1>2, <1>4 DEF BulkKnows
<1>8. \A f \in Files : \/ worker.stage[f] = "done"
                       \/ worker.stage[f] = "todo" /\ f \notin worker.files
  BY <1>1 DEF CalmInv, WorkerKnows, TypeInv, TypeOK, WorkRecords
<1>9. ASSUME NEW f \in Files
      PROVE  Settled((OnFolder \ Taken(c)) \cup Put(c), f)
  <2>1. CASE worker.task = "apply"
    <3>1. /\ op[o].kind = "enable" /\ worker.files = Ships[op[o].mod]
          /\ Deployed(f)
      BY <1>1, <2>1, DeployKnows DEF CalmInv, WorkerKnows
    <3>2. Taken(c) = {} /\ Put(c) = {op[o].mod}
      BY <1>4, <3>1 DEF Taken, Put
    <3>3. FilesOf((OnFolder \ Taken(c)) \cup Put(c)) = FilesOf(OnFolder) \cup worker.files
      <4>1. (OnFolder \ Taken(c)) \cup Put(c) = OnFolder \cup {op[o].mod}
        BY <3>2
      <4>2. FilesOf(OnFolder \cup {op[o].mod}) = FilesOf(OnFolder) \cup Ships[op[o].mod]
        BY FilesWith
      <4> QED BY <3>1, <4>1, <4>2
    <3>4. CASE f \in worker.files
      <4>1. f \in Originals => Backed(f)
        BY <1>1, <2>1, <3>1, <3>4, DeployKnows DEF Deployed, CanMend, Backed
      <4> QED BY <3>3, <3>4, <4>1 DEF Settled
    <3>5. CASE f \notin worker.files
      <4>1. Settled(OnFolder, f)
        BY <1>1, <1>8, <3>1, <3>5 DEF Deployed, CalmInv, WorkerKnows
      <4> QED BY <3>3, <3>5, <4>1 DEF Settled
    <3> QED BY <3>4, <3>5
  <2>2. CASE worker.task = "unapply"
    <3>1. /\ op[o].kind \in {"disable", "bulk"} /\ Removed(f)
          /\ worker.files = FilesOf(Leaving(op[o]))
      BY <1>1, <2>2, RemovalKnows DEF CalmInv, WorkerKnows
    <3>2. op[o].kind = "bulk" => op[o].tasks = {}
      BY <1>1, <1>2 DEF BulkKnows
    <3>3. Taken(c) = Leaving(op[o]) /\ Put(c) = {}
      BY <1>4, <3>1, <3>2 DEF Taken, Put, Leaving
    <3>4. Settled(OnFolder \ Leaving(op[o]), f)
      <4>1. CASE f \in worker.files
        BY <1>1, <3>1, <4>1 DEF Removed
      <4>2. CASE f \notin worker.files
        <5>1. Settled(OnFolder, f)
          BY <1>8, <3>1, <4>2 DEF Removed, CalmInv, WorkerKnows
        <5>2. f \in FilesOf(OnFolder \ Leaving(op[o])) <=> f \in FilesOf(OnFolder)
          BY <3>1, <4>2, FilesWithout
        <5> QED BY <5>1, <5>2 DEF Settled
      <4> QED BY <4>1, <4>2
    <3>5. (OnFolder \ Taken(c)) \cup Put(c) = OnFolder \ Leaving(op[o])
      BY <3>3
    <3> QED BY <3>4, <3>5
  <2> QED BY <1>1, <2>1, <2>2
<1>10. \A f \in Files : worker.stage[f] # "backup"
  BY <1>8
<1> QED BY <1>1, <1>3, <1>4, <1>5, <1>6, <1>7, <1>9, <1>10, EndCalm

\* WorkerErr keeps CalmInv: it is a deploy that has been rolled back.
LEMMA WorkerErrCalm ==
    ASSUME Calm, TypeInv, CalmInv, NEW o \in Ops, WorkerErr(o)
    PROVE  CalmInv'
<1> DEFINE c == AfterStop(op[o])
<1>1. worker.task = "rollback" /\ \A f \in worker.files : worker.stage[f] = "todo"
  <2>1. worker.task = "unapply" => NoneFailed
    BY DEF CalmInv, FilesAreRight, Removed, NoneFailed
  <2> QED BY <2>1 DEF WorkerErr
<1>2. /\ op[o] \in CallRecords /\ ~op[o].stop /\ worker.by = o /\ op[o].kind = "enable"
      /\ worker' = NoWork /\ UNCHANGED <<disk, lists>>
  BY <1>1 DEF WorkerErr, TypeInv, TypeOK, CalmInv, Unstopped, WorkerKnows
<1>3. op' = [op EXCEPT ![o] = c]
  BY <1>2 DEF WorkerErr
<1>4. c.kind = "enable" /\ c.phase = "save" /\ ~c.stop
  BY <1>2 DEF AfterStop, CallRecords
<1> HIDE DEF c
<1>5. EnableKnows(c) /\ DisableKnows(c) /\ BulkKnows(c)
  BY <1>4 DEF EnableKnows, DisableKnows, BulkKnows
<1>6. \A f \in Files : worker.stage[f] = "todo"
  BY <1>1 DEF CalmInv, WorkerKnows
<1>7. (OnFolder \ Taken(c)) \cup Put(c) = OnFolder
  BY <1>4 DEF Taken, Put
<1>8. \A f \in Files : Settled(OnFolder, f)
  BY <1>1, <1>6, DeployKnows DEF Deployed
<1>9. /\ \A f \in Files : Settled((OnFolder \ Taken(c)) \cup Put(c), f)
      /\ \A f \in Files : worker.stage[f] # "backup"
  BY <1>6, <1>7, <1>8
<1> QED BY <1>2, <1>3, <1>4, <1>5, <1>9, EndCalm

----------------------------------------------------------------------------
(* One call at a time: every step, and the theorems *)

\* Steps that calm use has not.
LEMMA NotInCalm ==
    ASSUME Calm, TypeInv, CalmInv
    PROVE  /\ \A f \in Files : ~BackupFails(f) /\ ~RestoreFails(f) /\ ~RollBackFails(f)
           /\ \A o \in Ops : ~Cancel(o) /\ ~LeaveQueue(o) /\ ~KillAndUndo(o) /\ ~StopBulk(o)
           /\ ~Crash /\ \A m \in Mods : ~ApiEnable(m) /\ ~ApiDisable(m)
BY DEF Calm, CalmInv, Unstopped, BackupFails, RestoreFails, RollBackFails, Cancel, LeaveQueue,
       KillAndUndo, StopBulk, Crash, ApiEnable, ApiDisable

\* At the start nothing is active and nothing is backed up.
LEMMA CalmInit ==
    ASSUME Calm, Init
    PROVE  CalmInv
<1>1. \A p \in Profiles : Active(p) = {}
  BY DEF Init, Active
<1>2. OnFolder = {} /\ FilesOf({}) = {}
  BY <1>1 DEF OnFolder, FilesOf
<1>3. \A o \in Ops : op[o].kind = "none" /\ op[o].phase = "idle" /\ ~op[o].stop
  BY DEF Init, NoCall
<1>4. /\ worker.by = NoOp /\ worker.task = "none" /\ ~worker.undo
      /\ \A f \in Files : worker.stage[f] = "todo"
  BY DEF Init, NoWork
<1>5. OnDisk = {}
  BY <1>2, <1>3 DEF OnDisk, Taken, Put
<1>6. Unstopped /\ OneLibraryPerMod /\ TwinsAgree
  BY <1>1, <1>3, <1>4 DEF Unstopped, OneLibraryPerMod, TwinsAgree, Twins, Init
<1>7. CallsKnow
  BY <1>3 DEF CallsKnow, EnableKnows, DisableKnows, BulkKnows
<1>8. WorkerKnows
  BY <1>4 DEF WorkerKnows
<1>9. \A f \in Files : game[f] = Pristine(f) /\ \A p \in Profiles : backup[p][f] = Nothing
  BY DEF Init, NoFile, Pristine
<1>10. FilesAreRight
  <2>1. FilesOf(OnDisk) = {}
    BY <1>2, <1>5
  <2> QED BY <1>4, <1>9, <2>1 DEF FilesAreRight, Settled, Unbacked
<1>11. \A f \in Files : BackupRight(f)
  BY <1>9 DEF BackupRight
<1> QED BY <1>6, <1>7, <1>8, <1>10, <1>11 DEF CalmInv

\* CalmInv is about the state.
LEMMA CalmStutter ==
    ASSUME CalmInv, UNCHANGED vars
    PROVE  CalmInv'
<1>1. /\ game' = game /\ backup' = backup /\ at' = at /\ cur' = cur /\ op' = op
      /\ worker' = worker
  BY DEF vars
<1>2. OnFolder' = OnFolder /\ \A p \in Profiles : Active(p)' = Active(p)
  BY <1>1 DEF OnFolder, Active
<1>3. Unstopped' /\ OneLibraryPerMod' /\ TwinsAgree'
  BY <1>1, <1>2 DEF CalmInv, Unstopped, OneLibraryPerMod, TwinsAgree
<1>4. CallsKnow'
  BY <1>1, <1>2 DEF CalmInv, CallsKnow, EnableKnows, DisableKnows, BulkKnows, Planned, Leaving,
                    FilesOf, Active
<1>5. WorkerKnows'
  BY <1>1 DEF CalmInv, WorkerKnows
<1>6. OnDisk' = OnDisk
  BY <1>1, <1>2 DEF OnDisk, Taken, Put, Leaving
<1>7. FilesAreRight'
  BY <1>1, <1>2, <1>6 DEF CalmInv, FilesAreRight, Settled, Pristine, Backed, BackedBy, OnlyIn,
                          Unbacked, Deployed, CanMend, Removed, Leaving, FilesOf
<1>8. \A f \in Files : BackupRight(f)'
  BY <1>1 DEF CalmInv, BackupRight
<1> QED BY <1>3, <1>4, <1>5, <1>7, <1>8 DEF CalmInv

\* CalmInv is inductive.
LEMMA CalmStep ==
    ASSUME Calm, TypeInv, CalmInv, [Next]_vars
    PROVE  CalmInv'
<1>1. CASE \E o \in Ops : Call(o)
  BY <1>1, EnablePlansCalm, DisablePlansCalm, BulkBeginCalm DEF Call
<1>2. ASSUME NEW o \in Ops, Step(o)
      PROVE  CalmInv'
  <2>1. CASE EnableSurvey(o) \/ EnableLeave(o) \/ \E m \in Mods : EnableNext(o, m)
    BY <2>1, EnablePlansCalm
  <2>2. CASE EnableStart(o) \/ DisableStart(o) \/ BulkStart(o)
    BY <2>2, StartsCalm
  <2>3. CASE EnableRecord(o)
    BY <2>3, EnableRecordCalm
  <2>4. CASE DisableRecord(o) \/ BulkRecord(o)
    BY <2>4, RemovalRecordsCalm
  <2>5. CASE \E p \in Profiles : BulkNext(o, p)
    BY <2>5, BulkNextCalm
  <2>6. CASE Save(o)
    BY <2>6, SavesCalm
  <2>7. CASE WorkerDone(o)
    BY <2>7, WorkerDoneCalm
  <2>8. CASE WorkerErr(o)
    BY <2>8, WorkerErrCalm
  <2>9. CASE LeaveQueue(o) \/ KillAndUndo(o) \/ StopBulk(o)
    BY <2>9, NotInCalm
  <2> QED BY <1>2, <2>1, <2>2, <2>3, <2>4, <2>5, <2>6, <2>7, <2>8, <2>9 DEF Step
<1>3. CASE WorkerStep
  <2>1. CASE RollbackStarts
    BY <2>1, RollbackStartsCalm
  <2>2. ASSUME NEW f \in Files, ApplyFile(f) \/ BackupWritten(f) \/ RollBack(f)
        PROVE  CalmInv'
    BY <2>2, ApplyFileCalm, BackupWrittenCalm, RollBackCalm
  <2>3. ASSUME NEW f \in Files, CopyStarts(f) \/ CopyEnds(f)
        PROVE  CalmInv'
    BY <2>3, CopiesCalm
  <2>4. ASSUME NEW f \in Files, DeleteFile(f) \/ RestoreStarts(f) \/ RestoreEnds(f)
        PROVE  CalmInv'
    BY <2>4, DeleteFileCalm, RestoreStartsCalm, RestoreEndsCalm
  <2> QED BY <1>3, <2>1, <2>2, <2>3, <2>4 DEF WorkerStep
<1>4. CASE Mishap
  BY <1>4, NotInCalm, CopiesCalm DEF Mishap
<1>5. CASE \E p \in Profiles : SwitchProfile(p)
  BY <1>5, SavesCalm
<1>6. CASE \E m \in Mods : ApiEnable(m) \/ ApiDisable(m)
  BY <1>6, NotInCalm
<1>7. CASE UNCHANGED vars
  BY <1>7, CalmStutter
<1> QED BY <1>1, <1>2, <1>3, <1>4, <1>5, <1>6, <1>7 DEF Next

\* What CalmInv says of the disk between calls and during one.
LEMMA CalmSays ==
    ASSUME Calm, TypeInv, CalmInv
    PROVE  /\ OriginalsKept /\ BackupsHoldOriginals /\ CleanWhenUnused
           /\ OneLibraryPerMod /\ TwinsAgree
<1>1. \A f \in Originals : game[f] = Orig \/ \E p \in Profiles : backup[p][f] = Orig
  <2> TAKE f \in Originals
  <2>1. f \in Files
    BY Library_Assumption
  <2>2. ASSUME NEW S, Settled(S, f)
        PROVE  game[f] = Orig \/ \E p \in Profiles : backup[p][f] = Orig
    BY <2>2 DEF Settled, Pristine, Backed, BackedBy
  <2>3. CASE worker.task = "none"
    BY <2>1, <2>2, <2>3 DEF CalmInv, FilesAreRight
  <2>4. CASE worker.task \in {"apply", "rollback"}
    <3>1. Deployed(f) /\ worker.prof \in Profiles
      BY <2>1, <2>4, DeployKnows
    <3>2. CASE worker.stage[f] = "todo"
      BY <2>2, <3>1, <3>2 DEF Deployed
    <3>3. CASE worker.stage[f] = "backup"
      BY <3>1, <3>3 DEF Deployed
    <3>4. CASE worker.stage[f] \in {"ready", "copy", "done", "failed"}
      BY <3>1, <3>4 DEF Deployed, CanMend, Backed, BackedBy
    <3> QED BY <2>1, <3>2, <3>3, <3>4 DEF TypeInv, TypeOK, WorkRecords, Stages
  <2>5. CASE worker.task = "unapply"
    BY <2>1, <2>2, <2>5 DEF CalmInv, FilesAreRight, Removed
  <2> QED BY <2>3, <2>4, <2>5 DEF TypeInv, TypeOK, WorkRecords
<1>2. BackupsHoldOriginals
  <2> SUFFICES ASSUME NEW p \in Profiles, NEW f \in Files,
                      worker.task = "apply", worker.prof = p, worker.stage[f] = "backup"
               PROVE  f \in Originals
    BY DEF CalmInv, BackupRight, BackupsHoldOriginals
  <2> QED BY DeployKnows DEF Deployed
<1>3. CleanWhenUnused
  <2> SUFFICES ASSUME Restful, NEW f \in Files, f \notin FilesOf(OnFolder)
               PROVE  game[f] = Pristine(f) /\ Unbacked(f)
    BY DEF CleanWhenUnused, Pristine, Unbacked
  <2>1. PICK o \in Ops : op[o].phase = "idle"
    BY Library_Assumption DEF Restful
  <2>2. OnDisk = OnFolder
    BY <2>1, OneCall DEF Taken, Put
  <2> QED BY <2>1, <2>2, NoWorkerNow DEF Settled
<1> QED BY <1>1, <1>2, <1>3 DEF CalmInv, OriginalsKept

\* Calm use is inductive, for every library and every number of profiles.
LEMMA CalmInvariant ==
    ASSUME Calm
    PROVE  Spec => [](TypeInv /\ CalmInv)
<1>1. Init => CalmInv
  BY CalmInit
<1>2. TypeInv /\ CalmInv /\ [Next]_vars => CalmInv'
  BY CalmStep
<1> QED BY <1>1, <1>2, TypeInvariant, PTL DEF Spec

\* In calm use a file of the game is never lost, not even for a moment: its original
\* is in the game folder or whole in a backup folder, through every deploy, every
\* rollback of a deploy that failed and every removal.
THEOREM OriginalsAreKept ==
    ASSUME Calm
    PROVE  Spec => []OriginalsKept
<1>1. TypeInv /\ CalmInv => OriginalsKept
  BY CalmSays
<1> QED BY <1>1, CalmInvariant, PTL

\* In calm use a backup folder never takes in a mod's file for one of the game.
THEOREM BackupsAreOriginals ==
    ASSUME Calm
    PROVE  Spec => []BackupsHoldOriginals
<1>1. TypeInv /\ CalmInv => BackupsHoldOriginals
  BY CalmSays
<1> QED BY <1>1, CalmInvariant, PTL

\* In calm use, whatever has been enabled and disabled in whatever order and however
\* often a deploy failed: a file that no active mod ships is as the game shipped it,
\* and no backup of it is left over.
THEOREM DisablingUndoes ==
    ASSUME Calm
    PROVE  Spec => []CleanWhenUnused
<1>1. TypeInv /\ CalmInv => CleanWhenUnused
  BY CalmSays
<1> QED BY <1>1, CalmInvariant, PTL

\* In calm use the profiles that share a mods folder have one list.
THEOREM TwinsShareOneList ==
    ASSUME Calm
    PROVE  Spec => []TwinsAgree
<1>1. TypeInv /\ CalmInv => TwinsAgree
  BY CalmSays
<1> QED BY <1>1, CalmInvariant, PTL

\* In calm use profiles of two mods folders have no active mod in common.
THEOREM ModsHaveOneLibrary ==
    ASSUME Calm
    PROVE  Spec => []OneLibraryPerMod
<1>1. TypeInv /\ CalmInv => OneLibraryPerMod
  BY CalmSays
<1> QED BY <1>1, CalmInvariant, PTL

----------------------------------------------------------------------------
(* Whose copy each file is: the last provider in the lists *)

\* The last of some mods depends on nothing but their order.
LEMMA SameLast ==
    ASSUME NEW l, NEW k, NEW S, \A m, n \in S : l[n] <= l[m] <=> k[n] <= k[m]
    PROVE  LastOf(l, S) = LastOf(k, S)
BY DEF LastOf

\* retain keeps the order of the mods that stay.
LEMMA RetainedOrder ==
    ASSUME NEW list \in [Mods -> Ranks], NEW gone, NEW m \in Mods \ gone, NEW n \in Mods \ gone,
           list[m] > 0, list[n] > 0
    PROVE  Retained(list, gone)[n] <= Retained(list, gone)[m] <=> list[n] <= list[m]
<1> DEFINE Before(x) == {y \in Mods \ gone : 0 < list[y] /\ list[y] < list[x]}
<1>1. \A x \in Mods : list[x] \in Nat
  BY ModsCount DEF Ranks
<1>2. /\ Retained(list, gone)[n] = 1 + Cardinality(Before(n))
      /\ Retained(list, gone)[m] = 1 + Cardinality(Before(m))
  BY <1>1 DEF Retained
<1>3. IsFiniteSet(Before(m)) /\ IsFiniteSet(Before(n))
  BY FS_Subset, Library_Assumption
<1>4. Cardinality(Before(m)) \in Nat /\ Cardinality(Before(n)) \in Nat
  BY <1>3, FS_CardinalityType
<1>5. CASE list[n] <= list[m]
  <2>1. Before(n) \subseteq Before(m)
    BY <1>1, <1>5
  <2>2. Cardinality(Before(n)) <= Cardinality(Before(m))
    BY <1>3, <2>1, FS_Subset
  <2> QED BY <1>2, <1>4, <1>5, <2>2
<1>6. CASE ~(list[n] <= list[m])
  <2>1. Before(m) \subseteq Before(n) /\ m \in Before(n) /\ m \notin Before(m)
    BY <1>1, <1>6
  <2>2. /\ Cardinality(Before(m)) <= Cardinality(Before(n))
        /\ Cardinality(Before(m)) # Cardinality(Before(n))
    BY <1>3, <2>1, FS_Subset
  <2> QED BY <1>2, <1>4, <1>6, <2>2
<1> QED BY <1>5, <1>6

\* retain keeps the last of mods that stay.
LEMMA RetainedLast ==
    ASSUME NEW list \in [Mods -> Ranks], NEW gone, NEW S \in SUBSET Mods,
           \A m \in S : Retained(list, gone)[m] > 0
    PROVE  LastOf(Retained(list, gone), S) = LastOf(list, S)
<1>1. \A m \in S : list[m] > 0 /\ m \in Mods \ gone
  BY RetainedActive
<1>2. \A m, n \in S : Retained(list, gone)[n] <= Retained(list, gone)[m] <=> list[n] <= list[m]
  BY <1>1, RetainedOrder
<1> QED BY <1>2, SameLast

\* push of another mod keeps the last of mods.
LEMMA PushedElsewhere ==
    ASSUME NEW list \in [Mods -> Ranks], NEW m \in Mods, NEW S \in SUBSET Mods, m \notin S
    PROVE  LastOf(Pushed(list, m), S) = LastOf(list, S)
<1>1. \A n \in S : Pushed(list, m)[n] = list[n]
  BY DEF Pushed
<1> QED BY <1>1, SameLast

\* push makes its mod the last of any mods.
LEMMA PushedLast ==
    ASSUME NEW list \in [Mods -> Ranks], Compact(list), NEW S \in SUBSET Mods, NEW m \in S,
           list[m] = 0
    PROVE  LastOf(Pushed(list, m), S) = m
<1> DEFINE len == Cardinality({n \in Mods : list[n] > 0})
<1>1. len \in Nat /\ \A n \in Mods : list[n] \in Nat /\ list[n] <= len
  BY FS_Subset, FS_CardinalityType, Library_Assumption, ModsCount DEF Compact, Ranks
<1>2. Pushed(list, m) = [list EXCEPT ![m] = len + 1]
  BY DEF Pushed
<1> HIDE DEF len
<1>3. Pushed(list, m) \in [Mods -> 0 .. Cardinality(Mods)]
  BY PushedType DEF Ranks
<1> DEFINE last == LastOf(Pushed(list, m), S)
<1>4. last \in S /\ Pushed(list, m)[m] <= Pushed(list, m)[last]
  BY <1>3, ModsCount, LastOfExists
<1> HIDE DEF last
<1>5. last = m
  BY <1>1, <1>2, <1>4
<1> QED BY <1>5 DEF last

\* push leaves no gap.
LEMMA PushedCompact ==
    ASSUME NEW list \in [Mods -> Ranks], Compact(list), NEW m \in Mods
    PROVE  Compact(Pushed(list, m))
<1> DEFINE S == {n \in Mods : list[n] > 0}
           T == {n \in Mods : Pushed(list, m)[n] > 0}
<1>1. CASE list[m] > 0
  BY <1>1 DEF Pushed
<1>2. CASE ~(list[m] > 0)
  <2>1. T = S \cup {m} /\ m \notin S
    BY <1>2, PushedActive
  <2>2. IsFiniteSet(S)
    BY FS_Subset, Library_Assumption
  <2>3. Pushed(list, m) = [list EXCEPT ![m] = Cardinality(S) + 1]
    BY <1>2 DEF Pushed
  <2>4. \A n \in Mods : list[n] \in Nat /\ list[n] <= Cardinality(S)
    BY ModsCount DEF Ranks, Compact
  <2> HIDE DEF S, T
  <2>5. Cardinality(S) \in Nat /\ Cardinality(T) = Cardinality(S) + 1
    BY <2>1, <2>2, FS_CardinalityType, FS_AddElement
  <2>6. \A n \in Mods : Pushed(list, m)[n] <= Cardinality(T)
    BY <2>3, <2>4, <2>5
  <2> QED BY <2>6 DEF Compact, T
<1> QED BY <1>1, <1>2

\* retain closes the gaps it makes.
LEMMA RetainedCompact ==
    ASSUME NEW list \in [Mods -> Ranks], NEW gone
    PROVE  Compact(Retained(list, gone))
<1> DEFINE T == {n \in Mods : Retained(list, gone)[n] > 0}
<1>1. IsFiniteSet(T) /\ Cardinality(T) \in Nat
  BY FS_Subset, FS_CardinalityType, Library_Assumption
<1>2. ASSUME NEW n \in Mods
      PROVE  Retained(list, gone)[n] <= Cardinality(T)
  <2> DEFINE S == {x \in Mods \ gone : 0 < list[x] /\ list[x] < list[n]}
  <2>1. CASE list[n] = 0 \/ n \in gone
    BY <1>1, <2>1 DEF Retained
  <2>2. CASE ~(list[n] = 0 \/ n \in gone)
    <3>1. list[n] \in Nat
      BY ModsCount DEF Ranks
    <3>2. S \subseteq T /\ n \in T /\ n \notin S
      BY <2>2, <3>1, RetainedActive
    <3>3. Retained(list, gone)[n] = 1 + Cardinality(S)
      BY <2>2 DEF Retained
    <3> HIDE DEF S, T
    <3>4. Cardinality(S) <= Cardinality(T) /\ Cardinality(S) # Cardinality(T)
      BY <1>1, <3>2, FS_Subset
    <3>5. Cardinality(S) \in Nat
      BY <1>1, <3>2, FS_Subset, FS_CardinalityType
    <3> QED BY <1>1, <3>3, <3>4, <3>5
  <2> QED BY <2>1, <2>2
<1> QED BY <1>2 DEF Compact

----------------------------------------------------------------------------
(* Whose copy comes back *)

\* Mods that one profile has all are read from the lists in that profile's order.
LEMMA LastInOne ==
    ASSUME TypeOK, OneLibraryPerMod, TwinsAgree, NEW Q \in SUBSET Profiles, NEW q \in Q,
           NEW S \in SUBSET Active(q), S # {}
    PROVE  LastInLists(Q, S) = LastOf(at[q], S)
<1> DEFINE Homes   == Q \cap Twins(q)
           home    == [m \in S |-> Least({r \in Q : m \in Active(r)})]
           V       == {home[m] : m \in S}
<1>1. \A r \in Twins(q) : r \in Profiles /\ at[r] = at[q]
  BY DEF TwinsAgree, Twins
<1>2. \A m \in S : {r \in Q : m \in Active(r)} = Homes
  BY <1>1 DEF OneLibraryPerMod, Active
<1>3. Homes \in SUBSET Nat /\ Homes # {} /\ Homes \subseteq 0 .. NProfiles /\ NProfiles \in Nat
  <2>1. NProfiles \in Nat /\ Profiles \subseteq 0 .. NProfiles /\ Profiles \subseteq Nat
    BY Library_Assumption DEF Profiles
  <2>2. q \in Homes /\ Homes \subseteq Profiles
    BY DEF Twins
  <2> QED BY <2>1, <2>2
<1> HIDE DEF Homes
<1>4. Least(Homes) \in Homes
  BY <1>3, LeastExists
<1>5. \A m \in S : home[m] = Least(Homes)
  BY <1>2
<1>6. V = {Least(Homes)}
  BY <1>5
<1>7. Greatest(V) = Least(Homes)
  <2>1. V \in SUBSET (0 .. NProfiles) /\ V # {}
    BY <1>3, <1>4, <1>6
  <2> HIDE DEF V
  <2>2. Greatest(V) \in V
    BY <1>3, <2>1, GreatestExists
  <2> QED BY <1>6, <2>2
<1>8. {m \in S : home[m] = Greatest(V)} = S
  BY <1>5, <1>7
<1>9. at[Greatest(V)] = at[q]
  BY <1>1, <1>4, <1>7 DEF Homes
<1> QED BY <1>8, <1>9 DEF LastInLists

\* disable_mod_in plans to put back the right copy.
LEMMA FallbackRight ==
    ASSUME TypeOK, OneLibraryPerMod, TwinsAgree, NEW p \in Profiles, NEW gone \in SUBSET Mods,
           NEW f \in Files, f \in FilesOf(OnFolder \ gone)
    PROVE  RightCopy(at, OnFolder \ gone, f, Fallback(p, gone, f))
<1> DEFINE own    == Providing(Active(p) \ gone, f)
           owners == Providing(OnFolder \ (Active(p) \cup gone), f)
           all    == Providing(OnFolder \ gone, f)
<1>1. all = own \cup owners
  BY ActiveSets DEF Providing, OnFolder
<1>2. all # {}
  BY FileOfMod DEF Providing
<1>3. Fallback(p, gone, f) \in all
  BY <1>2, FallbackProvides
<1>4. ASSUME NEW q \in Profiles, \A m \in all : at[q][m] > 0
      PROVE  Fallback(p, gone, f) = LastOf(at[q], all)
  <2>1. all \in SUBSET Active(q)
    BY <1>4, ActiveSets DEF Active, Providing
  <2>2. own \subseteq Active(p) /\ owners \cap Active(p) = {}
    BY DEF Providing
  <2>3. CASE own # {}
    <3>1. at[q] = at[p] /\ Active(q) = Active(p)
      BY <1>1, <2>1, <2>2, <2>3 DEF OneLibraryPerMod, TwinsAgree, Active
    <3>2. all = own
      BY <1>1, <2>1, <2>2, <3>1
    <3>3. Fallback(p, gone, f) = LastOf(at[p], own)
      BY <2>3 DEF Fallback
    <3> QED BY <3>1, <3>2, <3>3
  <2>4. CASE own = {}
    <3>1. all = owners /\ owners # {} /\ q \in Profiles \ {p}
      BY <1>1, <1>2, <2>1, <2>2, <2>4
    <3>2. Fallback(p, gone, f) = LastInLists(Profiles \ {p}, owners)
      BY <2>4, <3>1 DEF Fallback
    <3> HIDE DEF all, owners, own
    <3>3. LastInLists(Profiles \ {p}, owners) = LastOf(at[q], owners)
      BY <2>1, <3>1, LastInOne
    <3> QED BY <3>1, <3>2, <3>3
  <2> QED BY <2>3, <2>4
<1> QED BY <1>3, <1>4 DEF RightCopy

\* So does disable_mods_for_profiles.
LEMMA BatchFallbackRight ==
    ASSUME TypeOK, OneLibraryPerMod, TwinsAgree, NEW gone \in SUBSET Mods,
           NEW f \in Files, f \in FilesOf(OnFolder \ gone)
    PROVE  RightCopy(at, OnFolder \ gone, f, BatchFallback(gone, f))
<1> DEFINE all == Providing(OnFolder \ gone, f)
<1>1. all # {}
  BY FileOfMod DEF Providing
<1>2. BatchFallback(gone, f) \in all
  BY <1>1, BatchFallbackProvides
<1>3. ASSUME NEW q \in Profiles, \A m \in all : at[q][m] > 0
      PROVE  BatchFallback(gone, f) = LastOf(at[q], all)
  <2>1. all \in SUBSET Active(q)
    BY <1>3, ActiveSets DEF Active, Providing
  <2>2. BatchFallback(gone, f) = LastInLists(Profiles, all)
    BY <1>1 DEF BatchFallback
  <2> HIDE DEF all
  <2>3. LastInLists(Profiles, all) = LastOf(at[q], all)
    BY <1>1, <2>1, LastInOne
  <2> QED BY <2>2, <2>3
<1> QED BY <1>2, <1>3 DEF RightCopy

\* When no mod that leaves ships a file, the mods that stay have it as before.
LEMMA FollowsWithout ==
    ASSUME NEW S, NEW gone, NEW f, f \notin FilesOf(gone), Follows(S, f)
    PROVE  Follows(S \ gone, f)
<1>1. Providing(S \ gone, f) = Providing(S, f)
  BY FileOfMod DEF Providing
<1>2. f \in FilesOf(S \ gone) <=> f \in FilesOf(S)
  BY FilesWithout
<1> QED BY <1>1, <1>2 DEF Follows, RightCopy

\* The copy stays right while the lists lose mods that do not have the file.
LEMMA RightWhenListsLose ==
    ASSUME NEW l \in [Profiles -> [Mods -> Ranks]], NEW k, NEW gone,
           \A p \in Profiles : k[p] = l[p] \/ k[p] = Retained(l[p], gone),
           NEW S \in SUBSET Mods, NEW f, NEW x, RightCopy(l, S, f, x)
    PROVE  RightCopy(k, S, f, x)
<1> DEFINE all == Providing(S, f)
<1>1. all \in SUBSET Mods
  BY DEF Providing
<1> HIDE DEF all
<1>2. ASSUME NEW p \in Profiles, \A m \in all : k[p][m] > 0
      PROVE  LastOf(k[p], all) = LastOf(l[p], all) /\ \A m \in all : l[p][m] > 0
  <2>1. CASE k[p] = Retained(l[p], gone)
    <3>1. k[p] = Retained(l[p], gone) /\ l[p] \in [Mods -> Ranks]
      BY <2>1
    <3>2. \A m \in all : l[p][m] > 0
      BY <1>1, <1>2, <3>1, RetainedActive
    <3> QED BY <1>1, <1>2, <3>1, <3>2, RetainedLast
  <2>2. CASE k[p] = l[p]
    BY <1>2, <2>2
  <2> QED BY <2>1, <2>2
<1> QED BY <1>2 DEF RightCopy, all

\* A mod put at the end of lists is right for its own files, and the others' copies
\* stay right.
LEMMA RightWhenListsGain ==
    ASSUME NEW l \in [Profiles -> [Mods -> Ranks]], NEW k, NEW Q, NEW m \in Mods,
           \A p \in Profiles : k[p] = IF p \in Q THEN Pushed(l[p], m) ELSE l[p],
           \A p \in Profiles : Compact(l[p]) /\ l[p][m] = 0,
           NEW S \in SUBSET Mods, m \notin S, NEW f
    PROVE  /\ f \in Ships[m] => RightCopy(k, S \cup {m}, f, m)
           /\ \A x : f \notin Ships[m] /\ RightCopy(l, S, f, x) => RightCopy(k, S \cup {m}, f, x)
<1> DEFINE all == Providing(S \cup {m}, f)
<1>1. all \in SUBSET Mods
  BY DEF Providing
<1>2. CASE f \in Ships[m]
  <2>1. m \in all
    BY <1>2 DEF Providing
  <2> HIDE DEF all
  <2>2. ASSUME NEW p \in Profiles, \A n \in all : k[p][n] > 0
        PROVE  m = LastOf(k[p], all)
    <3>1. p \in Q
      BY <2>1, <2>2
    <3>2. k[p] = Pushed(l[p], m) /\ l[p] \in [Mods -> Ranks] /\ Compact(l[p]) /\ l[p][m] = 0
      BY <3>1
    <3> QED BY <1>1, <2>1, <3>2, PushedLast
  <2> QED BY <1>2, <2>1, <2>2 DEF RightCopy, all
<1>3. CASE f \notin Ships[m]
  <2>1. all = Providing(S, f) /\ m \notin all
    BY <1>3 DEF Providing
  <2> HIDE DEF all
  <2>2. ASSUME NEW p \in Profiles, \A n \in all : k[p][n] > 0
        PROVE  LastOf(k[p], all) = LastOf(l[p], all) /\ \A n \in all : l[p][n] > 0
    <3>1. CASE p \in Q
      <4>1. k[p] = Pushed(l[p], m) /\ l[p] \in [Mods -> Ranks]
        BY <3>1
      <4>2. \A n \in all : l[p][n] > 0
        BY <1>1, <2>1, <2>2, <4>1, PushedActive
      <4> QED BY <1>1, <2>1, <4>1, <4>2, PushedElsewhere
    <3>2. CASE p \notin Q
      BY <2>2, <3>2
    <3> QED BY <3>1, <3>2
  <2>3. ASSUME NEW x, RightCopy(l, S, f, x)
        PROVE  RightCopy(k, S \cup {m}, f, x)
    BY <2>1, <2>2, <2>3 DEF RightCopy, all
  <2> QED BY <1>3, <2>3
<1> QED BY <1>2, <1>3

----------------------------------------------------------------------------
(* Whose copy each file is: the worker's steps *)

\* What no step but a record changes: the lists, and what is said of them.
LEMMA SameLists ==
    ASSUME DiskInv, at' = at
    PROVE  /\ OnFolder' = OnFolder /\ ListsCompact'
           /\ \A p \in Profiles : Active(p)' = Active(p)
           /\ \A f \in Files : game'[f] = game[f] => \A S : Follows(S, f)' <=> Follows(S, f)
BY DEF DiskInv, ListsCompact, OnFolder, Active, Follows, RightCopy

\* A step of the worker on one file leaves the others right.
LEMMA FileStepFollows ==
    ASSUME TypeInv, CalmInv, DiskInv, NEW f \in Files, worker.task # "none",
           UNCHANGED <<lists, op>>, worker'.task = worker.task,
           worker'.by = worker.by, worker'.mod = worker.mod,
           \A g \in Files : g # f => /\ game'[g] = game[g]
                                    /\ worker'.stage[g] = worker.stage[g]
                                    /\ worker'.mend[g] = worker.mend[g]
                                    /\ worker'.stash[g] = worker.stash[g],
           worker.task \in {"apply", "rollback"} => DeployFollows(f)',
           worker.task = "unapply" => RemovalFollows(f)'
    PROVE  DiskInv'
<1>1. /\ at' = at /\ op' = op /\ OnFolder' = OnFolder /\ ListsCompact'
      /\ \A p \in Profiles : Active(p)' = Active(p)
      /\ \A g \in Files : game'[g] = game[g] => \A S : Follows(S, g)' <=> Follows(S, g)
  BY SameLists DEF lists
<1>2. ASSUME NEW o \in Ops
      PROVE  EnableFresh(op[o])' /\ PlanRight(op[o])'
  <2>1. EnableFresh(op[o]) /\ PlanRight(op[o])
    BY DEF DiskInv
  <2>2. EnableFresh(op[o])'
    BY <1>1, <2>1 DEF EnableFresh, Active
  <2>3. PlanRight(op[o])'
    BY <1>1, <2>1 DEF PlanRight, Leaving, FilesOf, RightCopy
  <2> QED BY <2>2, <2>3
<1>3. worker.task \in {"apply", "rollback"} => \A g \in Files : DeployFollows(g)'
  <2> SUFFICES ASSUME worker.task \in {"apply", "rollback"}, NEW g \in Files, g # f
               PROVE  DeployFollows(g)'
    OBVIOUS
  <2>1. DeployFollows(g)
    BY DEF DiskInv, FilesFollow
  <2> QED BY <1>1, <2>1 DEF DeployFollows, FilesOf, RightCopy, Follows
<1>4. worker.task = "unapply" => \A g \in Files : RemovalFollows(g)'
  <2> SUFFICES ASSUME worker.task = "unapply", NEW g \in Files, g # f
               PROVE  RemovalFollows(g)'
    OBVIOUS
  <2>1. RemovalFollows(g)
    BY DEF DiskInv, FilesFollow
  <2>2. Leaving(op[worker.by])' = Leaving(op[worker.by])
    BY <1>1 DEF Leaving
  <2> DEFINE stay == OnFolder \ Leaving(op[worker.by])
  <2>3. stay' = stay
    BY <1>1, <2>2
  <2>4. Follows(OnFolder, g)' <=> Follows(OnFolder, g)
    BY <1>1 DEF Follows, RightCopy, FilesOf
  <2>5. Follows(stay, g)' <=> Follows(stay, g)
    BY <1>1, <2>3 DEF Follows, RightCopy, FilesOf
  <2> QED BY <2>1, <2>4, <2>5 DEF RemovalFollows
<1>5. FilesFollow'
  BY <1>3, <1>4 DEF FilesFollow
<1> QED BY <1>1, <1>2, <1>5 DEF DiskInv

\* ApplyFile keeps DiskInv: what it stashes, of a file active mods ship, is the copy
\* that is right for them.
LEMMA ApplyFileFollows ==
    ASSUME TypeInv, CalmInv, DiskInv, NEW f \in Files, ApplyFile(f)
    PROVE  DiskInv'
<1>1. /\ worker.task = "apply" /\ worker.stage[f] = "todo" /\ worker \in WorkRecords
      /\ UNCHANGED <<lists, op>> /\ game' = game /\ at' = at
  BY DEF ApplyFile, TypeInv, TypeOK, lists
<1>2. worker.others = FilesOf(OnFolder) /\ Follows(OnFolder, f)
  BY <1>1, DeployKnows DEF DiskInv, FilesFollow, DeployFollows
<1>3. FilesOf(OnFolder)' = FilesOf(OnFolder)
  BY <1>1 DEF FilesOf, OnFolder, Active
<1>4. CASE NeedsBackup(f)
  <2>1. worker' = [worker EXCEPT !.stage[f] = "backup"]
    BY <1>4 DEF ApplyFile, Set
  <2>2. DeployFollows(f)'
    BY <1>1, <2>1 DEF DeployFollows, WorkRecords
  <2> QED BY <1>1, <2>1, <2>2, FileStepFollows DEF WorkRecords
<1>5. CASE ~NeedsBackup(f)
  <2> DEFINE mend == MendFor(f)
  <2>1. worker' = [worker EXCEPT !.stage[f] = "ready", !.mend[f] = mend, !.stash[f] = game[f]]
    BY <1>5 DEF ApplyFile
  <2>2. ASSUME f \in FilesOf(OnFolder)
        PROVE  mend = "stash" /\ RightCopy(at, OnFolder, f, game[f])
    <3>1. RightCopy(at, OnFolder, f, game[f])
      BY <1>2, <2>2 DEF Follows
    <3>2. game[f] # Nothing
      BY <3>1, ActiveSets, Library_Assumption DEF RightCopy, Providing, TypeInv
    <3> QED BY <1>2, <2>2, <3>1, <3>2 DEF MendFor
  <2> HIDE DEF mend
  <2>3. /\ worker'.stage = [worker.stage EXCEPT ![f] = "ready"]
        /\ worker'.mend = [worker.mend EXCEPT ![f] = mend]
        /\ worker'.stash = [worker.stash EXCEPT ![f] = game[f]]
        /\ worker'.task = worker.task /\ worker'.by = worker.by /\ worker'.mod = worker.mod
    BY <1>1, <2>1 DEF WorkRecords
  <2>4. worker'.stage[f] = "ready" /\ worker'.mend[f] = mend /\ worker'.stash[f] = game[f]
    BY <1>1, <2>3 DEF WorkRecords
  <2>5. f \in FilesOf(OnFolder) => RightCopy(at, OnFolder, f, worker.stash[f])'
    BY <1>1, <2>2, <2>4 DEF RightCopy, OnFolder, Active
  <2>6. DeployFollows(f)'
    BY <1>3, <2>2, <2>4, <2>5 DEF DeployFollows
  <2> QED BY <1>1, <2>3, <2>6, FileStepFollows DEF WorkRecords
<1> QED BY <1>4, <1>5

\* A step of a deploy on a file that is stashed or backed up, which keeps its stash.
LEMMA DeployStepFollows ==
    ASSUME TypeInv, CalmInv, DiskInv, NEW f \in Files,
           NEW s \in {"ready", "copy", "done", "failed"},
           worker.task = "apply", worker.stage[f] \in {"backup", "ready", "copy"},
           UNCHANGED <<lists, op>>,
           worker'.task = worker.task, worker'.by = worker.by, worker'.mod = worker.mod,
           worker'.stage = [worker.stage EXCEPT ![f] = s],
           \A g \in Files : g # f => game'[g] = game[g] /\ worker'.mend[g] = worker.mend[g],
           worker.stage[f] # "backup" => worker'.mend[f] = worker.mend[f],
           worker'.stash = worker.stash,
           s = "done" => game'[f] = worker.mod
    PROVE  DiskInv'
<1>1. worker'.stage[f] = s /\ \A g \in Files : g # f => worker'.stage[g] = worker.stage[g]
  BY DEF TypeInv, TypeOK, WorkRecords
<1>2. DeployFollows(f) /\ Deployed(f) /\ worker.others = FilesOf(OnFolder)
  BY DeployKnows DEF DiskInv, FilesFollow
<1>3. at' = at /\ OnFolder' = OnFolder /\ FilesOf(OnFolder)' = FilesOf(OnFolder)
  BY DEF lists, OnFolder, Active, FilesOf
<1>4. DeployFollows(f)'
  <2>1. CASE worker.stage[f] = "backup"
    <3>1. f \notin FilesOf(OnFolder)'
      BY <1>2, <1>3, <2>1 DEF Deployed
    <3> QED BY <1>1, <3>1 DEF DeployFollows
  <2>2. CASE worker.stage[f] # "backup"
    <3>1. f \in FilesOf(OnFolder) =>
             worker'.mend[f] = "stash" /\ RightCopy(at, OnFolder, f, worker.stash[f])
      BY <1>2, <2>2 DEF DeployFollows
    <3>2. f \in FilesOf(OnFolder)' => RightCopy(at, OnFolder, f, worker.stash[f])'
      BY <1>3, <3>1 DEF RightCopy
    <3> QED BY <1>1, <1>3, <3>1, <3>2 DEF DeployFollows
  <2> QED BY <2>1, <2>2
<1> QED BY <1>1, <1>4, FileStepFollows

\* BackupWritten, CopyStarts, CopyEnds and CopyFails keep DiskInv: the copy that ends
\* well is the mod's.
LEMMA DeployStepsFollow ==
    ASSUME TypeInv, CalmInv, DiskInv, NEW f \in Files,
           BackupWritten(f) \/ CopyStarts(f) \/ CopyEnds(f) \/ CopyFails(f)
    PROVE  DiskInv'
<1>0. worker \in WorkRecords /\ game \in [Files -> Contents]
  BY DEF TypeInv, TypeOK
<1>1. CASE BackupWritten(f)
  <2>1. /\ worker.task = "apply" /\ worker.stage[f] = "backup" /\ UNCHANGED <<lists, op>>
        /\ game' = game /\ worker' = [worker EXCEPT !.stage[f] = "ready", !.mend[f] = "unbackup"]
    BY <1>1 DEF BackupWritten
  <2>2. /\ worker'.stage = [worker.stage EXCEPT ![f] = "ready"]
        /\ worker'.mend = [worker.mend EXCEPT ![f] = "unbackup"]
        /\ worker'.stash = worker.stash
        /\ worker'.task = worker.task /\ worker'.by = worker.by /\ worker'.mod = worker.mod
    BY <1>0, <2>1 DEF WorkRecords
  <2> QED BY <1>0, <2>1, <2>2, DeployStepFollows DEF WorkRecords
<1>2. ASSUME NEW s \in {"copy", "done", "failed"}, worker' = Set(f, s)
      PROVE  /\ worker'.stage = [worker.stage EXCEPT ![f] = s]
             /\ worker'.mend = worker.mend /\ worker'.stash = worker.stash
             /\ worker'.task = worker.task /\ worker'.by = worker.by /\ worker'.mod = worker.mod
  BY <1>0, <1>2 DEF Set, WorkRecords
<1>3. CASE CopyStarts(f)
  <2>1. /\ worker.task = "apply" /\ worker.stage[f] = "ready" /\ UNCHANGED <<lists, op>>
        /\ \A g \in Files : g # f => game'[g] = game[g]
        /\ worker' = Set(f, "copy")
    BY <1>0, <1>3 DEF CopyStarts
  <2> QED BY <1>2, <2>1, DeployStepFollows
<1>4. CASE CopyEnds(f)
  <2>1. /\ worker.task = "apply" /\ worker.stage[f] = "copy" /\ UNCHANGED <<lists, op>>
        /\ \A g \in Files : g # f => game'[g] = game[g]
        /\ game'[f] = worker.mod /\ worker' = Set(f, "done")
    BY <1>0, <1>4 DEF CopyEnds
  <2> QED BY <1>2, <2>1, DeployStepFollows
<1>5. CASE CopyFails(f)
  <2>1. /\ worker.task = "apply" /\ worker.stage[f] \in {"ready", "copy"}
        /\ UNCHANGED <<lists, op>> /\ game' = game /\ worker' = Set(f, "failed")
    BY <1>5 DEF CopyFails, disk
  <2> QED BY <1>2, <2>1, DeployStepFollows
<1> QED BY <1>1, <1>3, <1>4, <1>5

\* RollbackStarts keeps DiskInv: it changes nothing but what comes next.
LEMMA RollbackStartsFollows ==
    ASSUME TypeInv, CalmInv, DiskInv, RollbackStarts
    PROVE  DiskInv'
<1>1. /\ worker.task = "apply" /\ worker' = [worker EXCEPT !.task = "rollback"]
      /\ UNCHANGED <<disk, lists, op>> /\ at' = at /\ game' = game /\ op' = op
      /\ worker \in WorkRecords
  BY DEF RollbackStarts, TypeInv, TypeOK, lists, disk
<1>2. /\ worker'.stage = worker.stage /\ worker'.mend = worker.mend
      /\ worker'.stash = worker.stash /\ worker'.task = "rollback"
  BY <1>1 DEF WorkRecords
<1>3. OnFolder' = OnFolder /\ ListsCompact' /\ FilesOf(OnFolder)' = FilesOf(OnFolder)
  BY <1>1, SameLists DEF FilesOf
<1>4. \A o \in Ops : EnableFresh(op[o])' /\ PlanRight(op[o])'
  BY <1>1, <1>3 DEF DiskInv, EnableFresh, PlanRight, Active, Leaving, FilesOf, RightCopy
<1>5. \A f \in Files : DeployFollows(f)'
  <2> TAKE f \in Files
  <2>1. DeployFollows(f)
    BY <1>1 DEF DiskInv, FilesFollow
  <2> QED BY <1>1, <1>2, <1>3, <2>1 DEF DeployFollows, Follows, RightCopy
<1> QED BY <1>2, <1>3, <1>4, <1>5 DEF DiskInv, FilesFollow

\* RollBack keeps DiskInv: it puts back the copy that was stashed.
LEMMA RollBackFollows ==
    ASSUME TypeInv, CalmInv, DiskInv, NEW f \in Files, RollBack(f)
    PROVE  DiskInv'
<1>1. /\ worker.task = "rollback" /\ worker.stage[f] \in {"done", "failed"}
      /\ UNCHANGED <<lists, op>> /\ worker \in WorkRecords
      /\ worker' = [worker EXCEPT !.stage[f] = "todo"]
  BY DEF RollBack, Set, TypeInv, TypeOK
<1>2. /\ \A g \in Files : g # f => game'[g] = game[g]
      /\ worker.mend[f] = "stash" => game'[f] = worker.stash[f]
  BY DEF RollBack, TypeInv, TypeOK
<1>3. /\ worker'.stage = [worker.stage EXCEPT ![f] = "todo"] /\ worker'.mend = worker.mend
      /\ worker'.stash = worker.stash
      /\ worker'.task = worker.task /\ worker'.by = worker.by /\ worker'.mod = worker.mod
  BY <1>1 DEF WorkRecords
<1>4. at' = at /\ OnFolder' = OnFolder /\ FilesOf(OnFolder)' = FilesOf(OnFolder)
  BY <1>1 DEF lists, OnFolder, Active, FilesOf
<1>5. DeployFollows(f)
  BY <1>1 DEF DiskInv, FilesFollow
<1>6. Follows(OnFolder, f)'
  BY <1>1, <1>2, <1>4, <1>5 DEF DeployFollows, Follows, RightCopy
<1>7. DeployFollows(f)'
  BY <1>1, <1>3, <1>6 DEF DeployFollows, WorkRecords
<1> QED BY <1>1, <1>2, <1>3, <1>7, FileStepFollows DEF WorkRecords

\* A step of a removal on one file.
LEMMA RemovalStepFollows ==
    ASSUME TypeInv, CalmInv, DiskInv, NEW f \in Files, NEW s \in {"copy", "done"},
           worker.task = "unapply", worker' = [worker EXCEPT !.stage[f] = s],
           UNCHANGED <<lists, op>>, \A g \in Files : g # f => game'[g] = game[g],
           s = "done" => Follows(OnFolder \ Leaving(op[worker.by]), f)'
    PROVE  DiskInv'
<1>1. worker \in WorkRecords
  BY DEF TypeInv, TypeOK
<1>2. /\ worker'.stage = [worker.stage EXCEPT ![f] = s] /\ worker'.mend = worker.mend
      /\ worker'.stash = worker.stash
      /\ worker'.task = worker.task /\ worker'.by = worker.by /\ worker'.mod = worker.mod
  BY <1>1 DEF WorkRecords
<1>3. worker'.stage[f] = s
  BY <1>1, <1>2 DEF WorkRecords
<1>4. RemovalFollows(f)'
  BY <1>3 DEF RemovalFollows
<1> QED BY <1>1, <1>2, <1>4, FileStepFollows DEF WorkRecords

\* DeleteFile, RestoreStarts and RestoreEnds keep DiskInv: what the removal puts back
\* was the right copy when it was planned, and the lists are still those.
LEMMA RemovalStepsFollow ==
    ASSUME Calm, TypeInv, CalmInv, DiskInv, NEW f \in Files,
           DeleteFile(f) \/ RestoreStarts(f) \/ RestoreEnds(f)
    PROVE  DiskInv'
<1> DEFINE stay == OnFolder \ Leaving(op[worker.by])
<1>1. /\ worker.task = "unapply" /\ UNCHANGED <<lists, op>> /\ f \in worker.files
  BY DEF DeleteFile, RestoreStarts, RestoreEnds, CalmInv, WorkerKnows
<1>2. worker.under[f] = Nothing <=> f \notin FilesOf(stay)
  BY <1>1, RemovalKnows
<1>3. at' = at /\ stay' = stay /\ FilesOf(stay)' = FilesOf(stay)
  <2>1. at' = at /\ op' = op
    BY <1>1 DEF lists
  <2>2. worker'.by = worker.by
    BY DEF DeleteFile, RestoreStarts, RestoreEnds, Set, TypeInv, TypeOK, WorkRecords
  <2> QED BY <2>1, <2>2 DEF FilesOf, OnFolder, Active, Leaving
<1>4. CASE DeleteFile(f)
  <2>1. /\ worker' = [worker EXCEPT !.stage[f] = "done"] /\ worker.under[f] = Nothing
        /\ \A g \in Files : g # f => game'[g] = game[g]
    BY <1>4 DEF DeleteFile, Set, TypeInv, TypeOK
  <2>2. Follows(stay, f)'
    BY <1>2, <1>3, <2>1 DEF Follows
  <2> QED BY <1>1, <2>1, <2>2, RemovalStepFollows
<1>5. CASE RestoreStarts(f)
  <2>1. /\ worker' = [worker EXCEPT !.stage[f] = "copy"]
        /\ \A g \in Files : g # f => game'[g] = game[g]
    BY <1>5 DEF RestoreStarts, Set, TypeInv, TypeOK
  <2> QED BY <1>1, <2>1, RemovalStepFollows
<1>6. CASE RestoreEnds(f)
  <2>1. /\ worker' = [worker EXCEPT !.stage[f] = "done"]
        /\ \A g \in Files : g # f => game'[g] = game[g]
        /\ worker.under[f] # Nothing => game'[f] = worker.under[f]
    BY <1>6 DEF RestoreEnds, Set, TypeInv, TypeOK
  <2>2. ASSUME f \in FilesOf(stay)
        PROVE  RightCopy(at, stay, f, worker.under[f])
    <3> DEFINE c == op[worker.by]
    <3>1. worker.by \in Ops /\ worker.by # NoOp
      BY <1>1, RemovalKnows DEF CalmInv, WorkerKnows
    <3>2. /\ c.phase = "work" /\ c.kind \in {"disable", "bulk"}
          /\ f \in c.files /\ worker.under = c.under /\ PlanRight(c)
      BY <1>1, <3>1 DEF TypeInv, WorkerHasCall, CalmInv, WorkerKnows, DiskInv
    <3> QED BY <2>2, <3>2 DEF PlanRight
  <2>3. Follows(stay, f)'
    BY <1>2, <1>3, <2>1, <2>2 DEF Follows, RightCopy
  <2> QED BY <1>1, <2>1, <2>3, RemovalStepFollows
<1> QED BY <1>4, <1>5, <1>6

----------------------------------------------------------------------------
(* Whose copy each file is: the calls' steps *)

\* A call that has recorded nothing and has nothing to record: the files follow the lists
\* without the mods that it has taken from the disk.
LEMMA LandedPlainly ==
    ASSUME NEW c, Put(c) = {}, NEW f
    PROVE  Landed(c, f) <=> Follows(OnFolder \ Taken(c), f)
BY DEF Put, Landed

\* A step of the call that leaves the lists and the files alone.
LEMMA PlainStepFollows ==
    ASSUME Calm, TypeInv, CalmInv, DiskInv, NEW o \in Ops, op[o].phase # "work", NEW c,
           op' = [op EXCEPT ![o] = c], UNCHANGED <<disk, worker, at>>,
           Taken(c) = Taken(op[o]), Put(c) = {}, Put(op[o]) = {}, EnableFresh(c), PlanRight(c)
    PROVE  DiskInv'
<1>1. op'[o] = c /\ Ops = {o} /\ game' = game /\ worker.task = "none" /\ worker'.task = "none"
  BY OneCall, NoWorkerNow DEF TypeInv, TypeOK, disk
<1>2. OnFolder' = OnFolder /\ ListsCompact' /\ \A p \in Profiles : Active(p)' = Active(p)
  BY SameLists
<1>3. EnableFresh(op[o])'
  BY <1>1 DEF EnableFresh, Active
<1>4. PlanRight(op[o])'
  BY <1>1, <1>2 DEF PlanRight, Leaving, FilesOf, RightCopy
<1>5. ASSUME NEW f \in Files
      PROVE  Landed(op[o], f)'
  <2>1. Follows(OnFolder \ Taken(op[o]), f)
    BY <1>1, LandedPlainly DEF DiskInv, FilesFollow
  <2>2. Follows(OnFolder \ Taken(c), f)'
    BY <1>1, <1>2, <2>1 DEF Follows, RightCopy, FilesOf, Taken, Leaving
  <2>3. Taken(op[o])' = Taken(c) /\ Put(op[o])' = {}
    BY <1>1 DEF Taken, Put, Leaving
  <2> QED BY <1>1, <1>2, <2>2, <2>3 DEF Landed, Put, Follows, RightCopy, FilesOf
<1>6. FilesFollow'
  BY <1>1, <1>5 DEF FilesFollow
<1> QED BY <1>1, <1>2, <1>3, <1>4, <1>6 DEF DiskInv

\* EnableBegin, EnableSurvey, EnableNext and EnableLeave keep DiskInv: a call enables
\* what its profile's list has not.
LEMMA EnablePlansFollow ==
    ASSUME Calm, TypeInv, CalmInv, DiskInv, NEW o \in Ops,
           \/ \E m \in Mods : EnableBegin(o, m) \/ EnableNext(o, m)
           \/ EnableSurvey(o) \/ EnableLeave(o)
    PROVE  DiskInv'
<1>1. op[o] \in CallRecords /\ EnableFresh(op[o])
  BY DEF TypeInv, TypeOK, DiskInv
<1>2. ASSUME NEW m \in Mods, EnableBegin(o, m)
      PROVE  DiskInv'
  <2> DEFINE c == [NoCall EXCEPT !.kind = "enable", !.phase = "survey", !.prof = cur,
                                 !.target = m, !.todo = InChain(m) \ Active(cur)]
  <2>1. /\ op[o].phase = "idle" /\ op' = [op EXCEPT ![o] = c]
        /\ UNCHANGED <<disk, worker, at>>
    BY <1>2 DEF EnableBegin, lists
  <2>2. /\ c.kind = "enable" /\ c.phase = "survey" /\ c.prof = cur
        /\ c.todo = InChain(m) \ Active(cur)
    BY DEF NoCall
  <2> HIDE DEF c
  <2>3. EnableFresh(c) /\ PlanRight(c)
    BY <2>2 DEF EnableFresh, PlanRight
  <2>4. Taken(c) = Taken(op[o]) /\ Put(c) = {} /\ Put(op[o]) = {}
    BY <2>1, <2>2 DEF Taken, Put
  <2> QED BY <2>1, <2>3, <2>4, PlainStepFollows
<1>3. ASSUME NEW m \in Mods, EnableNext(o, m)
      PROVE  DiskInv'
  <2> DEFINE c == [op[o] EXCEPT !.phase = "wait", !.mod = m, !.todo = @ \ {m}]
  <2>1. /\ op[o].kind = "enable" /\ op[o].phase = "next" /\ op' = [op EXCEPT ![o] = c]
        /\ m \in op[o].todo /\ UNCHANGED <<disk, worker, at>>
    BY <1>3 DEF EnableNext, FirstOf, lists
  <2>2. /\ c.kind = "enable" /\ c.phase = "wait" /\ c.mod = m /\ c.prof = op[o].prof
        /\ c.todo = op[o].todo \ {m}
    BY <1>1, <2>1 DEF CallRecords
  <2> HIDE DEF c
  <2>3. EnableFresh(c) /\ PlanRight(c)
    BY <1>1, <2>1, <2>2 DEF EnableFresh, PlanRight
  <2>4. Taken(c) = Taken(op[o]) /\ Put(c) = {} /\ Put(op[o]) = {}
    BY <2>1, <2>2 DEF Taken, Put
  <2> QED BY <2>1, <2>3, <2>4, PlainStepFollows
<1>4. CASE EnableSurvey(o)
  <2> DEFINE c == [op[o] EXCEPT !.phase = "next", !.others = FilesOf(OnFolder)]
  <2>1. /\ op[o].kind = "enable" /\ op[o].phase = "survey" /\ op' = [op EXCEPT ![o] = c]
        /\ UNCHANGED <<disk, worker, at>>
    BY <1>1, <1>4 DEF EnableSurvey, lists
  <2>2. /\ c.kind = "enable" /\ c.phase = "next" /\ c.prof = op[o].prof
        /\ c.todo = op[o].todo
    BY <1>1, <2>1 DEF CallRecords
  <2> HIDE DEF c
  <2>3. EnableFresh(c) /\ PlanRight(c)
    BY <1>1, <2>1, <2>2 DEF EnableFresh, PlanRight
  <2>4. Taken(c) = Taken(op[o]) /\ Put(c) = {} /\ Put(op[o]) = {}
    BY <2>1, <2>2 DEF Taken, Put
  <2> QED BY <2>1, <2>3, <2>4, PlainStepFollows
<1>5. CASE EnableLeave(o)
  <2> DEFINE c == [op[o] EXCEPT !.phase = "save"]
  <2>1. /\ op[o].kind = "enable" /\ op[o].phase = "next" /\ op' = [op EXCEPT ![o] = c]
        /\ UNCHANGED <<disk, worker, at>>
    BY <1>1, <1>5 DEF EnableLeave, lists
  <2>2. c.kind = "enable" /\ c.phase = "save"
    BY <1>1, <2>1 DEF CallRecords
  <2> HIDE DEF c
  <2>3. EnableFresh(c) /\ PlanRight(c)
    BY <2>2 DEF EnableFresh, PlanRight
  <2>4. Taken(c) = Taken(op[o]) /\ Put(c) = {} /\ Put(op[o]) = {}
    BY <2>1, <2>2 DEF Taken, Put
  <2> QED BY <2>1, <2>3, <2>4, PlainStepFollows
<1> QED BY <1>2, <1>3, <1>4, <1>5

\* DisableBegin keeps DiskInv: what it plans to put back is the right copy.
LEMMA DisablePlansFollow ==
    ASSUME Calm, TypeInv, CalmInv, DiskInv, NEW o \in Ops, NEW m \in Mods, DisableBegin(o, m)
    PROVE  DiskInv'
<1> DEFINE under == [f \in Files |-> IF f \in Ships[m] THEN Fallback(cur, {m}, f) ELSE Nothing]
           c == DisablePlan([NoCall EXCEPT !.kind = "disable", !.target = m], m)
<1>1. /\ op[o].phase = "idle" /\ op' = [op EXCEPT ![o] = c]
      /\ UNCHANGED <<disk, worker, at>> /\ cur \in Profiles
      /\ TypeOK /\ OneLibraryPerMod /\ TwinsAgree
  BY DEF DisableBegin, lists, TypeInv, TypeOK, CalmInv
<1>2. /\ c.kind = "disable" /\ c.phase = "wait" /\ c.mod = m
      /\ c.files = Ships[m] /\ c.under = under
  BY DEF NoCall, DisablePlan
<1>3. Ships[m] \subseteq Files
  BY Library_Assumption
<1>4. \A f \in Ships[m] : f \in FilesOf(OnFolder \ {m}) =>
                            RightCopy(at, OnFolder \ {m}, f, under[f])
  <2> SUFFICES ASSUME NEW f \in Ships[m], f \in FilesOf(OnFolder \ {m})
               PROVE  RightCopy(at, OnFolder \ {m}, f, under[f])
    OBVIOUS
  <2>1. f \in Files /\ under[f] = Fallback(cur, {m}, f) /\ {m} \in SUBSET Mods
    BY <1>3
  <2> HIDE DEF under
  <2> QED BY <1>1, <2>1, FallbackRight
<1> HIDE DEF c, under
<1>5. EnableFresh(c) /\ PlanRight(c)
  BY <1>2, <1>4 DEF EnableFresh, PlanRight, Leaving
<1>6. Taken(c) = Taken(op[o]) /\ Put(c) = {} /\ Put(op[o]) = {}
  BY <1>1, <1>2 DEF Taken, Put
<1> QED BY <1>1, <1>5, <1>6, PlainStepFollows

\* BulkBegin and BulkNext keep DiskInv, for the same reason.
LEMMA BulkPlansFollow ==
    ASSUME Calm, TypeInv, CalmInv, DiskInv, NEW o \in Ops,
           \/ \E g \in BulkGroups, w \in SUBSET Mods : BulkBegin(o, g, w)
           \/ \E q \in Profiles : BulkNext(o, q)
    PROVE  DiskInv'
<1>1. ASSUME NEW g \in BulkGroups, NEW w \in SUBSET Mods, BulkBegin(o, g, w)
      PROVE  DiskInv'
  <2> DEFINE touched == {p \in g : Active(p) \cap w # {}}
             mine == [p \in Profiles |-> IF p \in touched THEN Active(p) \cap w ELSE {}]
             c == [NoCall EXCEPT !.kind = "bulk", !.phase = "next", !.group = touched,
                                 !.tasks = touched, !.gone = w, !.mine = mine]
  <2>1. /\ op[o].phase = "idle" /\ op' = [op EXCEPT ![o] = c] /\ touched # {}
        /\ UNCHANGED <<disk, worker, at>>
    BY <1>1 DEF BulkBegin, lists
  <2>2. c.kind = "bulk" /\ c.phase = "next" /\ c.tasks = touched
    BY DEF NoCall
  <2> HIDE DEF c, touched, mine
  <2>3. EnableFresh(c) /\ PlanRight(c)
    BY <2>2 DEF EnableFresh, PlanRight
  <2>4. Taken(c) = Taken(op[o]) /\ Put(c) = {} /\ Put(op[o]) = {}
    BY <2>1, <2>2 DEF Taken, Put
  <2> QED BY <2>1, <2>3, <2>4, PlainStepFollows
<1>2. ASSUME NEW q \in Profiles, BulkNext(o, q)
      PROVE  DiskInv'
  <2> DEFINE gone  == op[o].mine[q]
             files == FilesOf(gone)
             under == [f \in Files |-> IF f \in files THEN BatchFallback(gone, f) ELSE Nothing]
             c == [op[o] EXCEPT !.phase = "wait", !.prof = q, !.tasks = @ \ {q},
                                !.files = files, !.under = under]
  <2>1. /\ op[o] \in CallRecords /\ op[o].kind = "bulk" /\ op[o].phase = "next"
        /\ q \in op[o].tasks /\ op' = [op EXCEPT ![o] = c]
        /\ UNCHANGED <<disk, worker, at>> /\ TypeOK /\ OneLibraryPerMod /\ TwinsAgree
    BY <1>2 DEF BulkNext, lists, TypeInv, TypeOK, CalmInv
  <2>2. PICK p \in Profiles : op[o].group = {p} /\ op[o].tasks \subseteq {p}
    BY <2>1 DEF CalmInv, CallsKnow, BulkKnows
  <2>3. q = p /\ gone \in SUBSET Mods
    BY <2>1, <2>2 DEF CallRecords
  <2>4. files \subseteq Files
    BY <2>3, Library_Assumption DEF FilesOf
  <2>5. /\ c.kind = "bulk" /\ c.phase = "wait" /\ c.group = {q} /\ c.mine = op[o].mine
        /\ c.files = files /\ c.under = under
    BY <2>1, <2>2, <2>3 DEF CallRecords
  <2>6. \A f \in files : f \in FilesOf(OnFolder \ gone) =>
                           RightCopy(at, OnFolder \ gone, f, under[f])
    <3> SUFFICES ASSUME NEW f \in files, f \in FilesOf(OnFolder \ gone)
                 PROVE  RightCopy(at, OnFolder \ gone, f, under[f])
      OBVIOUS
    <3>1. f \in Files /\ under[f] = BatchFallback(gone, f)
      BY <2>4
    <3> HIDE DEF under, gone
    <3> QED BY <2>1, <2>3, <3>1, BatchFallbackRight
  <2> HIDE DEF c, under
  <2>7. Leaving(c) = gone
    BY <2>5 DEF Leaving
  <2>8. EnableFresh(c) /\ PlanRight(c)
    BY <2>5, <2>6, <2>7 DEF EnableFresh, PlanRight
  <2>9. Taken(c) = Taken(op[o]) /\ Put(c) = {} /\ Put(op[o]) = {}
    BY <2>1, <2>5 DEF Taken, Put
  <2> QED BY <2>1, <2>8, <2>9, PlainStepFollows
<1> QED BY <1>1, <1>2

\* Save and SwitchProfile keep DiskInv.
LEMMA SavesFollow ==
    ASSUME Calm, TypeInv, CalmInv, DiskInv,
           \/ \E o \in Ops : Save(o)
           \/ \E p \in Profiles : SwitchProfile(p)
    PROVE  DiskInv'
<1>1. ASSUME NEW o \in Ops, Save(o)
      PROVE  DiskInv'
  <2>1. /\ op[o].phase = "save" /\ op' = [op EXCEPT ![o] = NoCall]
        /\ UNCHANGED <<disk, worker, at>>
    BY <1>1 DEF Save
  <2>2. NoCall.kind = "none" /\ NoCall.phase = "idle"
    BY DEF NoCall
  <2>3. EnableFresh(NoCall) /\ PlanRight(NoCall)
    BY <2>2 DEF EnableFresh, PlanRight
  <2>4. Taken(NoCall) = Taken(op[o]) /\ Put(NoCall) = {} /\ Put(op[o]) = {}
    BY <2>1, <2>2 DEF Taken, Put
  <2> QED BY <2>1, <2>3, <2>4, PlainStepFollows
<1>2. ASSUME NEW p \in Profiles, SwitchProfile(p)
      PROVE  DiskInv'
  <2>1. PICK o \in Ops : TRUE
    BY Library_Assumption
  <2>2. /\ op[o].phase = "idle" /\ op' = [op EXCEPT ![o] = op[o]]
        /\ UNCHANGED <<disk, worker, at>>
    BY <1>2, <2>1 DEF SwitchProfile, Calm, TypeInv, TypeOK
  <2>3. EnableFresh(op[o]) /\ PlanRight(op[o]) /\ Put(op[o]) = {}
    BY <2>2 DEF DiskInv, Put
  <2> QED BY <2>2, <2>3, PlainStepFollows
<1> QED BY <1>1, <1>2

\* The call gets its worker: every file is as the lists say.
LEMMA StartFollows ==
    ASSUME Calm, TypeInv, CalmInv, DiskInv, NEW o \in Ops, op[o].phase = "wait",
           op' = [op EXCEPT ![o].phase = "work"], UNCHANGED <<disk, lists>>,
           worker'.task \in {"apply", "unapply"}, \A f \in Files : worker'.stage[f] = "todo"
    PROVE  DiskInv'
<1> DEFINE c == [op[o] EXCEPT !.phase = "work"]
<1>1. /\ op[o] \in CallRecords /\ op'[o] = c /\ Ops = {o} /\ game' = game /\ at' = at
      /\ EnableFresh(op[o]) /\ PlanRight(op[o]) /\ worker.task = "none"
  BY OneCall, NoWorkerNow DEF TypeInv, TypeOK, disk, lists, DiskInv
<1>2. /\ c.kind = op[o].kind /\ c.phase = "work" /\ c.mod = op[o].mod /\ c.todo = op[o].todo
      /\ c.prof = op[o].prof /\ c.files = op[o].files /\ c.under = op[o].under
      /\ c.group = op[o].group /\ c.mine = op[o].mine
  BY <1>1 DEF CallRecords
<1> HIDE DEF c
<1>3. OnFolder' = OnFolder /\ ListsCompact' /\ \A p \in Profiles : Active(p)' = Active(p)
  BY <1>1, SameLists
<1>4. EnableFresh(op[o])'
  BY <1>1, <1>2 DEF EnableFresh, Active
<1>5. PlanRight(op[o])'
  BY <1>1, <1>2, <1>3 DEF PlanRight, Leaving, FilesOf, RightCopy
<1>6. \A f \in Files : Follows(OnFolder, f)'
  <2> TAKE f \in Files
  <2>1. Landed(op[o], f) /\ Put(op[o]) = {} /\ Taken(op[o]) = {}
    BY <1>1 DEF DiskInv, FilesFollow, Put, Taken
  <2>2. OnFolder \ Taken(op[o]) = OnFolder
    BY <2>1
  <2>3. Follows(OnFolder, f)
    BY <2>1, <2>2, LandedPlainly
  <2> QED BY <1>1, <1>3, <2>3 DEF Follows, RightCopy, FilesOf
<1>7. FilesFollow'
  BY <1>6 DEF FilesFollow, DeployFollows, RemovalFollows
<1> QED BY <1>1, <1>3, <1>4, <1>5, <1>7 DEF DiskInv

\* EnableStart, DisableStart and BulkStart keep DiskInv.
LEMMA StartsFollow ==
    ASSUME Calm, TypeInv, CalmInv, DiskInv, NEW o \in Ops,
           EnableStart(o) \/ DisableStart(o) \/ BulkStart(o)
    PROVE  DiskInv'
<1>1. worker'.task \in {"apply", "unapply"} /\ \A f \in Files : worker'.stage[f] = "todo"
  <2>1. CASE EnableStart(o)
    BY <2>1 DEF EnableStart, NoWork
  <2>2. CASE DisableStart(o)
    BY <2>2 DEF DisableStart, NoWork
  <2>3. CASE BulkStart(o)
    BY <2>3 DEF BulkStart, NoWork
  <2> QED BY <2>1, <2>2, <2>3
<1> QED BY <1>1, StartFollows DEF EnableStart, DisableStart, BulkStart

\* EnableRecord keeps DiskInv: the mod whose copies are in the folder becomes the last of
\* its lists.
LEMMA EnableRecordFollows ==
    ASSUME Calm, TypeInv, CalmInv, DiskInv, NEW o \in Ops, EnableRecord(o)
    PROVE  DiskInv'
<1> DEFINE m == op[o].mod
           c == [op[o] EXCEPT !.phase = "next", !.others = @ \cup Ships[m], !.mod = Nothing]
<1>1. /\ op[o] \in CallRecords /\ op[o].kind = "enable" /\ op[o].phase = "record"
      /\ op'[o] = c /\ UNCHANGED <<disk, worker>> /\ Ops = {o} /\ TypeOK
      /\ at' = [p \in Profiles |-> IF p \in Twins(op[o].prof) THEN Pushed(at[p], m) ELSE at[p]]
      /\ m \in Mods /\ op[o].prof \in Profiles /\ game' = game
  BY OneCall DEF EnableRecord, TypeInv, TypeOK, CallHasMod, CallRecords, disk
<1>2. c.kind = "enable" /\ c.phase = "next" /\ c.prof = op[o].prof /\ c.todo = op[o].todo
  BY <1>1 DEF CallRecords
<1> HIDE DEF c
<1>3. /\ \A q \in Profiles \ {op[o].prof} : m \notin Active(q)
      /\ m \notin Active(op[o].prof) /\ m \notin op[o].todo
      /\ \A n \in op[o].todo : n \notin Active(op[o].prof)
  BY <1>1 DEF CalmInv, CallsKnow, EnableKnows, DiskInv, EnableFresh
<1>4. OnFolder' = OnFolder \cup {m} /\ OnFolder \in SUBSET Mods /\ m \notin OnFolder
  BY <1>1, <1>3, ListsGain, ActiveSets DEF CalmInv, OnFolder
<1>5. /\ at \in [Profiles -> [Mods -> Ranks]]
      /\ \A p \in Profiles : Compact(at[p]) /\ at[p][m] = 0
      /\ \A p \in Profiles :
            at'[p] = IF p \in Twins(op[o].prof) THEN Pushed(at[p], m) ELSE at[p]
  <2>1. at \in [Profiles -> [Mods -> Ranks]] /\ \A p \in Profiles : Compact(at[p])
    BY <1>1 DEF TypeOK, DiskInv, ListsCompact
  <2>2. \A p \in Profiles : at[p][m] \in Nat /\ ~(at[p][m] > 0)
    BY <1>1, <1>3, <2>1, ModsCount DEF Ranks, Active
  <2> QED BY <1>1, <2>1, <2>2
<1>6. ListsCompact'
  BY <1>1, <1>5, PushedCompact DEF ListsCompact
<1>7. EnableFresh(op[o])' /\ PlanRight(op[o])'
  <2>1. \A n \in op[o].todo : n \in Mods /\ ~(at'[op[o].prof][n] > 0)
    BY <1>1, <1>3, <1>5, PushedActive DEF Active, CallRecords
  <2> QED BY <1>1, <1>2, <2>1 DEF EnableFresh, PlanRight, Active
<1>8. ASSUME NEW f \in Files
      PROVE  Landed(op[o], f)'
  <2>1. Landed(op[o], f) /\ Taken(op[o]) = {} /\ OnFolder \ Taken(op[o]) = OnFolder
    <3>1. Landed(op[o], f)
      BY <1>1, NoWorkerNow DEF DiskInv, FilesFollow
    <3> QED BY <1>1, <3>1 DEF Taken
  <2>2. f \in Ships[m] => game[f] = m
    BY <1>1, <2>1 DEF Landed
  <2>3. f \notin Ships[m] => Follows(OnFolder, f)
    BY <2>1 DEF Landed
  <2> DEFINE S == OnFolder
  <2>4. /\ f \in Ships[m] => RightCopy(at', S \cup {m}, f, m)
        /\ \A x : f \notin Ships[m] /\ RightCopy(at, S, f, x) => RightCopy(at', S \cup {m}, f, x)
    <3> HIDE DEF S
    <3>1. S \in SUBSET Mods /\ m \notin S
      BY <1>4 DEF S
    <3> HIDE DEF m
    <3> QED BY <1>1, <1>5, <3>1, RightWhenListsGain
  <2>5. f \in FilesOf(OnFolder \cup {m}) => RightCopy(at', OnFolder \cup {m}, f, game[f])
    BY <2>2, <2>3, <2>4, FilesWith DEF Follows
  <2>6. Follows(OnFolder, f)'
    BY <1>1, <1>4, <2>5 DEF Follows, FilesOf, RightCopy
  <2>7. Taken(op[o])' = {} /\ Put(op[o])' = {} /\ (OnFolder \ Taken(op[o]))' = OnFolder'
    BY <1>1, <1>2 DEF Taken, Put
  <2> QED BY <1>1, <1>2, <2>6, <2>7 DEF Landed, Follows, FilesOf, RightCopy
<1>9. FilesFollow'
  BY <1>1, <1>8, NoWorkerNow DEF FilesFollow
<1> QED BY <1>1, <1>6, <1>7, <1>9 DEF DiskInv

\* DisableRecord and BulkRecord keep DiskInv: the files follow already the lists without
\* the mods that leave.
LEMMA RemovalRecordsFollow ==
    ASSUME Calm, TypeInv, CalmInv, DiskInv, NEW o \in Ops, DisableRecord(o) \/ BulkRecord(o)
    PROVE  DiskInv'
<1> DEFINE c == [op[o] EXCEPT !.phase = "save"]
<1>1. /\ op[o] \in CallRecords /\ op'[o] = c /\ UNCHANGED <<disk, worker>> /\ game' = game
      /\ op[o].kind \in {"disable", "bulk"} /\ op[o].phase # "work" /\ Ops = {o} /\ TypeOK
  BY OneCall DEF DisableRecord, BulkRecord, TypeInv, TypeOK, disk
<1>2. c.kind = op[o].kind /\ c.phase = "save"
  BY <1>1 DEF CallRecords
<1> HIDE DEF c
<1>3. OnFolder' = OnFolder \ Taken(op[o]) /\ OnFolder \in SUBSET Mods
  BY <1>1, RemovalLists, ActiveSets
<1>4. PICK gone : \A p \in Profiles : at'[p] = at[p] \/ at'[p] = Retained(at[p], gone)
  BY RemovalLists
<1>5. ListsCompact'
  <2> SUFFICES ASSUME NEW p \in Profiles PROVE Compact(at'[p])
    BY DEF ListsCompact
  <2>1. at[p] \in [Mods -> Ranks] /\ Compact(at[p])
    BY <1>1 DEF TypeOK, DiskInv, ListsCompact
  <2> QED BY <1>4, <2>1, RetainedCompact
<1>6. EnableFresh(op[o])' /\ PlanRight(op[o])'
  BY <1>1, <1>2 DEF EnableFresh, PlanRight
<1>7. ASSUME NEW f \in Files
      PROVE  Landed(op[o], f)'
  <2> DEFINE S == OnFolder \ Taken(op[o])
  <2>1. Follows(S, f)
    BY <1>1, NoWorkerNow, LandedPlainly DEF DiskInv, FilesFollow, Put
  <2>2. S \in SUBSET Mods /\ OnFolder' = S /\ at \in [Profiles -> [Mods -> Ranks]]
    BY <1>1, <1>3 DEF TypeOK
  <2> HIDE DEF S
  <2>3. RightCopy(at, S, f, game[f]) => RightCopy(at', S, f, game[f])
    BY <1>4, <2>2, RightWhenListsLose
  <2>4. Follows(OnFolder, f)'
    BY <1>1, <2>1, <2>2, <2>3 DEF Follows, FilesOf, RightCopy
  <2>5. Taken(op[o])' = {} /\ (OnFolder \ Taken(op[o]))' = OnFolder'
    BY <1>1, <1>2 DEF Taken
  <2> QED BY <1>1, <1>2, <2>4, <2>5 DEF Landed, Follows, FilesOf, RightCopy
<1>8. FilesFollow'
  BY <1>1, <1>7, NoWorkerNow DEF FilesFollow
<1> QED BY <1>1, <1>5, <1>6, <1>8 DEF DiskInv

\* The worker ends and the call goes on: the files follow the lists but for what the
\* call records next.
LEMMA EndFollows ==
    ASSUME Calm, TypeInv, DiskInv, NEW o \in Ops, NEW c,
           op' = [op EXCEPT ![o] = c], worker' = NoWork, UNCHANGED <<disk, lists>>,
           EnableFresh(c), PlanRight(c), \A f \in Files : Landed(c, f)
    PROVE  DiskInv'
<1>1. /\ op'[o] = c /\ Ops = {o} /\ game' = game /\ at' = at /\ worker'.task = "none"
  BY OneCall DEF TypeInv, TypeOK, disk, lists, NoWork
<1>2. OnFolder' = OnFolder /\ ListsCompact'
  BY <1>1, SameLists
<1>3. EnableFresh(op[o])'
  BY <1>1 DEF EnableFresh, Active
<1>4. PlanRight(op[o])'
  BY <1>1, <1>2 DEF PlanRight, Leaving, FilesOf, RightCopy
<1>5. ASSUME NEW f \in Files
      PROVE  Landed(op[o], f)'
  <2>1. Landed(c, f)
    OBVIOUS
  <2>2. (OnFolder \ Taken(op[o]))' = OnFolder \ Taken(c)
    BY <1>1, <1>2 DEF Taken, Leaving
  <2>3. Follows(OnFolder \ Taken(op[o]), f)' <=> Follows(OnFolder \ Taken(c), f)
    BY <1>1, <2>2 DEF Follows, FilesOf, RightCopy
  <2> QED BY <1>1, <2>1, <2>3 DEF Landed
<1>6. FilesFollow'
  BY <1>1, <1>5 DEF FilesFollow
<1> QED BY <1>1, <1>2, <1>3, <1>4, <1>6 DEF DiskInv

\* WorkerDone keeps DiskInv: every file of the deploy is the mod's copy, every file of the
\* removal the right one for the mods that stay.
LEMMA WorkerDoneFollows ==
    ASSUME Calm, TypeInv, CalmInv, DiskInv, NEW o \in Ops, WorkerDone(o)
    PROVE  DiskInv'
<1> DEFINE next == IF op[o].kind = "bulk" THEN "next" ELSE "record"
           c    == [op[o] EXCEPT !.phase = next]
<1>1. /\ op[o] \in CallRecords /\ ~worker.undo /\ o # NoOp
      /\ worker.by = o /\ worker.task \in {"apply", "unapply"}
      /\ \A f \in worker.files : worker.stage[f] = "done"
      /\ worker' = NoWork /\ UNCHANGED <<disk, lists>>
      /\ BulkKnows(op[o]) /\ EnableFresh(op[o])
  BY Library_Assumption
     DEF WorkerDone, TypeInv, TypeOK, CalmInv, Unstopped, CallsKnow, DiskInv
<1>2. op[o].phase = "work" /\ op[o].kind \in {"enable", "disable", "bulk"}
  BY <1>1 DEF TypeInv, WorkerHasCall, CalmInv, WorkerKnows
<1>3. op' = [op EXCEPT ![o] = c]
  BY <1>1 DEF WorkerDone
<1>4. /\ c.kind = op[o].kind /\ c.phase = next /\ c.mod = op[o].mod
      /\ c.prof = op[o].prof /\ c.todo = op[o].todo /\ c.group = op[o].group
      /\ c.tasks = op[o].tasks /\ c.mine = op[o].mine
  BY <1>1 DEF CallRecords
<1> HIDE DEF c
<1>5. EnableFresh(c) /\ PlanRight(c)
  BY <1>1, <1>2, <1>4 DEF EnableFresh, PlanRight
<1>6. \A f \in Files : f \notin worker.files => worker.stage[f] = "todo"
  BY DEF CalmInv, WorkerKnows, TypeInv, TypeOK, WorkRecords
<1>7. ASSUME NEW f \in Files
      PROVE  Landed(c, f)
  <2>1. CASE worker.task = "apply"
    <3>1. /\ op[o].kind = "enable" /\ worker.mod = op[o].mod /\ worker.files = Ships[op[o].mod]
          /\ DeployFollows(f)
      BY <1>1, <2>1 DEF CalmInv, WorkerKnows, DiskInv, FilesFollow
    <3>2. f \in Ships[op[o].mod] => game[f] = op[o].mod
      BY <1>1, <2>1, <3>1 DEF DeployFollows
    <3>3. f \notin Ships[op[o].mod] => Follows(OnFolder, f)
      BY <1>6, <3>1 DEF DeployFollows
    <3>4. Taken(c) = {} /\ OnFolder \ Taken(c) = OnFolder
      BY <1>4, <3>1 DEF Taken
    <3> QED BY <1>4, <3>1, <3>2, <3>3, <3>4 DEF Landed
  <2>2. CASE worker.task = "unapply"
    <3>1. /\ op[o].kind \in {"disable", "bulk"} /\ RemovalFollows(f)
          /\ worker.files = FilesOf(Leaving(op[o]))
      BY <1>1, <2>2, RemovalKnows DEF CalmInv, WorkerKnows, DiskInv, FilesFollow
    <3>2. op[o].kind = "bulk" => op[o].tasks = {}
      BY <1>1, <1>2 DEF BulkKnows
    <3>3. Taken(c) = Leaving(op[o]) /\ Put(c) = {}
      BY <1>4, <3>1, <3>2 DEF Taken, Put, Leaving
    <3>4. Follows(OnFolder \ Leaving(op[o]), f)
      <4>1. CASE f \in worker.files
        BY <1>1, <3>1, <4>1 DEF RemovalFollows
      <4>2. CASE f \notin worker.files
        <5>1. Follows(OnFolder, f) /\ f \notin FilesOf(Leaving(op[o]))
          BY <1>6, <3>1, <4>2 DEF RemovalFollows
        <5> QED BY <5>1, FollowsWithout
      <4> QED BY <4>1, <4>2
    <3> QED BY <3>3, <3>4, LandedPlainly
  <2> QED BY <1>1, <2>1, <2>2
<1> QED BY <1>1, <1>3, <1>5, <1>7, EndFollows

\* WorkerErr keeps DiskInv: it is a deploy that has been rolled back.
LEMMA WorkerErrFollows ==
    ASSUME Calm, TypeInv, CalmInv, DiskInv, NEW o \in Ops, WorkerErr(o)
    PROVE  DiskInv'
<1> DEFINE c == AfterStop(op[o])
<1>1. worker.task = "rollback" /\ \A f \in worker.files : worker.stage[f] = "todo"
  <2>1. worker.task = "unapply" => NoneFailed
    BY DEF CalmInv, FilesAreRight, Removed, NoneFailed
  <2> QED BY <2>1 DEF WorkerErr
<1>2. /\ op[o] \in CallRecords /\ op[o].kind = "enable"
      /\ worker' = NoWork /\ UNCHANGED <<disk, lists>>
  BY <1>1 DEF WorkerErr, TypeInv, TypeOK, CalmInv, WorkerKnows
<1>3. op' = [op EXCEPT ![o] = c]
  BY <1>2 DEF WorkerErr
<1>4. c.kind = "enable" /\ c.phase = "save"
  BY <1>2 DEF AfterStop, CallRecords
<1> HIDE DEF c
<1>5. EnableFresh(c) /\ PlanRight(c)
  BY <1>4 DEF EnableFresh, PlanRight
<1>6. \A f \in Files : Follows(OnFolder, f)
  BY <1>1 DEF CalmInv, WorkerKnows, DiskInv, FilesFollow, DeployFollows
<1>7. Put(c) = {} /\ Taken(c) = {} /\ OnFolder \ Taken(c) = OnFolder
  BY <1>4 DEF Taken, Put
<1>8. \A f \in Files : Landed(c, f)
  BY <1>6, <1>7, LandedPlainly
<1> QED BY <1>2, <1>3, <1>5, <1>8, EndFollows

----------------------------------------------------------------------------
(* Whose copy each file is: every step *)

\* At the start no mod is on the folder.
LEMMA DiskInit ==
    ASSUME Calm, Init
    PROVE  DiskInv
<1>1. \A p \in Profiles : Active(p) = {}
  BY DEF Init, Active
<1>2. OnFolder = {}
  BY <1>1 DEF OnFolder
<1>3. \A o \in Ops : op[o].kind = "none"
  BY DEF Init, NoCall
<1>4. worker.task = "none"
  BY DEF Init, NoWork
<1>5. ListsCompact
  <2> SUFFICES ASSUME NEW p \in Profiles PROVE Compact(at[p])
    BY DEF ListsCompact
  <2>1. IsFiniteSet({n \in Mods : at[p][n] > 0})
    BY FS_Subset, Library_Assumption
  <2>2. Cardinality({n \in Mods : at[p][n] > 0}) \in Nat
    BY <2>1, FS_CardinalityType
  <2>3. \A m \in Mods : at[p][m] = 0
    BY DEF Init
  <2> QED BY <2>2, <2>3 DEF Compact
<1>6. \A o \in Ops : EnableFresh(op[o]) /\ PlanRight(op[o])
  BY <1>3 DEF EnableFresh, PlanRight
<1>7. ASSUME NEW o \in Ops, NEW f \in Files
      PROVE  Landed(op[o], f)
  <2>1. Put(op[o]) = {} /\ Follows(OnFolder \ Taken(op[o]), f)
    BY <1>2, <1>3, FileOfMod DEF Put, Follows
  <2> QED BY <2>1, LandedPlainly
<1> QED BY <1>4, <1>5, <1>6, <1>7 DEF DiskInv, FilesFollow

\* DiskInv is about the state.
LEMMA DiskStutter ==
    ASSUME Calm, TypeInv, CalmInv, DiskInv, UNCHANGED vars
    PROVE  DiskInv'
<1>1. game' = game /\ at' = at /\ op' = op /\ worker' = worker
  BY DEF vars
<1>2. OnFolder' = OnFolder /\ ListsCompact'
  BY <1>1, SameLists
<1>3. \A o \in Ops : EnableFresh(op[o])' /\ PlanRight(op[o])'
  BY <1>1, <1>2 DEF DiskInv, EnableFresh, Active, PlanRight, Leaving, FilesOf, RightCopy
<1>4. FilesFollow'
  <2>1. ASSUME NEW o \in Ops, NEW f \in Files, Landed(op[o], f)
        PROVE  Landed(op[o], f)'
    <3>1. (OnFolder \ Taken(op[o]))' = OnFolder \ Taken(op[o])
      BY <1>1, <1>2 DEF Taken, Leaving
    <3>2. Follows(OnFolder \ Taken(op[o]), f)' <=> Follows(OnFolder \ Taken(op[o]), f)
      BY <1>1, <3>1 DEF Follows, FilesOf, RightCopy
    <3> QED BY <1>1, <2>1, <3>2 DEF Landed
  <2>2. ASSUME NEW f \in Files, DeployFollows(f)
        PROVE  DeployFollows(f)'
    BY <1>1, <1>2, <2>2 DEF DeployFollows, Follows, FilesOf, RightCopy
  <2>3. ASSUME NEW f \in Files, RemovalFollows(f)
        PROVE  RemovalFollows(f)'
    <3>1. (OnFolder \ Leaving(op[worker.by]))' = OnFolder \ Leaving(op[worker.by])
      BY <1>1, <1>2 DEF Leaving
    <3> QED BY <1>1, <1>2, <2>3, <3>1 DEF RemovalFollows, Follows, FilesOf, RightCopy
  <2> QED BY <1>1, <2>1, <2>2, <2>3 DEF DiskInv, FilesFollow
<1> QED BY <1>2, <1>3, <1>4 DEF DiskInv

\* DiskInv is inductive in calm use.
LEMMA DiskStep ==
    ASSUME Calm, TypeInv, CalmInv, DiskInv, [Next]_vars
    PROVE  DiskInv'
<1>1. CASE \E o \in Ops : Call(o)
  BY <1>1, EnablePlansFollow, DisablePlansFollow, BulkPlansFollow DEF Call
<1>2. ASSUME NEW o \in Ops, Step(o)
      PROVE  DiskInv'
  <2>1. CASE EnableSurvey(o) \/ EnableLeave(o) \/ \E m \in Mods : EnableNext(o, m)
    BY <2>1, EnablePlansFollow
  <2>2. CASE EnableStart(o) \/ DisableStart(o) \/ BulkStart(o)
    BY <2>2, StartsFollow
  <2>3. CASE EnableRecord(o)
    BY <2>3, EnableRecordFollows
  <2>4. CASE DisableRecord(o) \/ BulkRecord(o)
    BY <2>4, RemovalRecordsFollow
  <2>5. CASE \E p \in Profiles : BulkNext(o, p)
    BY <2>5, BulkPlansFollow
  <2>6. CASE Save(o)
    BY <2>6, SavesFollow
  <2>7. CASE WorkerDone(o)
    BY <2>7, WorkerDoneFollows
  <2>8. CASE WorkerErr(o)
    BY <2>8, WorkerErrFollows
  <2>9. CASE LeaveQueue(o) \/ KillAndUndo(o) \/ StopBulk(o)
    BY <2>9, NotInCalm
  <2> QED BY <1>2, <2>1, <2>2, <2>3, <2>4, <2>5, <2>6, <2>7, <2>8, <2>9 DEF Step
<1>3. CASE WorkerStep
  <2>1. CASE RollbackStarts
    BY <2>1, RollbackStartsFollows
  <2>2. ASSUME NEW f \in Files, ApplyFile(f) \/ RollBack(f)
        PROVE  DiskInv'
    BY <2>2, ApplyFileFollows, RollBackFollows
  <2>3. ASSUME NEW f \in Files, BackupWritten(f) \/ CopyStarts(f) \/ CopyEnds(f)
        PROVE  DiskInv'
    BY <2>3, DeployStepsFollow
  <2>4. ASSUME NEW f \in Files, DeleteFile(f) \/ RestoreStarts(f) \/ RestoreEnds(f)
        PROVE  DiskInv'
    BY <2>4, RemovalStepsFollow
  <2> QED BY <1>3, <2>1, <2>2, <2>3, <2>4 DEF WorkerStep
<1>4. CASE Mishap
  BY <1>4, NotInCalm, DeployStepsFollow DEF Mishap
<1>5. CASE \E p \in Profiles : SwitchProfile(p)
  BY <1>5, SavesFollow
<1>6. CASE \E m \in Mods : ApiEnable(m) \/ ApiDisable(m)
  BY <1>6, NotInCalm
<1>7. CASE UNCHANGED vars
  BY <1>7, DiskStutter
<1> QED BY <1>1, <1>2, <1>3, <1>4, <1>5, <1>6, <1>7 DEF Next

----------------------------------------------------------------------------
(* The order of a chain *)

\* A step that leaves what an enable has to do, and its mod once it has one, keeps the order.
LEMMA InOrderStill ==
    ASSUME NEW c, NEW d, InOrder(c),
           d.kind = "enable" => /\ c.kind = "enable" /\ d.target = c.target /\ d.todo = c.todo
                                /\ d.phase \in {"wait", "work", "record"} =>
                                      /\ c.phase \in {"wait", "work", "record"}
                                      /\ d.mod = c.mod
    PROVE  InOrder(d)
BY DEF InOrder

\* Each step of a call keeps its chain in order, whatever fails and whatever is stopped.
LEMMA CallKeepsOrder ==
    ASSUME TypeInv, NEW o \in Ops, InOrder(op[o]), Call(o) \/ Step(o)
    PROVE  InOrder(op[o])'
<1> DEFINE c == op[o]
           d == op'[o]
<1> SUFFICES InOrder(d) BY DEF InOrder, InChain
<1>0. op \in [Ops -> CallRecords] /\ c \in CallRecords BY DEF TypeInv, TypeOK
<1>1. ASSUME NEW m \in Mods, EnableBegin(o, m) PROVE InOrder(d)
  <2>1. d = [NoCall EXCEPT !.kind = "enable", !.phase = "survey", !.prof = cur, !.target = m,
                           !.todo = InChain(m) \ Active(cur)]
    BY <1>0, <1>1 DEF EnableBegin
  <2>2. d.kind = "enable" /\ d.phase = "survey" /\ d.target = m /\ d.todo = InChain(m) \ Active(cur)
    BY <2>1 DEF NoCall
  <2> HIDE DEF d
  <2> QED BY <2>2 DEF InOrder
<1>2. ASSUME NEW m \in Mods, EnableNext(o, m) PROVE InOrder(d)
  <2>1. d = [c EXCEPT !.phase = "wait", !.mod = m, !.todo = c.todo \ {m}]
    BY <1>0, <1>2 DEF EnableNext
  <2>2. d.kind = c.kind /\ d.target = c.target /\ d.mod = m /\ d.todo = c.todo \ {m}
    BY <1>0, <2>1 DEF CallRecords
  <2>3. c.kind = "enable" /\ FirstOf(o, m) BY <1>2 DEF EnableNext
  <2>4. d.todo \cup {m} = c.todo BY <2>2, <2>3 DEF FirstOf
  <2>5. \E i \in DOMAIN Chain[d.target] :
            /\ Chain[d.target][i] = d.mod
            /\ \A j \in 1 .. i - 1 : Chain[d.target][j] \notin d.todo \cup {d.mod}
    BY <2>2, <2>3, <2>4 DEF FirstOf
  <2>6. c.target \in Mods /\ c.todo \subseteq InChain(c.target) BY <2>3 DEF InOrder
  <2> HIDE DEF c, d
  <2> QED BY <2>2, <2>5, <2>6 DEF InOrder
<1>3. ASSUME NEW m \in Mods, DisableBegin(o, m) PROVE InOrder(d)
  <2>1. d = DisablePlan([NoCall EXCEPT !.kind = "disable", !.target = m], m)
    BY <1>0, <1>3 DEF DisableBegin
  <2>2. d.kind = "disable"
    BY <2>1 DEF DisablePlan, NoCall
  <2> HIDE DEF d
  <2> QED BY <2>2 DEF InOrder
<1>4. ASSUME NEW g \in BulkGroups, NEW w \in SUBSET Mods, BulkBegin(o, g, w)
      PROVE  InOrder(d)
  <2> DEFINE touched == {p \in g : Active(p) \cap w # {}}
             mine == [p \in Profiles |-> IF p \in touched THEN Active(p) \cap w ELSE {}]
  <2>1. d = [NoCall EXCEPT !.kind = "bulk", !.phase = "next", !.group = touched,
                           !.tasks = touched, !.gone = w, !.mine = mine]
    BY <1>0, <1>4 DEF BulkBegin
  <2> HIDE DEF touched, mine
  <2>2. d.kind = "bulk"
    BY <2>1 DEF NoCall
  <2> HIDE DEF d
  <2> QED BY <2>2 DEF InOrder
<1>5. ASSUME c.kind = "enable", d.kind = "enable", d.target = c.target, d.todo = c.todo,
             \/ d.phase \notin {"wait", "work", "record"}
             \/ c.phase \in {"wait", "work", "record"} /\ d.mod = c.mod
      PROVE  InOrder(d)
  BY <1>5, InOrderStill
<1>6. CASE EnableSurvey(o) \/ EnableLeave(o)
  <2>1. \/ d = [c EXCEPT !.phase = "next", !.others = FilesOf(OnFolder)]
        \/ d = [c EXCEPT !.phase = "save"]
    BY <1>0, <1>6 DEF EnableSurvey, EnableLeave
  <2>2. /\ d.kind = c.kind /\ d.target = c.target /\ d.todo = c.todo
        /\ d.phase \in {"next", "save"} /\ c.kind = "enable"
    BY <1>0, <1>6, <2>1 DEF EnableSurvey, EnableLeave, CallRecords
  <2> HIDE DEF c, d
  <2> QED BY <1>5, <2>2
<1>7. CASE EnableStart(o)
  <2>1. d = [c EXCEPT !.phase = "work"] /\ c.kind = "enable" /\ c.phase = "wait"
    BY <1>0, <1>7 DEF EnableStart
  <2>2. d.kind = c.kind /\ d.target = c.target /\ d.todo = c.todo /\ d.mod = c.mod
    BY <1>0, <2>1 DEF CallRecords
  <2> HIDE DEF c, d
  <2> QED BY <1>5, <2>1, <2>2
<1>8. CASE EnableRecord(o)
  <2>1. /\ d = [c EXCEPT !.phase = "next", !.others = @ \cup Ships[c.mod], !.mod = Nothing]
        /\ c.kind = "enable"
    BY <1>0, <1>8 DEF EnableRecord
  <2>2. d.kind = c.kind /\ d.target = c.target /\ d.todo = c.todo /\ d.phase = "next"
    BY <1>0, <2>1 DEF CallRecords
  <2> HIDE DEF c, d
  <2> QED BY <1>5, <2>1, <2>2
<1>9. CASE DisableStart(o) \/ DisableRecord(o) \/ BulkStart(o) \/ BulkRecord(o)
  <2>1. /\ d = [c EXCEPT !.phase = "work"] \/ d = [c EXCEPT !.phase = "save"]
        /\ c.kind \in {"disable", "bulk"}
    BY <1>0, <1>9 DEF DisableStart, DisableRecord, BulkStart, BulkRecord
  <2>2. d.kind = c.kind
    BY <1>0, <2>1 DEF CallRecords
  <2> HIDE DEF c, d
  <2> QED BY <2>1, <2>2 DEF InOrder
<1>10. ASSUME NEW p \in Profiles, BulkNext(o, p) PROVE InOrder(d)
  <2>1. c.kind = "bulk" /\ d.kind = c.kind
    BY <1>0, <1>10 DEF BulkNext, CallRecords
  <2> HIDE DEF c, d
  <2> QED BY <2>1 DEF InOrder
<1>11. CASE Save(o)
  <2>1. d.kind # "enable" BY <1>0, <1>11 DEF Save, NoCall
  <2> QED BY <2>1 DEF InOrder
<1>12. InOrder(AfterStop(c))
  BY <1>0, InOrderStill DEF AfterStop, NoCall, CallRecords
<1>13. CASE WorkerDone(o)
  <2>1. worker.by = o /\ c.phase = "work"
    BY <1>13, Library_Assumption DEF WorkerDone, TypeInv, WorkerHasCall
  <2>2. \/ d = AfterStop(c)
        \/ c.kind = "bulk" /\ d = [c EXCEPT !.phase = "next"]
        \/ d = [c EXCEPT !.phase = "record"]
    BY <1>0, <1>13 DEF WorkerDone
  <2> QED BY <1>0, <1>12, <2>1, <2>2, InOrderStill DEF CallRecords
<1>14. CASE WorkerErr(o) \/ LeaveQueue(o) \/ StopBulk(o)
  <2>1. d = AfterStop(c) \/ (c.kind = "bulk" /\ d = [c EXCEPT !.phase = "next"])
    BY <1>0, <1>14 DEF WorkerErr, LeaveQueue, StopBulk
  <2> QED BY <1>0, <1>12, <2>1, InOrderStill DEF CallRecords
<1>15. CASE KillAndUndo(o)
  BY <1>15 DEF KillAndUndo
<1> QED BY <1>1, <1>2, <1>3, <1>4, <1>6, <1>7, <1>8, <1>9, <1>10, <1>11, <1>13, <1>14, <1>15
       DEF Call, Step

\* ChainInv is inductive: the steps are a call's own or leave it alone.
LEMMA ChainStep == TypeInv /\ ChainInv /\ [Next]_vars => ChainInv'
<1> SUFFICES ASSUME TypeInv, ChainInv, [Next]_vars, NEW q \in Ops PROVE InOrder(op[q])'
  BY DEF ChainInv
<1>0. op \in [Ops -> CallRecords] /\ op[q] \in CallRecords /\ InOrder(op[q])
  BY DEF TypeInv, TypeOK, ChainInv
<1>1. ASSUME op' = op PROVE InOrder(op[q])'
  BY <1>0, <1>1 DEF InOrder, InChain
<1>2. ASSUME NEW o \in Ops, Call(o) \/ Step(o) PROVE InOrder(op[q])'
  <2>1. CASE o = q BY <1>0, <1>2, <2>1, CallKeepsOrder
  <2>2. CASE o # q
    <3>1. op'[q] = op[q] BY <1>2, <2>2, CallStepsAlone
    <3> QED BY <1>0, <3>1 DEF InOrder, InChain
  <2> QED BY <2>1, <2>2
<1>3. ASSUME NEW o \in Ops, Cancel(o) PROVE InOrder(op[q])'
  <2>1. InOrder(op'[q])
    BY <1>0, <1>3, InOrderStill DEF Cancel, CallRecords
  <2> QED BY <2>1 DEF InOrder, InChain
<1>4. ASSUME Crash PROVE InOrder(op[q])'
  BY <1>4 DEF Crash, InOrder, NoCall
<1>5. WorkerStep => op' = op
  BY DEF WorkerStep, ApplyFile, BackupWritten, CopyStarts, CopyEnds, RollBack, DeleteFile,
         RestoreStarts, RestoreEnds, RollbackStarts
<1>6. \A f \in Files : BackupFails(f) \/ CopyFails(f) \/ RestoreFails(f) \/ RollBackFails(f)
                          => op' = op
  BY DEF BackupFails, CopyFails, RestoreFails, RollBackFails
<1>7. (\E p \in Profiles : SwitchProfile(p)) \/ (\E m \in Mods : ApiEnable(m) \/ ApiDisable(m))
         => op' = op
  BY DEF SwitchProfile, ApiEnable, ApiDisable
<1>8. UNCHANGED vars => op' = op BY DEF vars
<1> QED BY <1>1, <1>2, <1>3, <1>4, <1>5, <1>6, <1>7, <1>8 DEF Next, Mishap

\* At the start there is no call.
LEMMA ChainInit == Init => ChainInv
BY DEF Init, ChainInv, InOrder, NoCall

----------------------------------------------------------------------------
(* What calm use shows *)

\* Calm use stays what the runs of it show: all that CalmUse says of the calls, the
\* worker, the backups and the copies holds at every moment.
THEOREM CalmUseStaysRight ==
    ASSUME Calm
    PROVE  Spec => []CalmUse
<1>1. Init => DiskInv /\ ChainInv
  BY DiskInit, ChainInit
<1>2. TypeInv /\ CalmInv /\ DiskInv /\ [Next]_vars => DiskInv'
  BY DiskStep
<1>3. TypeInv /\ ChainInv /\ [Next]_vars => ChainInv'
  BY ChainStep
<1>4. TypeInv /\ CalmInv /\ DiskInv /\ ChainInv => CalmUse
  BY DEF CalmUse
<1> QED BY <1>1, <1>2, <1>3, <1>4, CalmInvariant, PTL DEF Spec

\* In calm use the game folder follows the lists, for every library and every number of
\* profiles, whatever has been enabled and disabled and however often a deploy failed:
\* between calls a file of active mods is the copy of one of them, and of the last of
\* them in a profile that has them all.
THEOREM FilesFollowLists ==
    ASSUME Calm
    PROVE  Spec => []DiskFollowsLists
<1>1. CalmUse => DiskFollowsLists
  <2> SUFFICES ASSUME TypeInv, CalmInv, DiskInv, Restful, NEW f \in FilesOf(OnFolder)
               PROVE  /\ game[f] \in Providing(OnFolder, f)
                      /\ \A p \in Profiles : Providing(OnFolder, f) \subseteq Active(p)
                                => game[f] = LastOf(at[p], Providing(OnFolder, f))
    BY DEF CalmUse, DiskFollowsLists
  <2>1. PICK o \in Ops : op[o].phase = "idle"
    BY Library_Assumption DEF Restful
  <2>2. f \in Files
    BY Library_Assumption, ActiveSets DEF FilesOf, TypeInv
  <2>3. Landed(op[o], f)
    BY <2>1, <2>2, NoWorkerNow DEF DiskInv, FilesFollow
  <2>4. Put(op[o]) = {} /\ OnFolder \ Taken(op[o]) = OnFolder
    BY <2>1 DEF Put, Taken
  <2>5. Follows(OnFolder, f)
    BY <2>3, <2>4, LandedPlainly
  <2> QED BY <2>5 DEF Follows, RightCopy, Active
<1> QED BY <1>1, CalmUseStaysRight, PTL

----------------------------------------------------------------------------
(* The promise: lists that gain a mod at their end or lose some mods *)

\* push puts its mod at the end of a list.
LEMMA PushedAdds ==
    ASSUME NEW list \in [Mods -> Ranks], Compact(list), NEW m \in Mods, list[m] = 0
    PROVE  Promise!IsAdded(list, Pushed(list, m), m)
<1> DEFINE len == Cardinality({n \in Mods : list[n] > 0})
           new == Pushed(list, m)
<1>1. len \in Nat /\ \A n \in Mods : list[n] \in Nat /\ list[n] <= len
  BY FS_Subset, FS_CardinalityType, Library_Assumption, ModsCount DEF Compact, Ranks
<1>2. new = [list EXCEPT ![m] = len + 1]
  BY DEF Pushed
<1> HIDE DEF len, new
<1>3. new[m] = len + 1 /\ \A n \in Mods \ {m} : new[n] = list[n]
  BY <1>2
<1>4. {n \in Mods : new[n] > 0} = {n \in Mods : list[n] > 0} \cup {m}
  BY <1>1, <1>3
<1>5. \A n \in {k \in Mods : list[k] > 0} : n # m /\ new[n] = list[n] /\ new[n] < new[m]
  BY <1>1, <1>3
<1> QED BY <1>4, <1>5 DEF new, Promise!IsAdded, Promise!SameOrder

\* retain leaves the other mods of a list in their order.
LEMMA RetainedThins ==
    ASSUME NEW list \in [Mods -> Ranks], NEW gone, NEW S,
           \A n \in Mods : list[n] > 0 => (n \in S <=> n \in gone)
    PROVE  Promise!IsThinned(list, Retained(list, gone), S)
<1> DEFINE new == Retained(list, gone)
           kept == {n \in Mods : list[n] > 0} \ S
<1>1. new \in [Mods -> Ranks]
  BY RetainedType
<1>2. \A n \in Mods : list[n] \in Nat /\ new[n] \in Nat
  BY <1>1, ModsCount DEF Ranks
<1>3. {n \in Mods : new[n] > 0} = kept
  BY RetainedActive
<1>4. \A n, k \in kept : new[n] <= new[k] <=> list[n] <= list[k]
  BY RetainedOrder
<1> HIDE DEF new
<1>5. \A n, k \in kept : new[n] < new[k] <=> list[n] < list[k]
  BY <1>2, <1>4
<1> QED BY <1>3, <1>5 DEF new, Promise!IsThinned, Promise!SameOrder

----------------------------------------------------------------------------
(* The promise: what the call in flight is *)

\* There is one call, and the job is that call's.
LEMMA JobNow ==
    ASSUME Calm, NEW o \in Ops
    PROVE  /\ Job = JobOf(op[o])
           /\ cur' = cur => Job' = JobOf(op'[o])
           /\ Promise!NoJob = NoJob
<1>1. (CHOOSE q \in Ops : TRUE) = o
  BY DEF Calm
<1>2. Job = JobOf(op[o])
  BY <1>1 DEF Job
<1>3. ASSUME cur' = cur PROVE Job' = JobOf(op'[o])
  BY <1>1, <1>3 DEF Job, JobOf
<1>4. Promise!NoJob = NoJob
  BY DEF Promise!NoJob, NoJob
<1> QED BY <1>2, <1>3, <1>4

\* What an enable is out to do, and which of it is left.
LEMMA EnableJob ==
    ASSUME NEW c, c.kind = "enable", c.phase # "idle"
    PROVE  JobOf(c) = [kind |-> "add", goal |-> c.target, profs |-> Twins(c.prof),
                       left |-> CASE c.phase \in {"survey", "next"}         -> c.todo
                                  [] c.phase \in {"wait", "work", "record"} -> c.todo \cup {c.mod}
                                  [] OTHER                                  -> {},
                       files |-> FilesOf(InChain(c.target))]
BY DEF JobOf

\* The same of a disable and of a bulk disable.
LEMMA RemovalJob ==
    ASSUME NEW c, c.kind # "enable", c.phase # "idle"
    PROVE  JobOf(c) = [kind |-> "remove", goal |-> Nothing,
                       profs |-> IF c.kind = "bulk" THEN c.group ELSE Twins(cur),
                       left  |-> IF c.phase = "save" THEN {} ELSE Leaving(c),
                       files |-> FilesOf(Leaving(c))]
BY DEF JobOf

\* A step that changes no file the call is not at work on, and nothing else that
\* shows, is none of the promise.
LEMMA QuietStep ==
    ASSUME Calm, NEW o \in Ops, UNCHANGED <<at, cur>>, JobOf(op'[o]) = JobOf(op[o]),
           \A f \in Files \ JobOf(op[o]).files : game'[f] = game[f]
    PROVE  UNCHANGED Promise!vars
<1>1. Job = JobOf(op[o]) /\ Job' = Job
  BY JobNow
<1>2. Shown' = Shown
  BY <1>1 DEF Shown
<1> QED BY <1>1, <1>2 DEF Promise!vars

\* The worker is at work on files of its call.
LEMMA WorkerFiles ==
    ASSUME Calm, TypeInv, CalmInv, ChainInv, NEW o \in Ops, worker.task # "none"
    PROVE  \A f \in Files : f \in worker.files \/ worker.stage[f] # "todo"
                               => f \in JobOf(op[o]).files
<1>1. /\ worker.by = o /\ op[o].phase = "work" /\ InOrder(op[o])
      /\ \A f \in Files : worker.stage[f] # "todo" => f \in worker.files
      /\ worker.task \in {"apply", "unapply", "rollback"}
  BY OneCall DEF CalmInv, WorkerKnows, TypeInv, TypeOK, WorkRecords, WorkerHasCall, ChainInv
<1>2. CASE worker.task \in {"apply", "rollback"}
  <2>1. op[o].kind = "enable" /\ worker.files = Ships[op[o].mod]
    BY <1>1, <1>2 DEF CalmInv, WorkerKnows
  <2>2. op[o].mod \in InChain(op[o].target)
    BY <1>1, <2>1 DEF InOrder, InChain
  <2>3. JobOf(op[o]).files = FilesOf(InChain(op[o].target))
    BY <1>1, <2>1, EnableJob
  <2> QED BY <1>1, <2>1, <2>2, <2>3, FileOfMod
<1>3. CASE worker.task = "unapply"
  <2>1. op[o].kind # "enable" /\ worker.files = FilesOf(Leaving(op[o]))
    BY <1>1, <1>3, RemovalKnows DEF CalmInv, WorkerKnows
  <2>2. JobOf(op[o]).files = FilesOf(Leaving(op[o]))
    BY <1>1, <2>1, RemovalJob
  <2> QED BY <1>1, <2>1, <2>2
<1> QED BY <1>1, <1>2, <1>3

\* So its steps are none of the promise.
LEMMA WorkerIsQuiet ==
    ASSUME Calm, TypeInv, CalmInv, ChainInv,
           WorkerStep \/ \E f \in Files : CopyFails(f)
    PROVE  UNCHANGED Promise!vars
<1>1. PICK o \in Ops : TRUE
  BY Library_Assumption
<1>2. /\ UNCHANGED <<at, cur, op>> /\ worker.task # "none"
      /\ \/ game' = game
         \/ \E f \in Files : /\ f \in worker.files \/ worker.stage[f] # "todo"
                             /\ \E x : game' = [game EXCEPT ![f] = x]
  <2>1. CASE \E f \in Files : ApplyFile(f) \/ BackupWritten(f) \/ CopyFails(f)
    BY <2>1 DEF ApplyFile, BackupWritten, CopyFails, lists, disk
  <2>2. CASE RollbackStarts
    BY <2>2 DEF RollbackStarts, lists, disk
  <2>3. CASE \E f \in Files : CopyStarts(f) \/ CopyEnds(f)
    BY <2>3 DEF CopyStarts, CopyEnds, lists
  <2>4. CASE \E f \in Files : RollBack(f)
    BY <2>4 DEF RollBack, lists
  <2>5. CASE \E f \in Files : DeleteFile(f) \/ RestoreStarts(f)
    BY <2>5 DEF DeleteFile, RestoreStarts, lists
  <2>6. CASE \E f \in Files : RestoreEnds(f)
    BY <2>6 DEF RestoreEnds, lists
  <2> QED BY <2>1, <2>2, <2>3, <2>4, <2>5, <2>6 DEF WorkerStep
<1>3. \A f \in Files \ JobOf(op[o]).files : game'[f] = game[f]
  BY <1>2, WorkerFiles DEF TypeInv, TypeOK
<1>4. JobOf(op'[o]) = JobOf(op[o])
  BY <1>2
<1> QED BY <1>2, <1>3, <1>4, QuietStep

----------------------------------------------------------------------------
(* The promise: the calls' steps *)

\* A call is made: from then on the files of its mods do not show.
LEMMA AskingTakes ==
    ASSUME Calm, NEW o \in Ops, op[o].phase = "idle", UNCHANGED <<game, at, cur>>,
           NEW kind, NEW goal, NEW profs, NEW left, NEW files,
           JobOf(op'[o]) = [kind |-> kind, goal |-> goal, profs |-> profs, left |-> left,
                            files |-> files]
    PROVE  Promise!Take(kind, goal, profs, left, files)
<1>1. Job = NoJob /\ Promise!NoJob = NoJob /\ Job' = JobOf(op'[o])
  BY JobNow DEF JobOf
<1>2. Job.files = {} /\ Job'.files = files
  BY <1>1 DEF NoJob
<1>3. Shown' = [f \in Files |-> IF f \in files THEN Torn ELSE game[f]]
  BY <1>2 DEF Shown
<1>4. Shown = [f \in Files |-> game[f]]
  BY <1>2 DEF Shown
<1> QED BY <1>1, <1>3, <1>4 DEF Promise!Take

\* enable_mod_in takes what of the chain is not active.
LEMMA EnableAsks ==
    ASSUME Calm, TypeInv, NEW o \in Ops, NEW m \in Mods, EnableBegin(o, m)
    PROVE  Promise!AskEnable(m)
<1> DEFINE c == [NoCall EXCEPT !.kind = "enable", !.phase = "survey", !.prof = cur,
                               !.target = m, !.todo = InChain(m) \ Active(cur)]
<1>1. /\ op[o].phase = "idle" /\ op'[o] = c /\ UNCHANGED <<game, at, cur>>
      /\ InChain(m) \ Active(cur) # {}
  BY DEF EnableBegin, lists, disk, TypeInv, TypeOK
<1>2. /\ c.kind = "enable" /\ c.phase = "survey" /\ c.prof = cur /\ c.target = m
      /\ c.todo = InChain(m) \ Active(cur)
  BY DEF NoCall
<1> HIDE DEF c
<1>3. JobOf(c) = [kind |-> "add", goal |-> m, profs |-> Twins(cur),
                  left |-> InChain(m) \ Active(cur), files |-> FilesOf(InChain(m))]
  BY <1>2, EnableJob
<1>4. Promise!Take("add", m, Twins(cur), InChain(m) \ Active(cur), FilesOf(InChain(m)))
  BY <1>1, <1>3, AskingTakes
<1> QED BY <1>1, <1>4 DEF Promise!AskEnable, Promise!InChain, InChain, Promise!Active, Active,
                          Promise!Twins, Twins, Promise!Profiles, Profiles,
                          Promise!FilesOf, FilesOf

\* disable_mod_in takes its mod.
LEMMA DisableAsks ==
    ASSUME Calm, TypeInv, NEW o \in Ops, NEW m \in Mods, DisableBegin(o, m)
    PROVE  Promise!AskDisable(m)
<1> DEFINE c == DisablePlan([NoCall EXCEPT !.kind = "disable", !.target = m], m)
<1>1. /\ op[o].phase = "idle" /\ op'[o] = c /\ UNCHANGED <<game, at, cur>>
      /\ m \in Active(cur)
  BY DEF DisableBegin, lists, disk, TypeInv, TypeOK
<1>2. c.kind = "disable" /\ c.phase = "wait" /\ c.mod = m
  BY DEF NoCall, DisablePlan
<1> HIDE DEF c
<1>3. Leaving(c) = {m}
  BY <1>2 DEF Leaving
<1>4. JobOf(c) = [kind |-> "remove", goal |-> Nothing, profs |-> Twins(cur), left |-> {m},
                  files |-> FilesOf({m})]
  BY <1>2, <1>3, RemovalJob
<1>5. Promise!Take("remove", Nothing, Twins(cur), {m}, FilesOf({m}))
  BY <1>1, <1>4, AskingTakes
<1> QED BY <1>1, <1>5 DEF Promise!AskDisable, Promise!Active, Active, Promise!Twins, Twins,
                          Promise!Profiles, Profiles, Promise!FilesOf, FilesOf

\* disable_mods_for_profiles takes the mods asked for that are active.
LEMMA BulkAsks ==
    ASSUME Calm, TypeInv, NEW o \in Ops, NEW g \in BulkGroups, NEW w \in SUBSET Mods,
           BulkBegin(o, g, w)
    PROVE  \E G \in SUBSET Profiles : Promise!AskDisableAll(G, w)
<1> DEFINE touched == {p \in g : Active(p) \cap w # {}}
           mine == [p \in Profiles |-> IF p \in touched THEN Active(p) \cap w ELSE {}]
           c == [NoCall EXCEPT !.kind = "bulk", !.phase = "next", !.group = touched,
                               !.tasks = touched, !.gone = w, !.mine = mine]
           S == {m \in w : \E p \in touched : m \in Active(p)}
<1>1. /\ op[o].phase = "idle" /\ op'[o] = c /\ UNCHANGED <<game, at, cur>>
      /\ touched # {} /\ touched \in SUBSET Profiles
  <2>1. op[o].phase = "idle" /\ op' = [op EXCEPT ![o] = c] /\ touched # {}
    BY DEF BulkBegin
  <2>2. UNCHANGED <<game, at, cur>>
    BY DEF BulkBegin, lists, disk
  <2>3. touched \in SUBSET Profiles
    BY Library_Assumption
  <2> HIDE DEF c, touched
  <2> QED BY <2>1, <2>2, <2>3 DEF TypeInv, TypeOK
<1>2. c.kind = "bulk" /\ c.phase = "next" /\ c.group = touched /\ c.mine = mine
  BY DEF NoCall
<1>3. S # {} /\ S = UNION {mine[p] : p \in touched}
  <2>1. \A p \in touched : mine[p] = {m \in w : m \in Active(p)} /\ mine[p] # {}
    BY <1>1 DEF Active
  <2> HIDE DEF touched, mine
  <2> QED BY <1>1, <2>1
<1> HIDE DEF c, mine
<1>4. Leaving(c) = S
  BY <1>2, <1>3 DEF Leaving
<1> HIDE DEF S
<1>5. JobOf(c) = [kind |-> "remove", goal |-> Nothing, profs |-> touched, left |-> S,
                  files |-> FilesOf(S)]
  BY <1>2, <1>4, RemovalJob
<1>6. Promise!Take("remove", Nothing, touched, S, FilesOf(S))
  BY <1>1, <1>5, AskingTakes
<1>7. Promise!AskDisableAll(touched, w)
  BY <1>3, <1>6 DEF Promise!AskDisableAll, S, Promise!Active, Active, Promise!FilesOf, FilesOf
<1> QED BY <1>1, <1>7

\* What a call does between its changes to the lists is none of the promise.
LEMMA CallIsQuiet ==
    ASSUME Calm, TypeInv, CalmInv, NEW o \in Ops,
           \/ EnableSurvey(o) \/ EnableStart(o) \/ DisableStart(o) \/ BulkStart(o)
           \/ \E m \in Mods : EnableNext(o, m)
           \/ \E p \in Profiles : BulkNext(o, p)
           \/ WorkerDone(o)
    PROVE  UNCHANGED Promise!vars
<1> DEFINE c == op[o]
           d == op'[o]
<1>1. c \in CallRecords /\ op \in [Ops -> CallRecords]
  BY DEF TypeInv, TypeOK
<1>2. SUFFICES /\ UNCHANGED <<at, cur>> /\ game' = game
               /\ JobOf(d) = JobOf(c)
  BY QuietStep
<1>3. CASE EnableSurvey(o)
  <2>1. /\ c.kind = "enable" /\ c.phase = "survey" /\ UNCHANGED <<at, cur, game>>
        /\ d = [c EXCEPT !.phase = "next", !.others = FilesOf(OnFolder)]
    BY <1>1, <1>3 DEF EnableSurvey, lists, disk
  <2>2. /\ d.kind = "enable" /\ d.phase = "next" /\ d.target = c.target /\ d.prof = c.prof
        /\ d.todo = c.todo
    BY <1>1, <2>1 DEF CallRecords
  <2> HIDE DEF c, d
  <2> QED BY <2>1, <2>2, EnableJob
<1>4. CASE EnableStart(o)
  <2>1. /\ c.kind = "enable" /\ c.phase = "wait" /\ UNCHANGED <<at, cur, game>>
        /\ d = [c EXCEPT !.phase = "work"]
    BY <1>1, <1>4 DEF EnableStart, lists, disk
  <2>2. /\ d.kind = "enable" /\ d.phase = "work" /\ d.target = c.target /\ d.prof = c.prof
        /\ d.todo = c.todo /\ d.mod = c.mod
    BY <1>1, <2>1 DEF CallRecords
  <2> HIDE DEF c, d
  <2> QED BY <2>1, <2>2, EnableJob
<1>5. CASE DisableStart(o) \/ BulkStart(o)
  <2>1. /\ c.kind # "enable" /\ c.phase = "wait" /\ UNCHANGED <<at, cur, game>>
        /\ d = [c EXCEPT !.phase = "work"]
    BY <1>1, <1>5 DEF DisableStart, BulkStart, lists, disk
  <2>2. /\ d.kind = c.kind /\ d.phase = "work" /\ d.group = c.group /\ d.mine = c.mine
        /\ d.mod = c.mod
    BY <1>1, <2>1 DEF CallRecords
  <2> HIDE DEF c, d
  <2>3. Leaving(d) = Leaving(c)
    BY <2>2 DEF Leaving
  <2> QED BY <2>1, <2>2, <2>3, RemovalJob
<1>6. ASSUME NEW m \in Mods, EnableNext(o, m)
      PROVE  UNCHANGED <<at, cur>> /\ game' = game /\ JobOf(d) = JobOf(c)
  <2>1. /\ c.kind = "enable" /\ c.phase = "next" /\ UNCHANGED <<at, cur, game>>
        /\ d = [c EXCEPT !.phase = "wait", !.mod = m, !.todo = c.todo \ {m}] /\ m \in c.todo
    BY <1>1, <1>6 DEF EnableNext, FirstOf, lists, disk
  <2>2. /\ d.kind = "enable" /\ d.phase = "wait" /\ d.target = c.target /\ d.prof = c.prof
        /\ d.todo = c.todo \ {m} /\ d.mod = m
    BY <1>1, <2>1 DEF CallRecords
  <2> HIDE DEF c, d
  <2>3. d.todo \cup {d.mod} = c.todo
    BY <2>1, <2>2
  <2> QED BY <2>1, <2>2, <2>3, EnableJob
<1>7. ASSUME NEW p \in Profiles, BulkNext(o, p)
      PROVE  UNCHANGED <<at, cur>> /\ game' = game /\ JobOf(d) = JobOf(c)
  <2>1. /\ c.kind = "bulk" /\ c.phase = "next" /\ UNCHANGED <<at, cur, game>>
    BY <1>1, <1>7 DEF BulkNext, lists, disk
  <2> DEFINE files == FilesOf(c.mine[p])
             under == [f \in Files |-> IF f \in files THEN BatchFallback(c.mine[p], f)
                                                      ELSE Nothing]
  <2>2. d = [c EXCEPT !.phase = "wait", !.prof = p, !.tasks = c.tasks \ {p},
                      !.files = files, !.under = under]
    BY <1>1, <1>7 DEF BulkNext
  <2> HIDE DEF files, under
  <2>3. d.kind = "bulk" /\ d.phase = "wait" /\ d.group = c.group /\ d.mine = c.mine
    BY <1>1, <2>1, <2>2 DEF CallRecords
  <2> HIDE DEF c, d
  <2>4. Leaving(d) = Leaving(c)
    BY <2>1, <2>3 DEF Leaving
  <2> QED BY <2>1, <2>3, <2>4, RemovalJob
<1>8. CASE WorkerDone(o)
  <2>1. /\ UNCHANGED <<at, cur, game>> /\ ~worker.undo
        /\ \/ d = [c EXCEPT !.phase = "next"] /\ c.kind = "bulk"
           \/ d = [c EXCEPT !.phase = "record"] /\ c.kind # "bulk"
    BY <1>1, <1>8 DEF WorkerDone, lists, disk, CalmInv, Unstopped
  <2>2. c.phase = "work"
    BY <1>8, Library_Assumption DEF WorkerDone, TypeInv, WorkerHasCall
  <2>3. /\ d.kind = c.kind /\ d.phase \in {"next", "record"} /\ d.group = c.group
        /\ d.mine = c.mine /\ d.mod = c.mod /\ d.target = c.target /\ d.prof = c.prof
        /\ d.todo = c.todo /\ (c.kind # "bulk" => d.phase = "record")
    BY <1>1, <2>1 DEF CallRecords
  <2> HIDE DEF c, d
  <2>4. Leaving(d) = Leaving(c)
    BY <2>3 DEF Leaving
  <2>5. CASE c.kind = "enable"
    BY <2>1, <2>2, <2>3, <2>5, EnableJob
  <2>6. CASE c.kind # "enable"
    BY <2>1, <2>2, <2>3, <2>4, <2>6, RemovalJob
  <2> QED BY <2>1, <2>5, <2>6
<1> QED BY <1>3, <1>4, <1>5, <1>6, <1>7, <1>8

\* A step that changes what is left of the call's job and no file: the same job for the
\* promise, with that left.
LEMMA JobGoesOn ==
    ASSUME Calm, NEW o \in Ops, UNCHANGED <<game, cur>>, NEW left,
           JobOf(op'[o]) = [JobOf(op[o]) EXCEPT !.left = left],
           JobOf(op'[o]).files = JobOf(op[o]).files
    PROVE  /\ Job = JobOf(op[o]) /\ Job' = [Job EXCEPT !.left = left]
           /\ UNCHANGED <<cur, Shown>>
<1>1. Job = JobOf(op[o]) /\ Job' = JobOf(op'[o])
  BY JobNow
<1>2. Shown' = Shown
  BY <1>1 DEF Shown
<1> QED BY <1>1, <1>2

\* An enable that is refused the next mod, or whose copy failed, gives up the rest.
LEMMA EnableGivesUp ==
    ASSUME Calm, TypeInv, CalmInv, NEW o \in Ops, EnableLeave(o) \/ WorkerErr(o)
    PROVE  Promise!GiveUp
<1> DEFINE c == op[o]
           d == op'[o]
<1>1. c \in CallRecords /\ op \in [Ops -> CallRecords] /\ UNCHANGED <<game, at, cur>>
  BY DEF TypeInv, TypeOK, EnableLeave, WorkerErr, lists, disk
<1>2. /\ c.kind = "enable" /\ c.phase # "idle"
      /\ d = [c EXCEPT !.phase = "save"] \/ d = [c EXCEPT !.phase = "save", !.mod = Nothing]
  <2>1. CASE EnableLeave(o)
    BY <1>1, <2>1 DEF EnableLeave
  <2>2. CASE WorkerErr(o)
    <3>1. worker.by = o /\ c.phase = "work"
      BY <2>2, Library_Assumption DEF WorkerErr, TypeInv, WorkerHasCall
    <3>2. worker.task # "unapply"
      BY <2>2, RemovalKnows DEF WorkerErr, NoneFailed, Removed
    <3>3. worker.task = "rollback"
      BY <2>2, <3>2 DEF WorkerErr
    <3>4. c.kind = "enable"
      BY <3>1, <3>3 DEF CalmInv, WorkerKnows
    <3>5. d = AfterStop(c)
      BY <1>1, <2>2, <3>4 DEF WorkerErr
    <3> QED BY <3>1, <3>4, <3>5 DEF AfterStop
  <2> QED BY <2>1, <2>2
<1>3. d.kind = "enable" /\ d.phase = "save" /\ d.target = c.target /\ d.prof = c.prof
  BY <1>1, <1>2 DEF CallRecords
<1> HIDE DEF c, d
<1>4. /\ JobOf(c).kind = "add" /\ JobOf(d) = [JobOf(c) EXCEPT !.left = {}]
      /\ JobOf(d).files = JobOf(c).files
  BY <1>2, <1>3, EnableJob
<1>5. Job = JobOf(c) /\ Job' = [Job EXCEPT !.left = {}] /\ UNCHANGED <<cur, Shown>>
  BY <1>1, <1>4, JobGoesOn DEF c, d
<1> QED BY <1>1, <1>4, <1>5 DEF Promise!GiveUp

\* An enable puts the first mod that is left at the end of its profile's list and of its
\* twins'.
LEMMA EnableAdds ==
    ASSUME Calm, CalmUse, NEW o \in Ops, EnableRecord(o)
    PROVE  \E m \in Mods : Promise!Add(m)
<1> DEFINE c == op[o]
           m == op[o].mod
           d == op'[o]
<1>1. /\ c \in CallRecords /\ op \in [Ops -> CallRecords] /\ UNCHANGED <<game, cur>>
      /\ c.kind = "enable" /\ c.phase = "record" /\ TypeInv
      /\ d = [c EXCEPT !.phase = "next", !.others = @ \cup Ships[m], !.mod = Nothing]
      /\ m \in Mods /\ c.prof \in Profiles
  BY DEF CalmUse, TypeInv, TypeOK, CallHasMod, CallRecords, EnableRecord, disk
<1>2. /\ \A q \in Profiles \ {c.prof} : m \notin Active(q)
      /\ m \notin Active(c.prof) /\ m \notin c.todo
  BY <1>1 DEF CalmUse, CalmInv, CallsKnow, EnableKnows, DiskInv, EnableFresh
<1>3. /\ c.target \in Mods
      /\ \E i \in DOMAIN Chain[c.target] :
            /\ Chain[c.target][i] = m
            /\ \A j \in 1 .. i - 1 : Chain[c.target][j] \notin c.todo \cup {m}
  BY <1>1 DEF CalmUse, ChainInv, InOrder
<1>4. \A p \in Profiles :
         /\ at[p] \in [Mods -> Ranks] /\ Compact(at[p]) /\ at[p][m] = 0
         /\ at'[p] = IF p \in Twins(c.prof) THEN Pushed(at[p], m) ELSE at[p]
  <2>1. /\ at \in [Profiles -> [Mods -> Ranks]]
        /\ \A p \in Profiles : Compact(at[p]) /\ ~(at[p][m] > 0)
    BY <1>1, <1>2 DEF CalmUse, TypeInv, TypeOK, DiskInv, ListsCompact, Active
  <2>2. \A p \in Profiles : at[p][m] \in Nat
    BY <1>1, <2>1, ModsCount DEF Ranks
  <2>3. \A p \in Profiles : at'[p] = IF p \in Twins(c.prof) THEN Pushed(at[p], m) ELSE at[p]
    BY DEF EnableRecord
  <2> HIDE DEF c, d, m
  <2> QED BY <2>1, <2>2, <2>3
<1>5. /\ d.kind = "enable" /\ d.phase = "next" /\ d.target = c.target /\ d.prof = c.prof
      /\ d.todo = c.todo
  BY <1>1 DEF CallRecords
<1>6. c.mod = m
  OBVIOUS
<1> HIDE DEF c, d, m
<1>7. m \notin OnFolder
  BY <1>2 DEF OnFolder
<1>8. JobOf(c) = [kind |-> "add", goal |-> c.target, profs |-> Twins(c.prof),
                  left |-> c.todo \cup {m}, files |-> FilesOf(InChain(c.target))]
  BY <1>1, <1>6, EnableJob
<1>9. JobOf(d) = [kind |-> "add", goal |-> c.target, profs |-> Twins(c.prof),
                  left |-> c.todo, files |-> FilesOf(InChain(c.target))]
  BY <1>5, EnableJob
<1>10. /\ JobOf(d) = [JobOf(c) EXCEPT !.left = JobOf(c).left \ {m}]
       /\ JobOf(d).files = JobOf(c).files
  BY <1>2, <1>8, <1>9
<1>11. Job = JobOf(c) /\ Job' = [Job EXCEPT !.left = Job.left \ {m}] /\ UNCHANGED <<cur, Shown>>
  BY <1>1, <1>10, JobGoesOn DEF c, d
<1>12. \A p \in Profiles : IF p \in Job.profs THEN Promise!IsAdded(at[p], at'[p], m)
                                              ELSE at'[p] = at[p]
  BY <1>1, <1>4, <1>8, <1>11, PushedAdds
<1>13. /\ Job.kind = "add" /\ m \in Job.left /\ m \notin OnFolder
       /\ \E i \in DOMAIN Chain[Job.goal] :
             /\ Chain[Job.goal][i] = m
             /\ \A j \in 1 .. i - 1 : Chain[Job.goal][j] \notin Job.left
  BY <1>3, <1>7, <1>8, <1>11
<1>14. Promise!Add(m)
  BY <1>11, <1>12, <1>13 DEF Promise!Add, Promise!OnFolder, OnFolder, Promise!Active, Active,
                            Promise!Profiles, Profiles
<1> QED BY <1>1, <1>14

\* A removal takes its mods from the lists, for twins alike.
LEMMA RemovalRemoves ==
    ASSUME Calm, CalmUse, NEW o \in Ops, DisableRecord(o) \/ BulkRecord(o)
    PROVE  Promise!Remove
<1> DEFINE c == op[o]
           d == op'[o]
<1>1. /\ c \in CallRecords /\ op \in [Ops -> CallRecords] /\ UNCHANGED <<game, cur>>
      /\ d = [c EXCEPT !.phase = "save"] /\ TypeInv /\ DisableKnows(c) /\ BulkKnows(c)
      /\ at \in [Profiles -> [Mods -> Ranks]]
  BY DEF CalmUse, TypeInv, TypeOK, CalmInv, CallsKnow, DisableRecord, BulkRecord, disk
<1>2. d.kind = c.kind /\ d.phase = "save" /\ d.group = c.group /\ d.mine = c.mine /\ d.mod = c.mod
  BY <1>1 DEF CallRecords
<1>3. /\ c.kind \in {"disable", "bulk"} /\ c.phase \notin {"idle", "save"}
      /\ \/ /\ c.kind = "disable" /\ c.phase = "record"
            /\ \A p \in Profiles : at'[p] = IF p \in Twins(cur) THEN Retained(at[p], {c.mod})
                                                                ELSE at[p]
         \/ /\ c.kind = "bulk" /\ c.phase = "next"
            /\ \A p \in Profiles : at'[p] = IF p \in c.group THEN Retained(at[p], c.gone)
                                                             ELSE at[p]
  BY DEF DisableRecord, BulkRecord
<1> HIDE DEF c, d
<1> DEFINE profs == IF c.kind = "bulk" THEN c.group ELSE Twins(cur)
           left == Leaving(c)
<1>4. JobOf(c) = [kind |-> "remove", goal |-> Nothing, profs |-> profs, left |-> left,
                  files |-> FilesOf(left)]
  BY <1>3, RemovalJob
<1>5. Leaving(d) = left
  BY <1>2 DEF Leaving
<1>6. JobOf(d) = [kind |-> "remove", goal |-> Nothing, profs |-> profs, left |-> {},
                  files |-> FilesOf(left)]
  BY <1>2, <1>3, <1>5, RemovalJob
<1>7. /\ left # {}
      /\ \A p \in Profiles : IF p \in profs THEN Promise!IsThinned(at[p], at'[p], left)
                                            ELSE at'[p] = at[p]
  <2>1. CASE c.kind = "disable"
    <3>1. left = {c.mod} /\ profs = Twins(cur)
      BY <2>1 DEF Leaving
    <3> QED BY <1>1, <1>3, <2>1, <3>1, RetainedThins
  <2>2. CASE c.kind = "bulk"
    <3>1. PICK p \in Profiles : /\ c.group = {p} /\ c.mine[p] = Active(p) \cap c.gone
                                /\ c.mine[p] # {}
      BY <1>1, <1>3, <2>2 DEF BulkKnows
    <3>2. profs = {p} /\ left = Active(p) \cap c.gone /\ left # {}
      BY <2>2, <3>1 DEF Leaving
    <3>3. \A n \in Mods : at[p][n] > 0 => (n \in left <=> n \in c.gone)
      BY <3>2 DEF Active
    <3>4. Promise!IsThinned(at[p], at'[p], left)
      <4>1. at'[p] = Retained(at[p], c.gone) /\ at[p] \in [Mods -> Ranks]
        BY <1>1, <1>3, <2>2, <3>1
      <4> HIDE DEF left
      <4> QED BY <3>3, <4>1, RetainedThins
    <3> HIDE DEF left, profs
    <3> QED BY <1>3, <2>2, <3>1, <3>2, <3>4
  <2> QED BY <1>3, <2>1, <2>2
<1> HIDE DEF left, profs
<1>8. JobOf(d) = [JobOf(c) EXCEPT !.left = {}] /\ JobOf(d).files = JobOf(c).files
  BY <1>4, <1>6
<1>9. Job = JobOf(c) /\ Job' = [Job EXCEPT !.left = {}] /\ UNCHANGED <<cur, Shown>>
  BY <1>1, <1>8, JobGoesOn DEF c, d
<1> QED BY <1>4, <1>7, <1>9 DEF Promise!Remove, Promise!Profiles, Profiles

\* A save ends the call: its files show again, each as the lists ask.
LEMMA SaveEnds ==
    ASSUME Calm, CalmUse, NEW o \in Ops, Save(o)
    PROVE  Promise!End
<1> DEFINE c == op[o]
<1>1. /\ c.phase = "save" /\ op'[o] = NoCall /\ UNCHANGED <<game, at, cur>>
      /\ TypeInv /\ CalmInv /\ DiskInv /\ at \in [Profiles -> [Mods -> Ranks]]
  BY DEF Save, disk, CalmUse, TypeInv, TypeOK
<1>2. JobOf(c).kind \in {"add", "remove"} /\ JobOf(c).left = {}
  <2> HIDE DEF c
  <2>1. CASE c.kind = "enable"
    BY <1>1, <2>1, EnableJob
  <2>2. CASE c.kind # "enable"
    BY <1>1, <2>2, RemovalJob
  <2> QED BY <2>1, <2>2
<1>3. Job = JobOf(c) /\ Job' = NoJob /\ Promise!NoJob = NoJob
  BY <1>1, JobNow DEF NoCall, JobOf
<1>4. Job # NoJob /\ Job.left = {} /\ Job'.files = {}
  BY <1>2, <1>3 DEF NoJob
<1>5. \A f \in Files : Shown'[f] = game[f]
  BY <1>1, <1>4 DEF Shown
<1>6. ASSUME NEW f \in Files
      PROVE  Promise!AskedFor(f, game[f])
  <2> DEFINE S == Providing(OnFolder, f)
  <2>1. Settled(OnFolder, f) /\ Follows(OnFolder, f)
    <3>1. Taken(c) = {} /\ Put(c) = {} /\ OnDisk = OnFolder /\ OnFolder \ Taken(c) = OnFolder
      BY <1>1, OneCall DEF Taken, Put
    <3>2. Landed(c, f) /\ Settled(OnDisk, f)
      BY <1>1, NoWorkerNow DEF DiskInv, FilesFollow
    <3> QED BY <3>1, <3>2, LandedPlainly
  <2>2. S = {m \in OnFolder : f \in Ships[m]} /\ S \in SUBSET Mods
    <3>1. OnFolder \in SUBSET Mods
      BY DEF OnFolder, Active
    <3> QED BY <3>1 DEF Providing
  <2>3. S = {} <=> f \notin FilesOf(OnFolder)
    BY <2>2, FileOfMod
  <2>4. S = {} => game[f] = Pristine(f)
    BY <2>1, <2>3 DEF Settled
  <2>5. ASSUME S # {}
        PROVE  /\ game[f] \in S
               /\ \A p \in Profiles : S \subseteq Active(p) => \A n \in S : at[p][n] <= at[p][game[f]]
    <3>1. RightCopy(at, OnFolder, f, game[f])
      BY <2>1, <2>3, <2>5 DEF Follows
    <3>2. game[f] \in S
      BY <3>1 DEF RightCopy
    <3>3. ASSUME NEW p \in Profiles, S \subseteq Active(p)
          PROVE  \A n \in S : at[p][n] <= at[p][game[f]]
      <4>1. game[f] = LastOf(at[p], S)
        BY <3>1, <3>3 DEF RightCopy, Active
      <4>2. at[p] \in [Mods -> 0 .. Cardinality(Mods)]
        BY <1>1 DEF Ranks
      <4> HIDE DEF S
      <4> QED BY <2>2, <2>5, <4>1, <4>2, ModsCount, LastOfExists
    <3> QED BY <3>2, <3>3
  <2> QED BY <2>2, <2>4, <2>5 DEF Promise!AskedFor, Pristine, Promise!OnFolder, OnFolder,
                                  Promise!Active, Active, Promise!Profiles, Profiles
<1>7. \A f \in Files : IF f \in Job.files THEN Promise!AskedFor(f, Shown'[f])
                                          ELSE Shown'[f] = Shown[f]
  BY <1>5, <1>6 DEF Shown
<1> QED BY <1>1, <1>3, <1>4, <1>7 DEF Promise!End

\* The active profile changes between calls.
LEMMA SwitchSwitches ==
    ASSUME Calm, NEW p \in Profiles, SwitchProfile(p)
    PROVE  Promise!Switch(p)
<1>1. PICK o \in Ops : TRUE
  BY Library_Assumption
<1>2. op[o].phase = "idle" /\ cur' = p /\ UNCHANGED <<game, at, op>>
  BY DEF SwitchProfile, Calm, disk
<1>3. (CHOOSE q \in Ops : TRUE) = o
  BY <1>1 DEF Calm
<1>4. Job = NoJob /\ Job' = NoJob
  BY <1>2, <1>3 DEF Job, JobOf
<1>5. Shown' = Shown
  BY <1>2, <1>4 DEF Shown
<1> QED BY <1>1, <1>2, <1>4, <1>5, JobNow DEF Promise!Switch

----------------------------------------------------------------------------
(* The promise: it is kept *)

\* At the start nothing is active and everything shows.
LEMMA PromiseInit ==
    ASSUME Calm, Init
    PROVE  Promise!Init
<1>1. PICK o \in Ops : TRUE
  BY Library_Assumption
<1>2. op[o] = NoCall
  BY DEF Init
<1>3. Job = NoJob /\ Promise!NoJob = NoJob
  BY <1>2, JobNow DEF NoCall, JobOf
<1>4. Shown = [f \in Files |-> IF f \in Originals THEN Orig ELSE Nothing]
  BY <1>3 DEF Init, Shown, NoJob
<1> QED BY <1>3, <1>4 DEF Init, Promise!Init, Promise!Profiles, Profiles

\* A step of calm use is one of the promise's or changes nothing of it.
LEMMA PromiseStep ==
    ASSUME Calm, CalmUse, [Next]_vars
    PROVE  [Promise!Next]_(Promise!vars)
<1>0. TypeInv /\ CalmInv /\ ChainInv
  BY DEF CalmUse
<1>1. ASSUME NEW o \in Ops, Call(o)
      PROVE  Promise!Next
  <2>1. ASSUME NEW m \in Mods, EnableBegin(o, m) PROVE Promise!Next
    BY <1>0, <2>1, EnableAsks DEF Promise!Next
  <2>2. ASSUME NEW m \in Mods, DisableBegin(o, m) PROVE Promise!Next
    BY <1>0, <2>2, DisableAsks DEF Promise!Next
  <2>3. ASSUME NEW g \in BulkGroups, NEW w \in SUBSET Mods, BulkBegin(o, g, w)
        PROVE  Promise!Next
    <3>1. \E G \in SUBSET Profiles : Promise!AskDisableAll(G, w)
      BY <1>0, <2>3, BulkAsks
    <3> QED BY <3>1 DEF Promise!Next, Promise!Profiles, Profiles
  <2> QED BY <1>1, <2>1, <2>2, <2>3 DEF Call
<1>2. ASSUME NEW o \in Ops, Step(o)
      PROVE  Promise!Next \/ UNCHANGED Promise!vars
  <2>1. CASE \/ EnableSurvey(o) \/ EnableStart(o) \/ DisableStart(o) \/ BulkStart(o)
             \/ \E m \in Mods : EnableNext(o, m)
             \/ \E p \in Profiles : BulkNext(o, p)
             \/ WorkerDone(o)
    BY <1>0, <2>1, CallIsQuiet
  <2>2. CASE EnableLeave(o) \/ WorkerErr(o)
    BY <1>0, <2>2, EnableGivesUp DEF Promise!Next
  <2>3. CASE EnableRecord(o)
    BY <2>3, EnableAdds DEF Promise!Next
  <2>4. CASE DisableRecord(o) \/ BulkRecord(o)
    BY <2>4, RemovalRemoves DEF Promise!Next
  <2>5. CASE Save(o)
    BY <2>5, SaveEnds DEF Promise!Next
  <2>6. CASE LeaveQueue(o) \/ KillAndUndo(o) \/ StopBulk(o)
    BY <1>0, <2>6, NotInCalm
  <2> QED BY <1>2, <2>1, <2>2, <2>3, <2>4, <2>5, <2>6 DEF Step
<1>3. CASE WorkerStep
  BY <1>0, <1>3, WorkerIsQuiet
<1>4. CASE Mishap
  BY <1>0, <1>4, NotInCalm, WorkerIsQuiet DEF Mishap
<1>5. ASSUME NEW p \in Profiles, SwitchProfile(p)
      PROVE  Promise!Next
  <2>1. Promise!Switch(p)
    BY <1>5, SwitchSwitches
  <2> QED BY <2>1 DEF Promise!Next, Promise!Profiles, Profiles
<1>6. CASE \E m \in Mods : ApiEnable(m) \/ ApiDisable(m)
  BY <1>0, <1>6, NotInCalm
<1>7. CASE UNCHANGED vars
  BY <1>7 DEF vars, Promise!vars, Job, Shown, JobOf
<1> QED BY <1>1, <1>2, <1>3, <1>4, <1>5, <1>6, <1>7 DEF Next

\* With one call at a time activation keeps the promise of DeployPromise, for every library
\* and every number of profiles.
THEOREM PromiseIsKept ==
    ASSUME Calm
    PROVE  Spec => KeepsPromise
<1>1. Init => Promise!Init
  BY PromiseInit
<1>2. CalmUse /\ [Next]_vars => [Promise!Next]_(Promise!vars)
  BY PromiseStep
<1> QED BY <1>1, <1>2, CalmUseStaysRight, PTL DEF Spec, KeepsPromise, Promise!Spec

============================================================================
