--------------------------- MODULE SettingsProofs ---------------------------
(***************************************************************************)
(* Proofs about SettingsManager (Settings.tla): the state is well typed,   *)
(* and a setting whose set() returned is lost only once load() has fallen  *)
(* back on a corrupt file, for every set of keys and values, every bound   *)
(* on the set() calls and whether or not a crash may cut write_text.      *)
(***************************************************************************)
EXTENDS Settings, FiniteSetTheorems, TLAPS

(* The acked table as WriteDone leaves it, for the set() calls p under way. *)
AckedOf(a, p) ==
    [k \in Keys |-> IF \E v \in Values : <<k, v>> \in p
                    THEN CHOOSE v \in Values : <<k, v>> \in p
                    ELSE a[k]]

AckedAfter == AckedOf(acked, pending)

(* The running process's dict holds every setting that has, or is about *)
(* to have, returned.                                                    *)
DataAgrees ==
    \A k \in Keys : AckedAfter[k] # Absent => data[k] = AckedAfter[k]

(* No save under way, or the save of one set() call. *)
PendingOne(p) == p = {} \/ \E k \in Keys, v \in Values : p = {<<k, v>>}

(***************************************************************************)
(* The inductive invariant.  The file is missing only before any set(); a *)
(* save is pending only while write_text runs, and only a loaded process   *)
(* writes; until a fallback, a live loaded process's dict agrees with what *)
(* set() returned, so the dict WriteDone writes keeps every setting.       *)
(***************************************************************************)
IInv ==
    /\ TypeOK
    /\ PendingOne(pending)
    /\ file = "missing" => acked = EmptyDict
    /\ pc # "writing" => pending = {}
    /\ pc = "writing" => loaded
    /\ ~fellBack => SettingsDurable
    /\ ~fellBack /\ loaded /\ pc # "down" => DataAgrees

-----------------------------------------------------------------------------
(* No set() under way: WriteDone records nothing new. *)
LEMMA AckedNone ==
  ASSUME NEW a \in Dicts
  PROVE  AckedOf(a, {}) = a
  BY DEF AckedOf, Dicts

(* One set(k0, v0) under way: WriteDone records v0 for k0 and only that. *)
LEMMA AckedOne ==
  ASSUME NEW a \in Dicts, NEW k0 \in Keys, NEW v0 \in Values
  PROVE  /\ AckedOf(a, {<<k0, v0>>}) \in Dicts
         /\ AckedOf(a, {<<k0, v0>>})[k0] = v0
         /\ \A k \in Keys \ {k0} : AckedOf(a, {<<k0, v0>>})[k] = a[k]
  <1> DEFINE p == {<<k0, v0>>}
  <1>1. AckedOf(a, p)[k0] = v0
    <2>1. \E v \in Values : <<k0, v>> \in p
      OBVIOUS
    <2>2. (CHOOSE v \in Values : <<k0, v>> \in p) = v0
      BY Zenon
    <2> QED
      BY <2>1, <2>2, Zenon DEF AckedOf
  <1>2. ASSUME NEW k \in Keys \ {k0} PROVE AckedOf(a, p)[k] = a[k]
    <2>1. ~\E v \in Values : <<k, v>> \in p
      OBVIOUS
    <2> QED
      BY <2>1, Zenon DEF AckedOf
  <1>3. AckedOf(a, p) \in Dicts
    <2>1. \A k \in Keys : AckedOf(a, p)[k] \in Values \cup {Absent}
      BY <1>1, <1>2 DEF Dicts
    <2> QED
      BY <2>1 DEF AckedOf, Dicts
  <1> QED
    BY <1>1, <1>2, <1>3

(* A save of one set() is a pending set of at most one call. *)
LEMMA PendingType ==
  ASSUME NEW p, PendingOne(p)
  PROVE  p \in SUBSET (Keys \X Values) /\ Cardinality(p) <= 1
  <1>1. CASE p = {}
    BY <1>1, FS_EmptySet
  <1>2. CASE p # {}
    <2>1. PICK k \in Keys, v \in Values : p = {<<k, v>>}
      BY <1>2 DEF PendingOne
    <2>2. Cardinality(p) = 1
      BY <2>1, FS_Singleton
    <2> QED
      BY <2>1, <2>2
  <1> QED
    BY <1>1, <1>2

LEMMA DefaultsType == Defaults \in Dicts /\ EmptyDict \in Dicts
  BY SettingsAssumption DEF Defaults, EmptyDict, Dicts

-----------------------------------------------------------------------------
LEMMA InitIInv == Init => IInv
  <1> SUFFICES ASSUME Init PROVE IInv
    OBVIOUS
  <1>1. PendingOne(pending)
    BY DEF Init, PendingOne
  <1>2. TypeOK
    <2>1. pending \in SUBSET (Keys \X Values) /\ Cardinality(pending) <= 1
      BY <1>1, PendingType
    <2>2. MaxSets \in Nat
      BY SettingsAssumption
    <2>3. sets \in 0..MaxSets
      BY <2>2 DEF Init
    <2>4. fileDict \in Dicts /\ data \in Dicts /\ acked \in Dicts
      BY DefaultsType DEF Init
    <2> QED
      BY <2>1, <2>3, <2>4 DEF Init, TypeOK
  <1>3. AckedAfter = EmptyDict
    BY DefaultsType, AckedNone DEF Init, AckedAfter
  <1> QED
    BY <1>1, <1>2, <1>3 DEF Init, IInv, SettingsDurable, DataAgrees, EmptyDict

(* Each step of the process keeps the invariant. *)
LEMMA NextIInv == IInv /\ [Next]_vars => IInv'
  <1> SUFFICES ASSUME IInv, [Next]_vars PROVE IInv'
    OBVIOUS
  <1>0. TypeOK /\ PendingOne(pending)
    BY DEF IInv
  <1>1. CASE Load
    <2>1. pending = {} /\ pending' = {} /\ AckedAfter' = acked'
      <3>1. pending = {} /\ pending' = {} /\ acked' \in Dicts
        BY <1>0, <1>1 DEF IInv, Load, TypeOK
      <3> QED
        BY <3>1, AckedNone DEF AckedAfter
    <2>2. CASE file = "missing" /\ data' = Defaults /\ BeginSave /\ UNCHANGED fellBack
      <3>1. acked' = EmptyDict
        BY <1>1, <2>2 DEF IInv, Load
      <3>2. DataAgrees'
        BY <2>1, <3>1 DEF DataAgrees, EmptyDict
      <3>3. TypeOK'
        BY <1>0, <1>1, <2>2, DefaultsType DEF TypeOK, Load, BeginSave
      <3> QED
        BY <1>1, <2>1, <2>2, <3>2, <3>3 DEF IInv, Load, BeginSave, SettingsDurable, PendingOne
    <2>3. CASE file = "corrupt" /\ data' = Defaults /\ fellBack' = TRUE
               /\ UNCHANGED <<file, fileDict, pc>>
      <3>1. TypeOK'
        BY <1>0, <1>1, <2>3, DefaultsType DEF TypeOK, Load
      <3> QED
        BY <1>1, <2>1, <2>3, <3>1 DEF IInv, Load, PendingOne
    <2>4. CASE file = "json" /\ data' = fileDict /\ UNCHANGED <<file, fileDict, pc, fellBack>>
      <3>1. ~fellBack' => DataAgrees'
        BY <1>1, <2>1, <2>4 DEF IInv, Load, SettingsDurable, DataAgrees
      <3>2. TypeOK'
        BY <1>0, <1>1, <2>4 DEF TypeOK, Load
      <3> QED
        BY <1>1, <2>1, <2>4, <3>1, <3>2 DEF IInv, Load, SettingsDurable, PendingOne
    <2> QED
      BY <1>1, <2>2, <2>3, <2>4 DEF Load
  <1>2. ASSUME NEW k \in Keys, NEW v \in Values, Set(k, v) PROVE IInv'
    <2>1. pending = {} /\ pending' = {<<k, v>>}
      BY <1>2 DEF IInv, Set
    <2>2. /\ AckedAfter' \in Dicts
          /\ AckedAfter'[k] = v
          /\ \A k2 \in Keys \ {k} : AckedAfter'[k2] = acked[k2]
      <3>1. acked' = acked /\ acked \in Dicts
        BY <1>0, <1>2 DEF Set, TypeOK
      <3> QED
        BY <2>1, <3>1, AckedOne DEF AckedAfter
    <2>3. ~fellBack' => DataAgrees'
      <3>1. SUFFICES ASSUME ~fellBack', NEW k2 \in Keys, AckedAfter'[k2] # Absent
                     PROVE  data'[k2] = AckedAfter'[k2]
        BY DEF DataAgrees
      <3>2. CASE k2 = k
        BY <1>0, <1>2, <2>2, <3>2 DEF Set, TypeOK, Dicts
      <3>3. CASE k2 # k
        <4>1. DataAgrees /\ AckedAfter = acked
          <5>1. DataAgrees
            BY <1>2, <3>1 DEF IInv, Set
          <5>2. AckedAfter = acked
            BY <1>0, <2>1, AckedNone DEF AckedAfter, TypeOK
          <5> QED
            BY <5>1, <5>2
        <4>2. acked[k2] # Absent
          BY <2>2, <3>1, <3>3
        <4>3. data[k2] = acked[k2]
          BY <4>1, <4>2 DEF DataAgrees
        <4> QED
          BY <1>0, <1>2, <2>2, <3>3, <4>3 DEF Set, TypeOK, Dicts
      <3> QED
        BY <3>2, <3>3
    <2>4. PendingOne(pending')
      BY <2>1 DEF PendingOne
    <2>5. TypeOK'
      <3>1. pending' \in SUBSET (Keys \X Values) /\ Cardinality(pending') <= 1
        BY <2>4, PendingType
      <3>2. sets' \in 0..MaxSets
        BY <1>0, <1>2, SettingsAssumption DEF Set, TypeOK
      <3>3. data' \in Dicts
        BY <1>0, <1>2 DEF Set, TypeOK, Dicts
      <3> QED
        BY <1>0, <1>2, <3>1, <3>2, <3>3 DEF Set, BeginSave, TypeOK
    <2> QED
      BY <1>2, <2>3, <2>4, <2>5 DEF IInv, Set, BeginSave, SettingsDurable
  <1>3. CASE WriteDone
    <2>1. loaded /\ pc # "down" /\ pending' = {} /\ acked' = AckedAfter
      BY <1>3 DEF IInv, WriteDone, AckedAfter, AckedOf
    <2>2. AckedAfter \in Dicts
      <3>1. CASE pending = {}
        BY <1>0, <3>1, AckedNone DEF TypeOK, AckedAfter
      <3>2. CASE pending # {}
        <4>1. PICK k0 \in Keys, v0 \in Values : pending = {<<k0, v0>>}
          BY <1>0, <3>2 DEF PendingOne
        <4> QED
          BY <1>0, <4>1, AckedOne DEF TypeOK, AckedAfter
      <3> QED
        BY <3>1, <3>2
    <2>3. AckedAfter' = acked'
      BY <2>1, <2>2, AckedNone DEF AckedAfter
    <2>4. ~fellBack => DataAgrees
      BY <1>3, <2>1 DEF IInv, WriteDone
    <2>5. ~fellBack' => SettingsDurable' /\ DataAgrees'
      BY <1>3, <2>1, <2>3, <2>4 DEF WriteDone, SettingsDurable, DataAgrees
    <2>6. PendingOne(pending')
      BY <2>1 DEF PendingOne
    <2>7. TypeOK'
      <3>1. pending' \in SUBSET (Keys \X Values) /\ Cardinality(pending') <= 1
        BY <2>6, PendingType
      <3>2. data \in Dicts /\ sets \in 0..MaxSets /\ fellBack \in BOOLEAN /\ loaded \in BOOLEAN
        BY <1>0 DEF TypeOK
      <3> QED
        BY <1>3, <2>1, <2>2, <3>1, <3>2 DEF TypeOK, WriteDone
    <2> QED
      BY <1>3, <2>1, <2>5, <2>6, <2>7 DEF IInv, WriteDone
  <1>4. CASE Crash
    <2>1. PendingOne(pending')
      BY <1>4 DEF Crash, PendingOne
    <2>2. TypeOK'
      BY <1>0, <1>4, <2>1, PendingType DEF TypeOK, Crash
    <2> QED
      BY <1>4, <2>1, <2>2 DEF IInv, Crash, SettingsDurable
  <1>5. CASE Restart
    <2>1. TypeOK'
      BY <1>0, <1>5, DefaultsType DEF TypeOK, Restart
    <2> QED
      BY <1>5, <2>1 DEF IInv, Restart, SettingsDurable
  <1>6. CASE UNCHANGED vars
    BY <1>6 DEF vars, IInv, TypeOK, SettingsDurable, DataAgrees, AckedAfter, PendingOne
  <1> QED
    BY <1>1, <1>2, <1>3, <1>4, <1>5, <1>6 DEF Next

-----------------------------------------------------------------------------
(* Every reachable state of SettingsManager is well typed. *)
THEOREM SettingsTypeCorrect == Spec => []TypeOK
  <1>1. IInv => TypeOK
    BY DEF IInv
  <1> QED
    BY InitIInv, NextIInv, <1>1, PTL DEF Spec

(***************************************************************************)
(* For every set of keys and values and whether or not a crash may cut     *)
(* write_text: a setting whose set() returned stays in the settings file  *)
(* until load() falls back on a corrupt file.                              *)
(***************************************************************************)
THEOREM DurableUntilFallbackHolds == Spec => []DurableUntilFallback
  <1>1. IInv => DurableUntilFallback
    BY DEF IInv, DurableUntilFallback
  <1> QED
    BY InitIInv, NextIInv, <1>1, PTL DEF Spec

(***************************************************************************)
(* For any keys and values and crashes anywhere, a live, loaded process    *)
(* that is not saving and has never fallen back answers get() of every key *)
(* whose set() returned with the value set.                                *)
(***************************************************************************)
THEOREM ReadYourSettingsHolds == Spec => []ReadYourSettings
  <1>1. IInv => ReadYourSettings
    <2> SUFFICES ASSUME IInv, ~fellBack, loaded, pc = "idle",
                        NEW k \in Keys, NEW d \in Values \cup {Absent},
                        acked[k] # Absent
                 PROVE  Get(k, d) = acked[k]
      BY DEF ReadYourSettings
    <2>1. pending = {} /\ acked \in Dicts
      BY DEF IInv, TypeOK
    <2>2. AckedAfter = acked
      BY <2>1, AckedNone DEF AckedAfter
    <2>3. data[k] = acked[k]
      BY <2>2 DEF IInv, DataAgrees
    <2> QED
      BY <2>3 DEF Get
  <1> QED
    BY InitIInv, NextIInv, <1>1, PTL DEF Spec

=============================================================================
