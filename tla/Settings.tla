------------------------------ MODULE Settings ------------------------------
(***************************************************************************)
(* SettingsManager (src/bantu_os/config/settings_manager.py): one process *)
(* holding the settings dict and the JSON file it persists to, with        *)
(* crashes and restarts of the process.                                    *)
(*                                                                         *)
(* save() is path.write_text(json.dumps(data)): the file is opened with    *)
(* truncation and then written, so between the two the file holds a       *)
(* prefix of the JSON, which json.loads rejects.  A dict is a function     *)
(* from Keys to a value or Absent.  A caller is assumed to call load()     *)
(* before set(), as the class is meant to be used; set() on a fresh        *)
(* instance would store only the one key.                                  *)
(***************************************************************************)
EXTENDS Naturals, FiniteSets

CONSTANTS
    Keys,          \* the setting names
    DefaultKeys,   \* default_llm, memory_provider, voice_enabled
    Values,        \* the values a setting may take
    Dflt,          \* the default value of each default key
    Absent,        \* no such key in the dict
    MaxSets,       \* bound on the set() calls
    CrashInWrite   \* whether the process may die inside write_text

(* The default keys are settings, their default a value, and set() calls *)
(* are counted from zero.                                                  *)
ASSUME SettingsAssumption ==
    /\ DefaultKeys \subseteq Keys /\ Dflt \in Values
    /\ MaxSets \in Nat /\ CrashInWrite \in BOOLEAN

Dicts == [Keys -> Values \cup {Absent}]
EmptyDict == [k \in Keys |-> Absent]

(* the dict load() falls back to *)
Defaults == [k \in Keys |-> IF k \in DefaultKeys THEN Dflt ELSE Absent]

VARIABLES
    file,      \* the settings file: "missing", "corrupt" or "json"
    fileDict,  \* the dict a "json" file holds
    data,      \* SettingsManager.data of the running process
    loaded,    \* whether this process has called load()
    pc,        \* "idle", "writing" (inside write_text) or "down"
    pending,   \* the set() call whose save is under way: {} or {<<key, value>>}
    acked,     \* history: the value of each key's last set() that returned
    sets,      \* set() calls so far
    fellBack   \* history: whether a load() found the file corrupt

vars == <<file, fileDict, data, loaded, pc, pending, acked, sets, fellBack>>

TypeOK ==
    /\ file \in {"missing", "corrupt", "json"}
    /\ fileDict \in Dicts
    /\ data \in Dicts
    /\ loaded \in BOOLEAN
    /\ pc \in {"idle", "writing", "down"}
    /\ pending \in SUBSET (Keys \X Values) /\ Cardinality(pending) <= 1
    /\ acked \in Dicts
    /\ sets \in 0..MaxSets
    /\ fellBack \in BOOLEAN

(* The process starts with a fresh SettingsManager; no file yet. *)
Init ==
    /\ file = "missing"
    /\ fileDict = EmptyDict
    /\ data = EmptyDict
    /\ loaded = FALSE
    /\ pc = "idle"
    /\ pending = {}
    /\ acked = EmptyDict
    /\ sets = 0
    /\ fellBack = FALSE

(* save(): the file is truncated; the dict is written by WriteDone. *)
BeginSave == pc' = "writing" /\ file' = "corrupt" /\ UNCHANGED fileDict

(* Mutant: load() takes its except branch on a readable file too. *)
LoadIgnoresFile ==
    /\ pc = "idle"
    /\ loaded' = TRUE
    /\ \/ file = "missing" /\ data' = Defaults /\ BeginSave /\ UNCHANGED fellBack
       \/ file = "corrupt" /\ data' = Defaults /\ fellBack' = TRUE
          /\ UNCHANGED <<file, fileDict, pc>>
       \/ file = "json" /\ data' = Defaults /\ UNCHANGED <<file, fileDict, pc, fellBack>>
    /\ UNCHANGED <<pending, acked, sets>>

(***************************************************************************)
(* load(): a missing file gives the defaults, saved at once; a file that   *)
(* json.loads rejects gives the defaults, not saved; otherwise its dict.   *)
(***************************************************************************)
Load ==
    /\ pc = "idle"
    /\ loaded' = TRUE
    /\ \/ file = "missing" /\ data' = Defaults /\ BeginSave /\ UNCHANGED fellBack
       \/ file = "corrupt" /\ data' = Defaults /\ fellBack' = TRUE
          /\ UNCHANGED <<file, fileDict, pc>>
       \/ file = "json" /\ data' = fileDict /\ UNCHANGED <<file, fileDict, pc, fellBack>>
    /\ UNCHANGED <<pending, acked, sets>>

(* set(key, value): data[key] = value, then save(). *)
Set(k, v) ==
    /\ pc = "idle" /\ loaded /\ sets < MaxSets
    /\ data' = [data EXCEPT ![k] = v]
    /\ pending' = {<<k, v>>}
    /\ sets' = sets + 1
    /\ BeginSave
    /\ UNCHANGED <<loaded, acked, fellBack>>

(* write_text completes: the file holds json.dumps(data); set() returns. *)
WriteDone ==
    /\ pc = "writing"
    /\ file' = "json"
    /\ fileDict' = data
    /\ pc' = "idle"
    /\ pending' = {}
    /\ acked' = [k \in Keys |-> IF \E v \in Values : <<k, v>> \in pending
                               THEN CHOOSE v \in Values : <<k, v>> \in pending
                               ELSE acked[k]]
    /\ UNCHANGED <<data, loaded, sets, fellBack>>

(* The process dies: its dict is gone; a write under way stays cut off. *)
Crash ==
    /\ pc = "idle" \/ (pc = "writing" /\ CrashInWrite)
    /\ pc' = "down"
    /\ pending' = {}
    /\ UNCHANGED <<file, fileDict, data, loaded, acked, sets, fellBack>>

(* A new process constructs a fresh SettingsManager. *)
Restart ==
    /\ pc = "down"
    /\ pc' = "idle"
    /\ data' = EmptyDict
    /\ loaded' = FALSE
    /\ UNCHANGED <<file, fileDict, pending, acked, sets, fellBack>>

(* get(key, default): data.get(key, default). *)
Get(k, d) == IF data[k] # Absent THEN data[k] ELSE d

Next ==
    \/ Load \/ WriteDone \/ Crash \/ Restart
    \/ \E k \in Keys, v \in Values : Set(k, v)

Spec == Init /\ [][Next]_vars

-----------------------------------------------------------------------------
(***************************************************************************)
(* A setting whose set() returned is in the file whenever the file holds a *)
(* dict: neither a restart and load() nor a later save() forgets it.  A    *)
(* crash inside write_text leaves a file load() reads as corrupt; it falls *)
(* back to the defaults without saving, and the next set() writes those    *)
(* defaults over every setting made before.                                *)
(***************************************************************************)
SettingsDurable ==
    file = "json" => \A k \in Keys : acked[k] # Absent => fileDict[k] = acked[k]

(***************************************************************************)
(* The fallback of load() is the only way a setting is lost: as long as no *)
(* load() has found the file corrupt, every setting whose set() returned   *)
(* is in the file whenever the file holds a dict, across crashes (inside   *)
(* write_text included), restarts and later saves.                         *)
(***************************************************************************)
DurableUntilFallback == ~fellBack => SettingsDurable

(***************************************************************************)
(* Read your settings: while no load() has fallen back and the process is  *)
(* up, loaded and not inside a save, get() of every key whose set()        *)
(* returned gives the value set, whatever default it is passed, across     *)
(* crashes and restarts with the load() that follows.                      *)
(***************************************************************************)
ReadYourSettings ==
    ~fellBack /\ loaded /\ pc = "idle" =>
        \A k \in Keys, d \in Values \cup {Absent} :
            acked[k] # Absent => Get(k, d) = acked[k]

=============================================================================
