-------------------------- MODULE LLMManagerProofs --------------------------
(***************************************************************************)
(* Proofs about LLMManager (LLMManager.tla): for every set of model names, *)
(* model ids and provider strings, the registry is well typed and          *)
(* active_model always names a registered provider.  The two facts are     *)
(* inductive together: a step keeps ActiveLoaded only where models[active] *)
(* is defined, which TypeOK gives.                                         *)
(***************************************************************************)
EXTENDS LLMManager, TLAPS

IInv == TypeOK /\ ActiveLoaded
-----------------------------------------------------------------------------
LEMMA InitIInv == LLMAssumption /\ Init => IInv
  BY DEF LLMAssumption, Init, IInv, TypeOK, ActiveLoaded

(* load_model registers before it activates: the name it may activate is  *)
(* the one it has just registered.                                         *)
LEMMA LoadIInv ==
  ASSUME LLMAssumption, IInv, NEW n \in Names, NEW p \in Providers,
         NEW m \in ModelIds \cup {NoKwarg}, LoadModel(n, p, m)
  PROVE  IInv'
  <1>1. CASE Lower[p] \notin Supported
    BY <1>1 DEF LoadModel, IInv, TypeOK, ActiveLoaded, Outs
  <1>2. CASE Lower[p] \in Supported
    <2>1. /\ models' = [models EXCEPT ![n] = IF m = NoKwarg THEN n ELSE m]
          /\ active' = IF active = None THEN n ELSE active
          /\ reply' = [op |-> "load", out |-> "True"]
      BY <1>2 DEF LoadModel
    <2>2. (IF m = NoKwarg THEN n ELSE m) \in Names \cup ModelIds
      OBVIOUS
    <2>3. (IF m = NoKwarg THEN n ELSE m) # None
      BY <2>2 DEF LLMAssumption
    <2>4. TypeOK'
      BY <2>1, <2>2 DEF IInv, TypeOK, Outs
    <2>5. ActiveLoaded'
      BY <2>1, <2>3 DEF IInv, TypeOK, ActiveLoaded
    <2> QED
      BY <2>4, <2>5 DEF IInv
  <1> QED
    BY <1>1, <1>2

(* unload_model clears active_model when it unregisters it. *)
LEMMA UnloadIInv ==
  ASSUME IInv, NEW n \in Names, UnloadModel(n)
  PROVE  IInv'
  BY DEF UnloadModel, IInv, TypeOK, ActiveLoaded, Outs

(* set_active_model only activates a registered name. *)
LEMMA SetActiveIInv ==
  ASSUME IInv, NEW n \in Names, SetActiveModel(n)
  PROVE  IInv'
  BY DEF SetActiveModel, IInv, TypeOK, ActiveLoaded, Outs

(* generate changes only the reply, which is a registered model id. *)
LEMMA GenerateIInv ==
  ASSUME IInv, Generate
  PROVE  IInv'
  <1>1. CASE active \in {None, ""} \/ models[active] = None
    BY <1>1 DEF Generate, IInv, TypeOK, ActiveLoaded, Outs
  <1>2. CASE ~(active \in {None, ""} \/ models[active] = None)
    <2>1. models[active] \in Names \cup ModelIds
      BY <1>2 DEF IInv, TypeOK
    <2> QED
      BY <1>2, <2>1 DEF Generate, IInv, TypeOK, ActiveLoaded, Outs
  <1> QED
    BY <1>1, <1>2

LEMMA NextIInv == LLMAssumption /\ IInv /\ [Next]_vars => IInv'
  <1> SUFFICES ASSUME LLMAssumption, IInv, [Next]_vars PROVE IInv'
    OBVIOUS
  <1>1. CASE \E n \in Names, p \in Providers, m \in ModelIds \cup {NoKwarg} : LoadModel(n, p, m)
    BY <1>1, LoadIInv
  <1>2. CASE \E n \in Names : UnloadModel(n) \/ SetActiveModel(n)
    BY <1>2, UnloadIInv, SetActiveIInv
  <1>3. CASE Generate
    BY <1>3, GenerateIInv
  <1>4. CASE UNCHANGED vars
    BY <1>4 DEF vars, IInv, TypeOK, ActiveLoaded
  <1> QED
    BY <1>1, <1>2, <1>3, <1>4 DEF Next

-----------------------------------------------------------------------------
(* Where names and model ids are strings and None is neither, every      *)
(* reachable state of the registry is well typed.                         *)
THEOREM LLMTypeCorrect == LLMAssumption => (Spec => []TypeOK)
  <1> SUFFICES ASSUME LLMAssumption PROVE Spec => []TypeOK
    OBVIOUS
  <1>1. IInv => TypeOK
    BY DEF IInv
  <1>2. Init => IInv
    BY InitIInv
  <1>3. IInv /\ [Next]_vars => IInv'
    BY NextIInv
  <1> QED
    BY <1>1, <1>2, <1>3, PTL DEF Spec

(***************************************************************************)
(* For all names, model ids and providers that satisfy LLMAssumption and *)
(* any sequence of load_model, unload_model, set_active_model and          *)
(* generate, active_model is None or names a registered provider:          *)
(* unload_model of the active model clears it.                             *)
(***************************************************************************)
THEOREM ActiveLoadedHolds == LLMAssumption => (Spec => []ActiveLoaded)
  <1> SUFFICES ASSUME LLMAssumption PROVE Spec => []ActiveLoaded
    OBVIOUS
  <1>1. IInv => ActiveLoaded
    BY DEF IInv
  <1>2. Init => IInv
    BY InitIInv
  <1>3. IInv /\ [Next]_vars => IInv'
    BY NextIInv
  <1> QED
    BY <1>1, <1>2, <1>3, PTL DEF Spec
=============================================================================
