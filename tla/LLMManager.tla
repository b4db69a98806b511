----------------------------- MODULE LLMManager -----------------------------
(***************************************************************************)
(* LLMManager (src/bantu_os/core/kernel/llm_manager.py): the registry of   *)
(* chat providers by model name and the active model, under load_model,    *)
(* unload_model, set_active_model and generate.                            *)
(*                                                                         *)
(* A provider instance is abstracted to the model id it was built with;    *)
(* provider.generate, which the registry hands the call to, is abstracted  *)
(* to that id.  The reply of each call is kept, an exception included.     *)
(***************************************************************************)
EXTENDS Naturals

CONSTANTS
    Names,       \* model names the callers use
    ModelIds,    \* values of the model= keyword
    Providers,   \* provider strings the callers pass
    Lower,       \* str.lower on Providers
    NoKwarg,     \* load_model called without model=
    None         \* Python None

(* What the proofs assume of the constants: names and model ids are      *)
(* strings, and None and NoKwarg are neither.                             *)
LLMAssumption ==
    /\ Names \subseteq STRING /\ ModelIds \subseteq STRING
    /\ Lower \in [Providers -> STRING]
    /\ None \notin Names \cup ModelIds /\ NoKwarg \notin ModelIds

Supported == {"openai", "openai-chat", "openai_chat"}
Outs == {"True", "False", "ValueError", "RuntimeError"} \cup Names \cup ModelIds

VARIABLES
    models,   \* self.models: models[n] is the model id of n's provider, or None
    active,   \* self.active_model
    reply     \* the last call and what it returned or raised

vars == <<models, active, reply>>

TypeOK ==
    /\ models \in [Names -> Names \cup ModelIds \cup {None}]
    /\ active \in Names \cup {None}
    /\ reply \in {[op |-> "none", out |-> "None"]}
                 \cup [op : {"load", "unload", "set", "generate"}, out : Outs]

(* LLMManager(): no models, no active model. *)
Init ==
    /\ models = [n \in Names |-> None]
    /\ active = None
    /\ reply = [op |-> "none", out |-> "None"]

(***************************************************************************)
(* load_model(model_name, provider, model=...): _build_provider raises     *)
(* ValueError for a provider whose lower() is not an OpenAI one; else the  *)
(* provider, built with model= or the model name, is registered under the  *)
(* name, replacing any there, and becomes active if none is.               *)
(***************************************************************************)
LoadModel(n, p, m) ==
    \/ /\ Lower[p] \notin Supported
       /\ reply' = [op |-> "load", out |-> "ValueError"]
       /\ UNCHANGED <<models, active>>
    \/ /\ Lower[p] \in Supported
       /\ models' = [models EXCEPT ![n] = IF m = NoKwarg THEN n ELSE m]
       /\ active' = IF active = None THEN n ELSE active
       /\ reply' = [op |-> "load", out |-> "True"]

(* Mutant: unload_model leaves active_model naming the unloaded model. *)
UnloadModelKeepsActive(n) ==
    IF models[n] # None
    THEN /\ models' = [models EXCEPT ![n] = None]
         /\ reply' = [op |-> "unload", out |-> "True"]
         /\ UNCHANGED active
    ELSE /\ reply' = [op |-> "unload", out |-> "False"]
         /\ UNCHANGED <<models, active>>

(* unload_model(model_name): deletes a registered name, and clears         *)
(* active_model if it named it.                                           *)
UnloadModel(n) ==
    IF models[n] # None
    THEN /\ models' = [models EXCEPT ![n] = None]
         /\ active' = IF active = n THEN None ELSE active
         /\ reply' = [op |-> "unload", out |-> "True"]
    ELSE /\ reply' = [op |-> "unload", out |-> "False"]
         /\ UNCHANGED <<models, active>>

(* set_active_model(model_name): only a registered name becomes active. *)
SetActiveModel(n) ==
    IF models[n] # None
    THEN /\ active' = n
         /\ reply' = [op |-> "set", out |-> "True"]
         /\ UNCHANGED models
    ELSE /\ reply' = [op |-> "set", out |-> "False"]
         /\ UNCHANGED <<models, active>>

(***************************************************************************)
(* generate(messages): RuntimeError when active_model is falsy (None or    *)
(* the empty string) or not registered; else the call goes to the active  *)
(* model's provider.                                                       *)
(***************************************************************************)
Generate ==
    /\ reply' = [op |-> "generate",
                 out |-> IF active \in {None, ""} \/ models[active] = None
                         THEN "RuntimeError" ELSE models[active]]
    /\ UNCHANGED <<models, active>>

Next ==
    \/ \E n \in Names, p \in Providers, m \in ModelIds \cup {NoKwarg} : LoadModel(n, p, m)
    \/ \E n \in Names : UnloadModel(n) \/ SetActiveModel(n)
    \/ Generate

Spec == Init /\ [][Next]_vars

-----------------------------------------------------------------------------
(***************************************************************************)
(* active_model always names a registered provider, or is None: load_model *)
(* only activates what it registers, set_active_model checks, and          *)
(* unload_model of the active model clears it.                             *)
(***************************************************************************)
ActiveLoaded == active # None => models[active] # None

(***************************************************************************)
(* generate raises "No active model configured" only when no model is     *)
(* active: a registered, active model is always the one called.            *)
(***************************************************************************)
NoSpuriousError ==
    reply.op = "generate" /\ reply.out = "RuntimeError" => active = None

=============================================================================
