-------------------------------- MODULE Personas --------------------------------
(***************************************************************************)
(* Personas: the SOUL.md files, the routes that change them                *)
(* (bmt_ai_os/controller/persona_routes.py, file_routes.py, api.py), the   *)
(* `persona set` command, and the prompt a chat gets from them             *)
(* (controller/openai_compat.py, persona/assembler.py).                    *)
(*                                                                         *)
(* There are two kinds of personas.  The configured one lives in a         *)
(* workspace that the routes and the assembler look up each for            *)
(* themselves, and the assembler only once; an activated one lives below   *)
(* agents/ in the workspace root, which is assumed to lie in the files     *)
(* root, as it does in development.  No route awaits anything between what *)
(* it reads and what it writes.                                            *)
(***************************************************************************)
EXTENDS Naturals, Sequences

CONSTANTS
    AgentOrder   \* _AGENT_SOUL_MAP: the presets that agents are made from, in order

Presets == {AgentOrder[i] : i \in DOMAIN AgentOrder}
Homes == Presets \cup {"default"}            \* ~/.bmt-ai-os/personas/<name>
Workspaces == Homes \cup {"explicit", "bundled"}
Texts == Presets \cup {"mine"}               \* what a SOUL.md says
Blank == {"nodir", "none", "blank"}          \* there is nothing to read in it

\* No preset is called like something else.
ASSUME PersonasAssumption ==
    /\ AgentOrder \in Seq(Presets)
    /\ Presets \cap (Blank \cup {"mine", "default", "explicit", "bundled"}) = {}

VARIABLES
    env,        \* BMT_PERSONA_DIR is set; BMT_DEFAULT_PERSONA, or "default"
    soul,       \* the SOUL.md of each workspace
    agentSoul,  \* the SOUL.md of each persona below agents/
    activated,  \* _active_persona
    assembler,  \* the workspace the cached PersonaAssembler keeps
    edited      \* history: what a user has put into agents/<name>/SOUL.md

personaVars == <<env, soul, agentSoul, activated, assembler, edited>>

PersonaInit ==
    /\ env \in [explicit : BOOLEAN, name : Homes]
    /\ soul = [w \in Workspaces |-> IF w \in Homes THEN "nodir" ELSE "none"]
    /\ agentSoul = [p \in Presets |-> "none"] /\ edited = agentSoul
    /\ activated = "none" /\ assembler = "none"

----------------------------------------------------------------------------
(* Which workspace it is, and what a chat is told.                         *)

\* _resolve_workspace of the routes
Workspace ==
    IF env.explicit THEN "explicit" ELSE IF soul[env.name] # "nodir" THEN env.name ELSE "bundled"

\* Faulty: the named workspace goes before BMT_PERSONA_DIR.
NamedWorkspaceFirst ==
    IF soul[env.name] # "nodir" THEN env.name ELSE IF env.explicit THEN "explicit" ELSE "bundled"

\* _resolve_workspace of the assembler
AssemblerWorkspace ==
    IF env.explicit THEN "explicit" ELSE IF soul[env.name] # "nodir" THEN env.name ELSE "bundled"

Cached == IF assembler = "none" THEN AssemblerWorkspace ELSE assembler

\* PersonaAssembler.assemble
Assembled ==
    IF soul[Cached] \notin Blank THEN soul[Cached]
    ELSE IF env.name \in Presets THEN env.name ELSE "general"

IsActive == activated # "none" /\ agentSoul[activated] \notin Blank

\* _inject_persona
Told == IF IsActive THEN agentSoul[activated] ELSE Assembled

\* A chat while no agent is active, or a question to the documents, which takes the
\* assembler's prompt whoever is active.
Prompted ==
    /\ assembler' = Cached
    /\ UNCHANGED <<env, soul, agentSoul, activated, edited>>

----------------------------------------------------------------------------
(* Writing.                                                                *)

\* A write or a copy that fails may leave an empty file behind.
Left(text) == {text, "blank"}

\* save_persona, apply_preset
SaveSoul(text) ==
    /\ \E left \in Left(text) : soul' = [soul EXCEPT ![Workspace] = left]
    /\ UNCHANGED <<env, agentSoul, activated, assembler, edited>>

\* The command `persona set`, with or without --workspace; it runs in a process of
\* its own and asks before it overwrites a file.
Target(p) ==
    IF env.explicit THEN "explicit" ELSE IF env.name = "default" THEN p ELSE env.name

PersonaSet(p) ==
    /\ \E w \in {Target(p)} \cup Homes, left \in Left(p) : soul' = [soul EXCEPT ![w] = left]
    /\ UNCHANGED <<env, agentSoul, activated, assembler, edited>>

\* activate_persona; when the copy fails the persona is not activated.
Activate(p) ==
    /\ IF agentSoul[p] # "none" THEN activated' = p /\ UNCHANGED agentSoul
       ELSE \E left \in Left(p) :
              /\ agentSoul' = [agentSoul EXCEPT ![p] = left]
              /\ activated' = IF left = p THEN p ELSE activated
    /\ UNCHANGED <<env, soul, assembler, edited>>

\* _scaffold_workspace; a copy that fails, if one does, ends it.
Scaffold ==
    /\ \E failing \in {i \in DOMAIN AgentOrder : agentSoul[AgentOrder[i]] = "none"}
                        \cup {Len(AgentOrder) + 1} :
         agentSoul' = [p \in Presets |->
             LET i == CHOOSE j \in DOMAIN AgentOrder : AgentOrder[j] = p
             IN IF agentSoul[p] # "none" \/ i > failing THEN agentSoul[p]
                ELSE IF i = failing THEN "blank" ELSE p]
    /\ UNCHANGED <<env, soul, activated, assembler, edited>>

----------------------------------------------------------------------------
(* The file routes.                                                        *)

\* write_file.  The ingestion it starts changes nothing here.
WriteSoul(p, text) ==
    /\ \E left \in Left(text) : agentSoul' = [agentSoul EXCEPT ![p] = left]
    /\ edited' = [edited EXCEPT ![p] = agentSoul'[p]]
    /\ UNCHANGED <<env, soul, activated, assembler>>

\* delete_file_or_dir, or rename_file to another name
DeleteSoul(p) ==
    /\ agentSoul[p] # "none"
    /\ agentSoul' = [agentSoul EXCEPT ![p] = "none"] /\ edited' = [edited EXCEPT ![p] = "none"]
    /\ UNCHANGED <<env, soul, activated, assembler>>

\* External: a user removes a workspace, or the file in it.
RemoveWorkspace(w) ==
    /\ soul[w] \notin {"none", "nodir"}
    /\ \E left \in {"none"} \cup (IF w \in Homes THEN {"nodir"} ELSE {}) :
         soul' = [soul EXCEPT ![w] = left]
    /\ UNCHANGED <<env, agentSoul, activated, assembler, edited>>

\* A new process, which may be given another environment.
RestartPersonas ==
    /\ env' \in [explicit : BOOLEAN, name : Homes]
    /\ activated' = "none" /\ assembler' = "none"
    /\ UNCHANGED <<soul, agentSoul, edited>>

PersonaNext ==
    \/ Prompted \/ Scaffold \/ RestartPersonas
    \/ \E t \in Texts : SaveSoul(t) \/ \E p \in Presets : WriteSoul(p, t)
    \/ \E p \in Presets : PersonaSet(p) \/ Activate(p) \/ DeleteSoul(p)
    \/ \E w \in Workspaces : RemoveWorkspace(w)

PersonaSpec == PersonaInit /\ [][PersonaNext]_personaVars

----------------------------------------------------------------------------
PersonasTypeOK ==
    /\ env \in [explicit : BOOLEAN, name : Homes]
    /\ soul \in [Workspaces -> Texts \cup Blank]
    /\ {agentSoul, edited} \subseteq [Presets -> Texts \cup {"none", "blank"}]
    /\ activated \in Presets \cup {"none"} /\ assembler \in Workspaces \cup {"none"}

\* A chat is told what the user has saved: what was put into the file of an agent
\* is neither lost to a later activation or scaffolding nor passed over while that
\* agent is active; and without one the chat is told what the routes show and save,
\* although they look for the workspace on their own, as long as the workspace is
\* the one that the assembler has found.
SavedIsTold ==
    /\ \A p \in Presets : edited[p] # "none" =>
          /\ agentSoul[p] = edited[p]
          /\ activated = p /\ edited[p] # "blank" => Told = edited[p]
    /\ activated = "none" /\ assembler \in {"none", Workspace} /\ soul[Workspace] \notin Blank =>
          Told = soul[Workspace]
=============================================================================
