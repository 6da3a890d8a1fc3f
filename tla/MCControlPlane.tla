--------------------------- MODULE MCControlPlane ---------------------------
(***************************************************************************)
(* The components of the controller and of the command line that share no  *)
(* state with one another, checked in one run.  `focus` names the one that *)
(* moves in a behaviour; the others stay in an initial state, so the       *)
(* reachable states are the sum of theirs.                                 *)
(***************************************************************************)
EXTENDS Accounts, TrainingJobs, Conversations, ContextWindow, Plugins, ProviderKeys,
        Providers, Clients, Lifecycle, Terminals, Packages, Chunker, Certificates, Personas,
        TrainingPipeline

\* One plugin is declared under a name that is not its class's, and shadows a
\* manifest; the other one is a manifest.
MCEntryPoints == {[ep |-> "entry", name |-> "voice", hook |-> "provider"]}
MCManifests == {[name |-> "voice", hook |-> "tool"], [name |-> "local", hook |-> "provider"]}
MCLower == [p \in {"OpenAI", "openai", "gemini"} |-> IF p = "gemini" THEN p ELSE "openai"]
MCCandidates == <<"ollama", "vllm">>
MCPkiOrder == <<"ca", "server", "ollama">>
MCAgents == <<"coding">>
MCImagePresets == {<<2, 1>>, <<3>>}

\* Every kind of record of each format; text that is not JSON has lines only.
MCDatasets ==
    {[format |-> f, json |-> TRUE, records |-> rs] :
        f \in {"alpaca", "sharegpt", "raw"},
        rs \in {<<"half", "full">>, <<"full", "other">>}}
    \cup {[format |-> "alpaca", json |-> FALSE, records |-> <<"full">>],
          [format |-> "raw", json |-> FALSE, records |-> <<"full", "full">>]}

VARIABLE focus

Components ==
    {"accounts", "jobs", "memory", "context", "plugins", "keys", "providers",
     "clients", "lifecycle", "terminals", "packages", "chunker", "tls", "pki",
     "personas", "training"}

controlVars == <<focus, authVars, jobVars, memoryVars, contextVars, pluginVars, keyVars,
                 providerVars, clientVars, lifeVars, termVars, packVars, chunkVars, tlsVars,
                 pkiVars, personaVars, pipelineVars>>

\* Where a component has several initial states, one of them will do while it
\* stays there.
ControlInit ==
    /\ focus \in Components
    /\ AuthInit /\ (focus # "accounts" => hasKey)
    /\ JobInit
    /\ MemoryInit
    /\ ContextInit
    /\ PluginInit
    /\ KeysInit
    /\ ProvidersInit
    /\ ClientsInit /\ (focus # "clients" => provider = "ollama")
    /\ LifeInit /\ (focus # "lifecycle" => stack = "down")
    /\ TermInit
    /\ PackInit /\ (focus # "packages" =>
          DOMAIN deps = Packs /\ required = {} /\ \A p \in Packs : deps[p] = {})
    /\ ChunkInit /\ (focus # "chunker" => docKind = "plain")
    /\ TlsInit /\ (focus # "tls" => ~given)
    /\ PkiInit
    /\ PersonaInit /\ (focus # "personas" => env.explicit /\ env.name = "default")
    /\ PipelineInit /\ (focus # "training" => source = CHOOSE d \in Datasets : TRUE)

Others(component) ==
    /\ focus = component /\ UNCHANGED focus
    /\ IF component = "accounts" THEN TRUE ELSE UNCHANGED authVars
    /\ IF component = "jobs" THEN TRUE ELSE UNCHANGED jobVars
    /\ IF component = "memory" THEN TRUE ELSE UNCHANGED memoryVars
    /\ IF component = "context" THEN TRUE ELSE UNCHANGED contextVars
    /\ IF component = "plugins" THEN TRUE ELSE UNCHANGED pluginVars
    /\ IF component = "keys" THEN TRUE ELSE UNCHANGED keyVars
    /\ IF component = "providers" THEN TRUE ELSE UNCHANGED providerVars
    /\ IF component = "clients" THEN TRUE ELSE UNCHANGED clientVars
    /\ IF component = "lifecycle" THEN TRUE ELSE UNCHANGED lifeVars
    /\ IF component = "terminals" THEN TRUE ELSE UNCHANGED termVars
    /\ IF component = "packages" THEN TRUE ELSE UNCHANGED packVars
    /\ IF component = "chunker" THEN TRUE ELSE UNCHANGED chunkVars
    /\ IF component = "tls" THEN TRUE ELSE UNCHANGED tlsVars
    /\ IF component = "pki" THEN TRUE ELSE UNCHANGED pkiVars
    /\ IF component = "personas" THEN TRUE ELSE UNCHANGED personaVars
    /\ IF component = "training" THEN TRUE ELSE UNCHANGED pipelineVars

ControlNext ==
    \/ Others("accounts") /\ AuthNext
    \/ Others("jobs") /\ JobNext
    \/ Others("memory") /\ MemoryNext
    \/ Others("context") /\ ContextNext
    \/ Others("plugins") /\ PluginNext
    \/ Others("keys") /\ KeysNext
    \/ Others("providers") /\ ProvidersNext
    \/ Others("clients") /\ ClientsNext
    \/ Others("lifecycle") /\ LifeNext
    \/ Others("terminals") /\ TermNext
    \/ Others("packages") /\ PackNext
    \/ Others("chunker") /\ ChunkNext
    \/ Others("tls") /\ TlsNext
    \/ Others("pki") /\ PkiNext
    \/ Others("personas") /\ PersonaNext
    \/ Others("training") /\ PipelineNext

ControlSpec == ControlInit /\ [][ControlNext]_controlVars

\* Every variable of every component stays in its type.
ControlPlaneTypeOK ==
    /\ AuthTypeOK /\ JobTypeOK /\ MemoryTypeOK /\ ContextTypeOK /\ PluginTypeOK
    /\ KeysTypeOK /\ ProvidersTypeOK /\ LifeTypeOK /\ TermTypeOK /\ PackTypeOK /\ ChunkTypeOK
    /\ ClientsTypeOK /\ CertificatesTypeOK /\ PersonasTypeOK /\ PipelineTypeOK
=============================================================================
