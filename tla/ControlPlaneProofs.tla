------------------------- MODULE ControlPlaneProofs -------------------------
(***************************************************************************)
(* The components that MCControlPlane checks in one run, together: each    *)
(* step of the whole is a step of one of them and leaves the others, so    *)
(* the whole behaves, for each of them, as its own specification says, and *)
(* what is proved of a component holds of the whole.                       *)
(***************************************************************************)
EXTENDS MCControlPlane, ControllerProofs, ServiceProofs, AlgorithmProofs

\* The components but c are left as they are.
Resting(c) ==
    /\ c # "accounts" => UNCHANGED authVars
    /\ c # "jobs" => UNCHANGED jobVars
    /\ c # "memory" => UNCHANGED memoryVars
    /\ c # "context" => UNCHANGED contextVars
    /\ c # "plugins" => UNCHANGED pluginVars
    /\ c # "keys" => UNCHANGED keyVars
    /\ c # "providers" => UNCHANGED providerVars
    /\ c # "clients" => UNCHANGED clientVars
    /\ c # "lifecycle" => UNCHANGED lifeVars
    /\ c # "terminals" => UNCHANGED termVars
    /\ c # "packages" => UNCHANGED packVars
    /\ c # "chunker" => UNCHANGED chunkVars
    /\ c # "tls" => UNCHANGED tlsVars
    /\ c # "pki" => UNCHANGED pkiVars
    /\ c # "personas" => UNCHANGED personaVars
    /\ c # "training" => UNCHANGED pipelineVars

LEMMA OthersRest == ASSUME NEW c, Others(c) PROVE Resting(c)
  BY Zenon DEF Others, Resting

\* A step moves one component, or none.
LEMMA OneMoves ==
    ASSUME [ControlNext]_controlVars
    PROVE  \/ Resting("accounts") /\ AuthNext
           \/ Resting("jobs") /\ JobNext
           \/ Resting("memory") /\ MemoryNext
           \/ Resting("context") /\ ContextNext
           \/ Resting("plugins") /\ PluginNext
           \/ Resting("keys") /\ KeysNext
           \/ Resting("providers") /\ ProvidersNext
           \/ Resting("clients") /\ ClientsNext
           \/ Resting("lifecycle") /\ LifeNext
           \/ Resting("terminals") /\ TermNext
           \/ Resting("packages") /\ PackNext
           \/ Resting("chunker") /\ ChunkNext
           \/ Resting("tls") /\ TlsNext
           \/ Resting("pki") /\ PkiNext
           \/ Resting("personas") /\ PersonaNext
           \/ Resting("training") /\ PipelineNext
           \/ UNCHANGED controlVars
<1>1. CASE ControlNext
  <2>1. Others("accounts") /\ AuthNext => Resting("accounts") /\ AuthNext
    BY OthersRest
  <2>2. Others("jobs") /\ JobNext => Resting("jobs") /\ JobNext
    BY OthersRest
  <2>3. Others("memory") /\ MemoryNext => Resting("memory") /\ MemoryNext
    BY OthersRest
  <2>4. Others("context") /\ ContextNext => Resting("context") /\ ContextNext
    BY OthersRest
  <2>5. Others("plugins") /\ PluginNext => Resting("plugins") /\ PluginNext
    BY OthersRest
  <2>6. Others("keys") /\ KeysNext => Resting("keys") /\ KeysNext
    BY OthersRest
  <2>7. Others("providers") /\ ProvidersNext => Resting("providers") /\ ProvidersNext
    BY OthersRest
  <2>8. Others("clients") /\ ClientsNext => Resting("clients") /\ ClientsNext
    BY OthersRest
  <2>9. Others("lifecycle") /\ LifeNext => Resting("lifecycle") /\ LifeNext
    BY OthersRest
  <2>10. Others("terminals") /\ TermNext => Resting("terminals") /\ TermNext
    BY OthersRest
  <2>11. Others("packages") /\ PackNext => Resting("packages") /\ PackNext
    BY OthersRest
  <2>12. Others("chunker") /\ ChunkNext => Resting("chunker") /\ ChunkNext
    BY OthersRest
  <2>13. Others("tls") /\ TlsNext => Resting("tls") /\ TlsNext
    BY OthersRest
  <2>14. Others("pki") /\ PkiNext => Resting("pki") /\ PkiNext
    BY OthersRest
  <2>15. Others("personas") /\ PersonaNext => Resting("personas") /\ PersonaNext
    BY OthersRest
  <2>16. Others("training") /\ PipelineNext => Resting("training") /\ PipelineNext
    BY OthersRest
  <2> QED
    BY <1>1, <2>1, <2>2, <2>3, <2>4, <2>5, <2>6, <2>7, <2>8, <2>9, <2>10, <2>11, <2>12, <2>13, <2>14, <2>15, <2>16, Zenon DEF ControlNext
<1>2. CASE UNCHANGED controlVars
  BY <1>2
<1> QED
  BY <1>1, <1>2

\* For each component, every step is one of its own or leaves it.
LEMMA EachSteps ==
    ASSUME [ControlNext]_controlVars
    PROVE  /\ [AuthNext]_authVars /\ [JobNext]_jobVars /\ [MemoryNext]_memoryVars /\ [ContextNext]_contextVars
           /\ [PluginNext]_pluginVars /\ [KeysNext]_keyVars /\ [ProvidersNext]_providerVars /\ [ClientsNext]_clientVars
           /\ [LifeNext]_lifeVars /\ [TermNext]_termVars /\ [PackNext]_packVars /\ [ChunkNext]_chunkVars
           /\ [TlsNext]_tlsVars /\ [PkiNext]_pkiVars /\ [PersonaNext]_personaVars /\ [PipelineNext]_pipelineVars
<1>0. UNCHANGED controlVars => /\ UNCHANGED authVars /\ UNCHANGED jobVars /\ UNCHANGED memoryVars /\ UNCHANGED contextVars
                                 /\ UNCHANGED pluginVars /\ UNCHANGED keyVars /\ UNCHANGED providerVars /\ UNCHANGED clientVars
                                 /\ UNCHANGED lifeVars /\ UNCHANGED termVars /\ UNCHANGED packVars /\ UNCHANGED chunkVars
                                 /\ UNCHANGED tlsVars /\ UNCHANGED pkiVars /\ UNCHANGED personaVars /\ UNCHANGED pipelineVars
  BY Zenon DEF controlVars
<1>1. [AuthNext]_authVars
  BY <1>0, OneMoves DEF Resting
<1>2. [JobNext]_jobVars
  BY <1>0, OneMoves DEF Resting
<1>3. [MemoryNext]_memoryVars
  BY <1>0, OneMoves DEF Resting
<1>4. [ContextNext]_contextVars
  BY <1>0, OneMoves DEF Resting
<1>5. [PluginNext]_pluginVars
  BY <1>0, OneMoves DEF Resting
<1>6. [KeysNext]_keyVars
  BY <1>0, OneMoves DEF Resting
<1>7. [ProvidersNext]_providerVars
  BY <1>0, OneMoves DEF Resting
<1>8. [ClientsNext]_clientVars
  BY <1>0, OneMoves DEF Resting
<1>9. [LifeNext]_lifeVars
  BY <1>0, OneMoves DEF Resting
<1>10. [TermNext]_termVars
  BY <1>0, OneMoves DEF Resting
<1>11. [PackNext]_packVars
  BY <1>0, OneMoves DEF Resting
<1>12. [ChunkNext]_chunkVars
  BY <1>0, OneMoves DEF Resting
<1>13. [TlsNext]_tlsVars
  BY <1>0, OneMoves DEF Resting
<1>14. [PkiNext]_pkiVars
  BY <1>0, OneMoves DEF Resting
<1>15. [PersonaNext]_personaVars
  BY <1>0, OneMoves DEF Resting
<1>16. [PipelineNext]_pipelineVars
  BY <1>0, OneMoves DEF Resting
<1> QED
  BY <1>1, <1>2, <1>3, <1>4, <1>5, <1>6, <1>7, <1>8, <1>9, <1>10, <1>11, <1>12, <1>13, <1>14, <1>15, <1>16

LEMMA EachStarts == ControlInit => /\ AuthInit /\ JobInit /\ MemoryInit /\ ContextInit
                                /\ PluginInit /\ KeysInit /\ ProvidersInit /\ ClientsInit
                                /\ LifeInit /\ TermInit /\ PackInit /\ ChunkInit
                                /\ TlsInit /\ PkiInit /\ PersonaInit /\ PipelineInit
  BY DEF ControlInit
----------------------------------------------------------------
\* A behaviour of the whole is, for each component, one of that component's own
\* specification: the components share nothing, whatever the order of their steps.
THEOREM EachBehaves ==
    ControlSpec => /\ AuthSpec /\ JobSpec /\ MemorySpec /\ ContextSpec
                   /\ PluginSpec /\ KeysSpec /\ ProvidersSpec /\ ClientsSpec
                   /\ LifeSpec /\ TermSpec /\ PackSpec /\ ChunkSpec
                   /\ TlsSpec /\ PkiSpec /\ PersonaSpec /\ PipelineSpec
<1>1. ControlSpec => AuthSpec
  BY EachStarts, EachSteps, PTL DEF ControlSpec, AuthSpec
<1>2. ControlSpec => JobSpec
  BY EachStarts, EachSteps, PTL DEF ControlSpec, JobSpec
<1>3. ControlSpec => MemorySpec
  BY EachStarts, EachSteps, PTL DEF ControlSpec, MemorySpec
<1>4. ControlSpec => ContextSpec
  BY EachStarts, EachSteps, PTL DEF ControlSpec, ContextSpec
<1>5. ControlSpec => PluginSpec
  BY EachStarts, EachSteps, PTL DEF ControlSpec, PluginSpec
<1>6. ControlSpec => KeysSpec
  BY EachStarts, EachSteps, PTL DEF ControlSpec, KeysSpec
<1>7. ControlSpec => ProvidersSpec
  BY EachStarts, EachSteps, PTL DEF ControlSpec, ProvidersSpec
<1>8. ControlSpec => ClientsSpec
  BY EachStarts, EachSteps, PTL DEF ControlSpec, ClientsSpec
<1>9. ControlSpec => LifeSpec
  BY EachStarts, EachSteps, PTL DEF ControlSpec, LifeSpec
<1>10. ControlSpec => TermSpec
  BY EachStarts, EachSteps, PTL DEF ControlSpec, TermSpec
<1>11. ControlSpec => PackSpec
  BY EachStarts, EachSteps, PTL DEF ControlSpec, PackSpec
<1>12. ControlSpec => ChunkSpec
  BY EachStarts, EachSteps, PTL DEF ControlSpec, ChunkSpec
<1>13. ControlSpec => TlsSpec
  BY EachStarts, EachSteps, PTL DEF ControlSpec, TlsSpec
<1>14. ControlSpec => PkiSpec
  BY EachStarts, EachSteps, PTL DEF ControlSpec, PkiSpec
<1>15. ControlSpec => PersonaSpec
  BY EachStarts, EachSteps, PTL DEF ControlSpec, PersonaSpec
<1>16. ControlSpec => PipelineSpec
  BY EachStarts, EachSteps, PTL DEF ControlSpec, PipelineSpec
<1> QED
  BY <1>1, <1>2, <1>3, <1>4, <1>5, <1>6, <1>7, <1>8, <1>9, <1>10, <1>11, <1>12, <1>13, <1>14, <1>15, <1>16

\* Every variable of every component stays in its type, in whatever order the
\* components move and for all values of their constants.
THEOREM ControlPlaneTypeCorrect == ControlSpec => []ControlPlaneTypeOK
<1>1. ControlSpec => []AuthTypeOK
  BY EachBehaves, AuthTypeCorrect, PTL
<1>2. ControlSpec => []JobTypeOK
  BY EachBehaves, JobTypeCorrect, PTL
<1>3. ControlSpec => []MemoryTypeOK
  BY EachBehaves, MemoryTypeCorrect, PTL
<1>4. ControlSpec => []ContextTypeOK
  BY EachBehaves, ContextTypes, PTL
<1>5. ControlSpec => []PluginTypeOK
  BY EachBehaves, PluginTypeCorrect, PTL
<1>6. ControlSpec => []KeysTypeOK
  BY EachBehaves, KeysTypeCorrect, PTL
<1>7. ControlSpec => []ProvidersTypeOK
  BY EachBehaves, ProvidersTypeCorrect, PTL
<1>8. ControlSpec => []LifeTypeOK
  BY EachBehaves, LifeTypeCorrect, PTL
<1>9. ControlSpec => []TermTypeOK
  BY EachBehaves, TermTypeCorrect, PTL
<1>10. ControlSpec => []PackTypeOK
  BY EachBehaves, PackTypes, PTL
<1>11. ControlSpec => []ChunkTypeOK
  BY EachBehaves, ChunkTypes, PTL
<1>12. ControlSpec => []ClientsTypeOK
  BY EachBehaves, ClientTypeCorrect, PTL
<1>13. ControlSpec => []CertificatesTypeOK
  BY EachBehaves, TlsTypeCorrect, PTL
<1>14. ControlSpec => []PersonasTypeOK
  <2>1. PersonaInv => PersonasTypeOK
    BY DEF PersonaInv
  <2> QED
    BY <2>1, EachBehaves, PersonasAlways, PTL
<1>15. ControlSpec => []PipelineTypeOK
  <2>1. PipelineInv => PipelineTypeOK
    BY DEF PipelineInv
  <2> QED
    BY <2>1, EachBehaves, PipelineAlways, PTL
<1>16. /\ AuthTypeOK /\ JobTypeOK /\ MemoryTypeOK /\ ContextTypeOK /\ PluginTypeOK
       /\ KeysTypeOK /\ ProvidersTypeOK /\ LifeTypeOK /\ TermTypeOK /\ PackTypeOK /\ ChunkTypeOK
       /\ ClientsTypeOK /\ CertificatesTypeOK /\ PersonasTypeOK /\ PipelineTypeOK
       => ControlPlaneTypeOK
  BY DEF ControlPlaneTypeOK
<1> QED
  BY <1>1, <1>2, <1>3, <1>4, <1>5, <1>6, <1>7, <1>8, <1>9, <1>10, <1>11, <1>12, <1>13, <1>14, <1>15, <1>16, PTL

\* What each component promises holds of the whole: locks and logouts, keys,
\* certificates and settings, histories, contexts, chunks and manifests, retries
\* and health counts, jobs and pipelines, terminals, and the way the controller
\* goes down.
THEOREM ControlPlaneIsSound ==
    ControlSpec =>
        /\ [](/\ LockoutHolds /\ LoggedOutStaysOut /\ StatesAreSpentOnce /\ PairsAreWhole
             /\ SettingsAreKept /\ SavedIsTold /\ HistoryIsSound /\ ContextFits
             /\ ChunksAreSound /\ ManifestsAreComplete /\ RetriesAreSound /\ HealthIsCounted
             /\ TimesMatchStatus /\ EndsAreCountedOnce /\ PipelineIsSound
             /\ SessionsAreOrderly /\ StackStaysDown /\ OneAgentLoop)
        /\ EndedStaysEnded
  BY EachBehaves, LocksHold, LogoutIsFinal, NoStateIsSpentTwice, PairsFit, PluginSettingsSurvive,
     WhatIsSavedIsTold, HistoryStaysSound, ContextAlwaysFits, ChunksAlwaysSound,
     ManifestsAlwaysComplete, RetriesStaySound, ChecksAreCounted, JobTimesAgree, EndsCountedOnce,
     PipelineStaysSound, TerminalsStayOrderly, AgentLoopIsSingle, ShutdownSticks, EndsAreFinal, PTL
=============================================================================
