------------------------------ MODULE MCDevice ------------------------------
(***************************************************************************)
(* The update engine, the health thread and the provider router share no   *)
(* state: one run checks them one at a time.  `focus` names the one that   *)
(* moves in a behaviour, the other two stay where they began.              *)
(*                                                                         *)
(* Two updaters and two releases; two services, as in the default          *)
(* configuration; a chain of two providers and three requests.             *)
(***************************************************************************)
EXTENDS OTA, Supervisor, ProviderRouter

CONSTANTS u1, u2, v1, v2, ollama, chromadb, r1, r2, r3

MCUpdaters == {u1, u2}
MCReleases == {v1, v2}
MCServices == {ollama, chromadb}
MCOrder == <<ollama, chromadb>>
MCRequests == {r1, r2, r3}

VARIABLE focus

deviceVars == <<focus, otaVars, vars, routerVars>>

DeviceInit ==
    /\ focus \in {"ota", "supervisor", "router"}
    /\ OtaInit /\ (focus # "ota" => hasEnv /\ unsigned)
    /\ Init /\ (focus # "supervisor" => \A s \in Services : responds[s])
    /\ RouterInit

OtaMoves(A) == focus = "ota" /\ A /\ UNCHANGED <<focus, vars, routerVars>>
SupervisorMoves(A) == focus = "supervisor" /\ A /\ UNCHANGED <<focus, otaVars, routerVars>>
RouterMoves(A) == focus = "router" /\ A /\ UNCHANGED <<focus, otaVars, vars>>

DeviceNext ==
    \/ OtaMoves(OtaNext)
    \/ SupervisorMoves(Next)
    \/ RouterMoves(RouterNext)

\* OtaFairness, the fairness of Spec and RouterFairness.
DeviceFairness ==
    /\ WF_deviceVars(OtaMoves(Boot))
    /\ SF_deviceVars(OtaMoves(CountBoot \/ AutoRollback))
    /\ WF_deviceVars(OtaMoves(PowerOff /\ hooked /\ ~file.confirmed))
    /\ WF_deviceVars(SupervisorMoves(Thread))
    /\ \A r \in Requests : WF_deviceVars(RouterMoves(CallSucceeds(r) \/ CallFails(r)))
    /\ \A p \in Providers : WF_deviceVars(RouterMoves(Cool(p)))

DeviceSpec == DeviceInit /\ [][DeviceNext]_deviceVars /\ DeviceFairness
=============================================================================
