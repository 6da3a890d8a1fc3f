------------------------------- MODULE Packages -------------------------------
(***************************************************************************)
(* Tool packages of an image, build profiles and image builds              *)
(* (bmt_ai_os/dlc/registry.py, profiles.py and cli.py, the image commands  *)
(* of bmt_ai_os/cli.py, controller/image_routes.py).                       *)
(*                                                                         *)
(* A package is its place in packages.yml.  Targets, tiers, sizes and the  *)
(* warnings about them, which stop nothing, are left out.                  *)
(***************************************************************************)
EXTENDS Integers, Sequences, SequencesExt, Folding

CONSTANTS
    MaxPackage,   \* packages are 1 .. MaxPackage
    ImagePresets, \* packages.yml: the lists of packages of the presets
    Profiles,     \* profile ids; bounds the profiles ever made
    Builds        \* build ids; bounds the builds of one run of the controller

Packs == 1 .. MaxPackage

ASSUME PackagesAssumption ==
    MaxPackage \in Nat \ {0} /\ ImagePresets \subseteq Seq(Packs)

VARIABLES
    deps,      \* packages.yml: the dependencies of each package in it
    required,  \* packages.yml: the packages that are always included
    profile,   \* the profile files: the packages of each
    manifest,  \* the manager's manifest files, named after the profile
    buildFile, \* build-manifest-<profile>.json in an output directory
    build      \* _builds

packFile == <<deps, required>>
packVars == <<packFile, profile, manifest, buildFile, build>>

Known == DOMAIN deps
NoList == <<0>>
NoBuild == [profile |-> "none", status |-> "none", read |-> NoList]

\* A dependency may be missing from the file, and packages may need each other.
PackInit ==
    /\ \E known \in {1 .. MaxPackage - 1, Packs} :
         deps \in {d \in [known -> SUBSET Packs] : \A p \in known : p \notin d[p]}
    /\ required \in {{}, {1}}
    /\ profile = [f \in Profiles |-> NoList]
    /\ manifest = [f \in Profiles |-> NoList]
    /\ buildFile = [f \in Profiles |-> NoList]
    /\ build = [b \in Builds |-> NoBuild]

----------------------------------------------------------------------------
(* resolve_dependencies.                                                   *)

InOrder(set) == Kept([p \in Packs |-> p], Packs, set)

Found == [seen : SUBSET Packs, list : Seq(Known)]

\* Faulty: the dependencies of dependencies are left out.
ResolveDirect(selected) ==
    LET all == UNION {deps[p] : p \in Known \cap (required \cup Range(selected))}
    IN InOrder((all \cup required \cup Range(selected)) \cap Known)

\* _resolve, by how deep its calls may still go: a package is listed when all it
\* needs is listed, or is being visited further up.  Every call further down has
\* seen a package more, so none goes deeper than there are packages.
Visit[depth \in 0 .. MaxPackage] ==
    [p \in Packs |-> [found \in Found |->
        LET entered == [found EXCEPT !.seen = @ \cup {p}]
            below == Fold(Visit[depth - 1], entered, InOrder(deps[p]))
        IN  IF depth = 0 \/ p \in found.seen THEN found
            ELSE IF p \notin Known THEN entered
            ELSE [below EXCEPT !.list = Append(@, p)]]]

Resolve(selected) ==
    Fold(Visit[MaxPackage], [seen |-> {}, list |-> <<>>],
         InOrder(required \cap Known) \o selected).list

----------------------------------------------------------------------------
(* Profiles.                                                               *)

New(f) == profile[f] = NoList /\ manifest[f] = NoList /\ buildFile[f] = NoList

\* POST /profiles refuses unknown packages and saves the list as it is.
CreateProfile(f, selected) ==
    /\ New(f) /\ Range(selected) \subseteq Known
    /\ profile' = [profile EXCEPT ![f] = selected]
    /\ UNCHANGED <<packFile, manifest, buildFile, build>>

\* The wizard of the command line saves the resolved list; a package it does not
\* know is dropped without a word.
Configure(f, selected) ==
    /\ New(f)
    /\ profile' = [profile EXCEPT ![f] = Resolve(selected)]
    /\ UNCHANGED <<packFile, manifest, buildFile, build>>

\* `image configure`: the required packages among those of the tier are ticked and
\* stay so, the others are toggled at will; or the list of a preset is taken, which
\* may name anything.  The packages are saved unresolved, a set in no set order.
Wizard(f, selected) ==
    /\ New(f)
    /\ \/ \E available \in SUBSET Known :
            available \cap required \subseteq Range(selected) /\ Range(selected) \subseteq available
       \/ selected \in ImagePresets
    /\ profile' = [profile EXCEPT ![f] = selected]
    /\ UNCHANGED <<packFile, manifest, buildFile, build>>

DeleteProfile(f) ==
    /\ profile[f] # NoList
    /\ profile' = [profile EXCEPT ![f] = NoList]
    /\ UNCHANGED <<packFile, manifest, buildFile, build>>

\* BuildProfile.to_build_manifest
Manifest(f) == Resolve(profile[f])

\* export_build_manifest
Export(f) == manifest' = [manifest EXCEPT ![f] = Manifest(f)]

----------------------------------------------------------------------------
(* Builds.                                                                 *)

\* `build` of the dlc command: without a build script, or with --manifest-only,
\* that is all.
BuildByCommand(f) ==
    /\ profile[f] # NoList
    /\ buildFile' = [buildFile EXCEPT ![f] = Manifest(f)]
    /\ UNCHANGED <<packFile, profile, manifest, build>>

\* `image build` exports to the manager's file, which it hands to the build script.
ImageBuild(f) ==
    /\ profile[f] # NoList /\ Export(f)
    /\ UNCHANGED <<packFile, profile, buildFile, build>>

TriggerBuild(b, f) ==
    /\ profile[f] # NoList /\ build[b] = NoBuild
    /\ Export(f)
    /\ build' = [build EXCEPT ![b] = [profile |-> f, status |-> "pending", read |-> NoList]]
    /\ UNCHANGED <<packFile, profile, buildFile>>

\* _run_build: the script reads the manifest, or cannot be started.
RunBuild(b) ==
    /\ build[b].status = "pending"
    /\ \/ build' = [build EXCEPT ![b].status = "running", ![b].read = manifest[build[b].profile]]
       \/ build' = [build EXCEPT ![b].status = "failed"]
    /\ UNCHANGED <<packFile, profile, manifest, buildFile>>

BuildEnds(b) ==
    /\ build[b].status = "running"
    /\ \E status \in {"completed", "failed"} : build' = [build EXCEPT ![b].status = status]
    /\ UNCHANGED <<packFile, profile, manifest, buildFile>>

\* The files stay, the builds are forgotten.
RestartController ==
    /\ build' = [b \in Builds |-> NoBuild]
    /\ UNCHANGED <<packFile, profile, manifest, buildFile>>

PackNext ==
    \/ RestartController
    \/ \E f \in Profiles :
         \/ DeleteProfile(f) \/ BuildByCommand(f) \/ ImageBuild(f)
         \/ \E selected \in SetToAllKPermutations(Packs) \cup ImagePresets :
              CreateProfile(f, selected) \/ Configure(f, selected) \/ Wizard(f, selected)
    \/ \E b \in Builds : RunBuild(b) \/ BuildEnds(b) \/ \E f \in Profiles : TriggerBuild(b, f)

PackSpec == PackInit /\ [][PackNext]_packVars

----------------------------------------------------------------------------
BuildRecords ==
    [profile : Profiles, status : {"pending", "running", "completed", "failed"},
     read : Seq(Known) \cup {NoList}]

PackTypeOK ==
    /\ Known \subseteq Packs /\ deps \in [Known -> SUBSET Packs] /\ required \subseteq Packs
    /\ profile \in [Profiles -> Seq(Packs) \cup {NoList}]
    /\ {manifest, buildFile} \subseteq [Profiles -> Seq(Known) \cup {NoList}]
    /\ build \in [Builds -> BuildRecords \cup {NoBuild}]

IsClosed(set) == \A p \in set : deps[p] \cap Known \subseteq set
Below(p) == {q \in Known : \A s \in SUBSET Known : IsClosed(s) /\ p \in s => q \in s}

\* A manifest lists what its profile asks for, the required packages and all they
\* need, nothing else and nothing twice; a package comes after what it needs, unless
\* that needs the package in turn.  A build has read the manifest of its profile.
ManifestsAreComplete ==
    \A f \in Profiles : profile[f] # NoList =>
        LET wanted == UNION {Below(p) : p \in (required \cup Range(profile[f])) \cap Known}
        IN /\ \A list \in {manifest[f], buildFile[f]} \ {NoList} :
                /\ Range(list) = wanted
                /\ \A i, j \in DOMAIN list :
                     /\ i # j => list[i] # list[j]
                     /\ list[j] \in deps[list[i]] => j < i \/ list[i] \in Below(list[j])
           /\ \A b \in Builds : build[b].profile = f /\ build[b].status = "completed" =>
                build[b].read = manifest[f]
=============================================================================
