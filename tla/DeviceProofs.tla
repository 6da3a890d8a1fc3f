--------------------------- MODULE DeviceProofs -----------------------------
(***************************************************************************)
(* What is proved of the parts that act on the device: the update engine   *)
(* (module OTA), the health loop with the breakers of the services         *)
(* (Supervisor), and the router with the breakers of the providers         *)
(* (ProviderRouter), for every number of updaters, releases, commands,     *)
(* boots, services, threads, providers and requests.                       *)
(*                                                                         *)
(* Where a property is not inductive, the invariant behind it says what the *)
(* steps in progress still rely on: the slot an update is written to, the  *)
(* service a round of checks has not decided on, the request a half-open   *)
(* breaker has let through.                                                *)
(***************************************************************************)
EXTENDS OTA, Supervisor, ProviderRouter, FiniteSetTheorems, SequenceTheorems, TLAPS

----------------------------------------------------------------------------
(* The update engine: types.                                               *)

LEMMA OtaTypeInit == OtaInit => OtaTypeOK
<1> SUFFICES ASSUME OtaInit PROVE OtaTypeOK
  OBVIOUS
<1>1. 0 \in 0 .. Limit /\ 0 \in 0 .. MaxCommands
  BY OTAAssumption
<1>2. file \in File /\ file.standby = Other(file.current)
  BY <1>1 DEF OtaInit, File, Slots, Other
<1>3. upd \in [Updaters -> Work]
  BY DEF OtaInit, Idle, Work, Slots
<1>4. image \in [Slots -> Images] /\ wanted \in Images
  BY DEF OtaInit, Images, Slots
<1> QED
  BY <1>1, <1>2, <1>3, <1>4 DEF OtaInit, OtaTypeOK, Slots

\* Swapping the two pointers keeps them distinct.
LEMMA SwappedFacts ==
    ASSUME OtaTypeOK
    PROVE  /\ Swapped \in File
           /\ Swapped.current = file.standby /\ Swapped.standby = Other(Swapped.current)
           /\ Swapped.confirmed = FALSE /\ Swapped.bootcount = 0
<1>1. 0 \in 0 .. Limit
  BY OTAAssumption
<1>2. /\ file.current \in Slots /\ file.standby \in Slots
      /\ file.standby = Other(file.current)
  BY DEF OtaTypeOK, File
<1> QED
  BY <1>1, <1>2 DEF File, Swapped, Slots, Other

\* What an updater becomes when its command ends.
LEMMA EndedFacts ==
    ASSUME OtaTypeOK, NEW u \in Updaters
    PROVE  /\ Ended(u) = [upd EXCEPT ![u] = Ended(u)[u]]
           /\ Ended(u)[u] \in {Idle, [Idle EXCEPT !.step = "pull"]}
  BY DEF OtaTypeOK, Ended

\* The steps that only move one updater on.
LEMMA FoundFacts ==
    ASSUME OtaTypeOK, NEW u \in Updaters, NEW r \in Releases, Found(u, r)
    PROVE  /\ upd' = [upd EXCEPT ![u] = upd'[u]] /\ upd'[u] \in Work
           /\ upd'[u].step = "fetch" /\ upd'[u].release = r
           /\ upd'[u].target = IF upd[u].full THEN Other(CurrentSlot) ELSE upd[u].target
  BY DEF OtaTypeOK, Found, Work, Other, CurrentSlot, Slots

\* Counting a boot: the count stays within the limit, because at the limit
\* the init system rolls back instead.
LEMMA IncrementFacts ==
    ASSUME OtaTypeOK, IncrementBootcount, ~ShouldRollback, ~file.confirmed
    PROVE  /\ file' \in File
           /\ file'.current = file.current /\ file'.standby = file.standby
<1>1. file \in File /\ file.bootcount + 1 \in 0 .. Limit
  BY OTAAssumption DEF OtaTypeOK, ShouldRollback, File
<1> QED
  BY <1>1 DEF IncrementBootcount, File

\* An updater that fetches or writes has a release, one that switches has a
\* release or the image of a dry run.
ReleaseIsKnown ==
    \A u \in Updaters :
        /\ upd[u].step \in {"fetch", "write"} => upd[u].release \in Releases
        /\ upd[u].step = "switch" => upd[u].release \in Releases \cup {"elsewhere"}

\* Every action keeps the types.
LEMMA OtaTypeStep == OtaTypeOK /\ ReleaseIsKnown /\ [OtaNext]_otaVars => OtaTypeOK'
<1> SUFFICES ASSUME OtaTypeOK, ReleaseIsKnown, [OtaNext]_otaVars PROVE OtaTypeOK'
  OBVIOUS
<1> USE DEF boot, history
<1>1. /\ upd \in [Updaters -> Work] /\ file \in File /\ file.standby = Other(file.current)
      /\ image \in [Slots -> Images] /\ wanted \in Images /\ slotName \in Slots
  BY DEF OtaTypeOK
<1>2. Idle \in Work /\ [Idle EXCEPT !.step = "pull"] \in Work
  BY DEF Idle, Work, Slots
<1>3. \A u \in Updaters : Ended(u) \in [Updaters -> Work]
  BY <1>1, <1>2, EndedFacts
<1>4. Swapped \in File /\ Swapped.standby = Other(Swapped.current)
  BY SwappedFacts DEF File
<1>5. Other(CurrentSlot) \in Slots /\ file.current \in Slots /\ file.standby \in Slots
  BY <1>1 DEF Other, Slots, File
<1>6. Command => commands' \in 0 .. MaxCommands /\ overlapped' \in BOOLEAN
  BY OTAAssumption DEF OtaTypeOK, Command
<1>7. ASSUME NEW u \in Updaters, NEW work \in Work, StartUpdate(u, work) PROVE OtaTypeOK'
  BY <1>1, <1>6, <1>7 DEF OtaTypeOK, StartUpdate
<1>8. ASSUME NEW u \in Updaters, StartApply(u) \/ StartRun(u) PROVE OtaTypeOK'
  <2>1. /\ [Idle EXCEPT !.step = "check", !.target = Other(CurrentSlot)] \in Work
        /\ [Idle EXCEPT !.step = "check", !.full = TRUE] \in Work
    BY <1>5 DEF Idle, Work, Slots
  <2> QED
    BY <1>7, <1>8, <2>1 DEF StartApply, StartRun
<1>9. ASSUME NEW u \in Updaters, NoUpdate(u) \/ DownloadFails(u) PROVE OtaTypeOK'
  BY <1>3, <1>9 DEF OtaTypeOK, NoUpdate, DownloadFails
<1>10. ASSUME NEW u \in Updaters, NEW r \in Releases, Found(u, r) PROVE OtaTypeOK'
  <2>1. upd' \in [Updaters -> Work]
    BY <1>1, <1>10, FoundFacts
  <2> QED
    BY <1>10, <2>1 DEF OtaTypeOK, Found
<1>11. ASSUME NEW u \in Updaters, Refused(u) \/ PullContainers(u) PROVE OtaTypeOK'
  <2>1. upd' \in [Updaters -> Work]
    BY <1>1, <1>2, <1>11 DEF Refused, PullContainers
  <2> QED
    BY <1>11, <2>1 DEF OtaTypeOK, Refused, PullContainers
<1>12. ASSUME NEW u \in Updaters, DryRun(u) PROVE OtaTypeOK'
  <2>1. upd' \in [Updaters -> Work]
    BY <1>1, <1>12 DEF DryRun, Work
  <2> QED
    BY <1>12, <2>1 DEF OtaTypeOK, DryRun
<1>13. ASSUME NEW u \in Updaters, StartWrite(u) \/ WriteFails(u) \/ WriteDone(u) PROVE OtaTypeOK'
  <2>1. upd' \in [Updaters -> Work]
    <3>1. /\ [upd[u] EXCEPT !.step = "write"] \in Work
          /\ [upd[u] EXCEPT !.step = "switch"] \in Work
      BY <1>1 DEF Work
    <3> QED
      BY <1>1, <1>3, <1>13, <3>1 DEF StartWrite, WriteFails, WriteDone
  <2>2. image' \in [Slots -> Images]
    <3>1. WriteDone(u) => upd[u].release \in Images
      BY DEF WriteDone, ReleaseIsKnown, Images
    <3> QED
      BY <1>1, <1>13, <3>1 DEF StartWrite, WriteFails, WriteDone, Images
  <2> QED
    BY <1>1, <1>13, <2>1, <2>2 DEF OtaTypeOK, StartWrite, WriteFails, WriteDone
<1>14. ASSUME NEW u \in Updaters, Switch(u) PROVE OtaTypeOK'
  <2>1. wanted' \in Images
    <3>1. upd[u].release = "elsewhere" \/ upd[u].release \in Releases
      BY <1>1, <1>14 DEF Switch, ReleaseIsKnown, Work
    <3> QED
      BY <1>1, <1>5, <1>14, <3>1 DEF Switch, Images
  <2>2. upd' \in [Updaters -> Work] /\ file' \in File /\ file'.standby = Other(file'.current)
    BY <1>3, <1>4, <1>14 DEF Switch
  <2>3. blind' \in BOOLEAN
    BY <1>14 DEF Switch
  <2>4. UNCHANGED <<boot, slotName, image, confirming, commands, overlapped, undone>>
    BY <1>14 DEF Switch
  <2> QED
    BY <2>1, <2>2, <2>3, <2>4 DEF OtaTypeOK
<1>15. CASE StartConfirm
  BY <1>1, <1>5, <1>15 DEF OtaTypeOK, StartConfirm
<1>16. CASE EndConfirm
  <2>1. confirming \in Slots /\ Other(confirming) \in Slots /\ 0 \in 0 .. Limit
    BY <1>16, OTAAssumption DEF OtaTypeOK, EndConfirm, Other, Slots
  <2>2. file' \in File /\ file'.standby = Other(file'.current)
    BY <1>16, <2>1 DEF EndConfirm, File
  <2> QED
    BY <1>16, <2>2 DEF OtaTypeOK, EndConfirm
<1>17. ASSUME RollbackUpdate
       PROVE  /\ file' \in File /\ file'.standby = Other(file'.current)
              /\ slotName' \in Slots /\ wanted' \in Images /\ blind' \in BOOLEAN
  BY <1>1, <1>4, <1>5, <1>17 DEF OtaTypeOK, RollbackUpdate
<1>18. CASE Rollback
  BY <1>6, <1>17, <1>18 DEF OtaTypeOK, Rollback
<1>19. CASE AutoRollback
  <2>1. /\ file' \in File /\ file'.standby = Other(file'.current)
        /\ slotName' \in Slots /\ wanted' \in Images /\ blind' \in BOOLEAN
    BY <1>17, <1>19 DEF AutoRollback
  <2>2. on' = FALSE /\ UNCHANGED <<hasEnv, unsigned, running, hooked, image, upd, confirming,
                                   commands, overlapped, undone>>
    BY <1>19 DEF AutoRollback
  <2> QED
    BY <2>1, <2>2 DEF OtaTypeOK
<1>20. CASE PowerOff
  <2>1. upd' \in [Updaters -> Work]
    BY <1>2, <1>20 DEF PowerOff
  <2>2. /\ on' = FALSE /\ confirming' = "no"
        /\ UNCHANGED <<hasEnv, unsigned, running, hooked, slotName, file, image, commands, history>>
    BY <1>20 DEF PowerOff
  <2> QED
    BY <2>1, <2>2 DEF OtaTypeOK
<1>21. CASE Boot
  BY <1>1, <1>5, <1>21 DEF OtaTypeOK, Boot, BootSlot
<1>22. CASE CountBoot
  <2>1. file' \in File /\ file'.standby = Other(file'.current)
    BY <1>1, <1>22, IncrementFacts DEF CountBoot
  <2> QED
    BY <1>22, <2>1 DEF OtaTypeOK, CountBoot
<1>23. CASE UNCHANGED otaVars
  BY <1>23 DEF OtaTypeOK, otaVars
<1> QED
  BY <1>8, <1>9, <1>10, <1>11, <1>12, <1>13, <1>14, <1>15, <1>16, <1>18, <1>19, <1>20,
     <1>21, <1>22, <1>23 DEF OtaNext

----------------------------------------------------------------------------
(* The slots.                                                              *)

\* Until two commands have overlapped, one updater at most is under way.
OneAtATime ==
    ~overlapped => \A u, v \in Updaters : Active(u) /\ Active(v) => u = v

\* No updater and no confirmation lives through a reboot.
NothingSurvivesReboot ==
    ~(on /\ hooked) => confirming = "no" /\ \A u \in Updaters : upd[u] = Idle

\* An updater that knows its target will write the slot that would not boot.
TargetsOtherSlot ==
    ~overlapped /\ ~undone =>
        \A u \in Updaters :
            Active(u) /\ ~(upd[u].step = "check" /\ upd[u].full) =>
                upd[u].target = Other(CurrentSlot)

\* What is about to be switched to is the release that was read back.
WrittenIsRelease ==
    ~overlapped =>
        \A u \in Updaters :
            upd[u].step = "switch" /\ upd[u].release # "elsewhere" =>
                image[upd[u].target] = upd[u].release

\* The inductive invariant behind BootSlotIsWhole and NextBootIsWanted.
SlotsInv ==
    /\ ReleaseIsKnown
    /\ OneAtATime
    /\ NothingSurvivesReboot
    /\ TargetsOtherSlot
    /\ WrittenIsRelease
    /\ BootSlotIsWhole
    /\ NextBootIsWanted

LEMMA SlotsInit == OtaInit => SlotsInv
  BY OTAAssumption
  DEF OtaInit, SlotsInv, ReleaseIsKnown, OneAtATime, NothingSurvivesReboot, TargetsOtherSlot,
      WrittenIsRelease, BootSlotIsWhole, NextBootIsWanted, Active, Idle, IsWhole, BootSlot, Slots

\* One updater alone is under way.
LEMMA Alone ==
    ASSUME SlotsInv, ~overlapped, NEW u \in Updaters, Active(u)
    PROVE  \A v \in Updaters \ {u} : ~Active(v)
  BY DEF SlotsInv, OneAtATime

\* An updater that is not idle runs on a device that is up.
LEMMA UpdaterIsUp ==
    ASSUME SlotsInv, NEW u \in Updaters, upd[u].step # "idle"
    PROVE  on /\ hooked
  BY DEF SlotsInv, NothingSurvivesReboot, Idle

\* A release is an image.
LEMMA ReleasesAreWhole == \A r \in Releases : r \notin {"empty", "torn", "elsewhere"}
  BY OTAAssumption

\* A step of one updater that leaves the slots and the pointers alone.
LEMMA UpdaterMoves ==
    ASSUME OtaTypeOK, SlotsInv, NEW u \in Updaters, on, hooked,
           UNCHANGED <<boot, slotName, file, image, confirming, wanted, blind, undone>>,
           overlapped => overlapped',
           \A v \in Updaters \ {u} : upd'[v] = upd[v],
           Active(u)' => Active(u) \/ (\A v \in Updaters : ~Active(v)) \/ overlapped',
           ~overlapped' /\ ~undone /\ Active(u)' /\ ~(upd'[u].step = "check" /\ upd'[u].full) =>
               upd'[u].target = Other(CurrentSlot),
           upd'[u].step = "switch" => upd'[u].release = "elsewhere",
           upd'[u].step \in {"fetch", "write"} => upd'[u].release \in Releases
    PROVE  SlotsInv'
<1> USE DEF SlotsInv, boot
<1>1. ReleaseIsKnown'
  BY DEF ReleaseIsKnown
<1>2. OneAtATime'
  BY DEF OneAtATime, Active
<1>3. NothingSurvivesReboot'
  BY DEF NothingSurvivesReboot
<1>4. CurrentSlot' = CurrentSlot /\ BootSlot' = BootSlot
  BY DEF CurrentSlot, BootSlot
<1>5. TargetsOtherSlot'
  BY <1>4 DEF TargetsOtherSlot, Active
<1>6. WrittenIsRelease'
  BY DEF WrittenIsRelease
<1>7. BootSlotIsWhole' /\ NextBootIsWanted'
  BY <1>4 DEF BootSlotIsWhole, NextBootIsWanted, IsWhole
<1> QED
  BY <1>1, <1>2, <1>3, <1>5, <1>6, <1>7

\* A step of an update that writes its slot.
LEMMA SlotIsWritten ==
    ASSUME OtaTypeOK, SlotsInv, NEW u \in Updaters, Active(u), upd[u].step # "check",
           UNCHANGED <<boot, slotName, file, confirming, history>>,
           upd' = [upd EXCEPT ![u] = upd'[u]],
           \A s \in Slots \ {upd[u].target} : image'[s] = image[s],
           Active(u)' => upd'[u].target = upd[u].target /\ upd'[u].release = upd[u].release,
           Active(u)' => upd'[u].step \in {"write", "switch"},
           upd[u].release \in Releases,
           ~overlapped /\ upd'[u].step = "switch" => image'[upd[u].target] = upd[u].release
    PROVE  SlotsInv'
<1> USE DEF SlotsInv, boot, history
<1>1. \A v \in Updaters \ {u} : upd'[v] = upd[v]
  BY DEF OtaTypeOK
<1>2. ReleaseIsKnown'
  BY <1>1 DEF ReleaseIsKnown, Active
<1>3. OneAtATime'
  BY <1>1 DEF OneAtATime, Active
<1>4. NothingSurvivesReboot'
  BY UpdaterIsUp DEF NothingSurvivesReboot, Active
<1>5. CurrentSlot' = CurrentSlot /\ BootSlot' = BootSlot /\ BootSlot = CurrentSlot
  BY DEF CurrentSlot, BootSlot
<1>6. TargetsOtherSlot'
  BY <1>1, <1>5 DEF TargetsOtherSlot, Active
<1>7. WrittenIsRelease'
  BY <1>1, Alone DEF WrittenIsRelease, Active
<1>8. ASSUME ~overlapped, ~undone PROVE image'[BootSlot] = image[BootSlot]
  <2>1. upd[u].target = Other(CurrentSlot)
    BY <1>8 DEF TargetsOtherSlot
  <2>2. CurrentSlot \in Slots /\ CurrentSlot # Other(CurrentSlot)
    BY DEF OtaTypeOK, File, CurrentSlot, Slots, Other
  <2> QED
    BY <1>5, <2>1, <2>2
<1>9. BootSlotIsWhole' /\ NextBootIsWanted'
  BY <1>5, <1>8 DEF BootSlotIsWhole, NextBootIsWanted, IsWhole
<1> QED
  BY <1>2, <1>3, <1>4, <1>6, <1>7, <1>9

\* A swap of the pointers by the one command under way, or by the init system.
LEMMA PointersSwap ==
    ASSUME OtaTypeOK, SlotsInv, on, hooked' = hooked, hasEnv' = hasEnv,
           UNCHANGED <<image, confirming, undone>>,
           file' = Swapped,
           slotName' \in IF hasEnv THEN {slotName, file.standby} ELSE {slotName},
           ReleaseIsKnown', NothingSurvivesReboot', OneAtATime',
           ~overlapped' => ~overlapped /\ \A v \in Updaters : ~Active(v)',
           ~overlapped' /\ ~undone /\ ~hasEnv => wanted' = image[file.standby],
           ~overlapped' /\ ~blind' /\ ~undone =>
               ~blind /\ (~hasEnv \/ slotName' # slotName => IsWhole(file.standby))
    PROVE  SlotsInv'
<1>1. TargetsOtherSlot' /\ WrittenIsRelease'
  BY DEF TargetsOtherSlot, WrittenIsRelease, Active
<1>2. BootSlot' = IF hasEnv THEN slotName' ELSE file.standby
  BY SwappedFacts DEF BootSlot
<1>3. hasEnv => slotName' \in {slotName, file.standby}
  OBVIOUS
<1>4. BootSlotIsWhole'
  BY <1>2, <1>3 DEF SlotsInv, BootSlotIsWhole, BootSlot, IsWhole
<1>5. NextBootIsWanted'
  BY <1>2 DEF NextBootIsWanted
<1> QED
  BY <1>1, <1>4, <1>5 DEF SlotsInv

\* The switch at the end of an update: the slot it makes current is the one
\* the update has written.
LEMMA SwitchKeepsSlots ==
    ASSUME OtaTypeOK, SlotsInv, NEW u \in Updaters, Switch(u)
    PROVE  SlotsInv'
<1> USE DEF boot, history
<1>1. /\ upd[u].step = "switch" /\ upd' = Ended(u) /\ Active(u)
      /\ file' = Swapped /\ UNCHANGED <<boot, slotName, image, confirming, overlapped, undone>>
  BY DEF Switch, Active
<1>2. on /\ hooked
  BY <1>1, UpdaterIsUp
<1>3. /\ upd'[u].step \in {"idle", "pull"} /\ ~Active(u)'
      /\ \A v \in Updaters \ {u} : upd'[v] = upd[v]
  BY <1>1 DEF OtaTypeOK, Ended, Idle, Active
<1>4. ReleaseIsKnown' /\ OneAtATime' /\ NothingSurvivesReboot'
  BY <1>1, <1>2, <1>3
  DEF SlotsInv, ReleaseIsKnown, OneAtATime, NothingSurvivesReboot, Active
<1>5. ~overlapped => \A v \in Updaters : ~Active(v)'
  BY <1>1, <1>3, Alone DEF Active
<1>6. ASSUME ~overlapped, ~undone, upd[u].release # "elsewhere", ~hasEnv
      PROVE  image[file.standby] = upd[u].release /\ IsWhole(file.standby)
  <2>1. upd[u].target = file.standby
    BY <1>1, <1>6 DEF SlotsInv, TargetsOtherSlot, CurrentSlot, OtaTypeOK
  <2>2. upd[u].release \in Releases
    BY <1>1, <1>6 DEF SlotsInv, ReleaseIsKnown
  <2> QED
    BY <1>1, <1>6, <2>1, <2>2, ReleasesAreWhole DEF SlotsInv, WrittenIsRelease, IsWhole
<1>7. /\ upd[u].release = "elsewhere" => wanted' = image[file.standby]
      /\ upd[u].release # "elsewhere" => wanted' = upd[u].release
      /\ ~blind' => ~blind /\ (upd[u].release = "elsewhere" => IsWhole(file.standby))
  BY DEF Switch
<1> QED
  BY <1>1, <1>2, <1>4, <1>5, <1>6, <1>7, PointersSwap

\* A rollback of the operator, who has waited for the updates to end, or of
\* the init system, before any update can have started.
LEMMA RollbackKeepsSlots ==
    ASSUME OtaTypeOK, SlotsInv, Rollback \/ AutoRollback
    PROVE  SlotsInv'
<1> USE DEF boot
<1>1. on /\ UNCHANGED <<hasEnv, hooked, upd, image, confirming, undone>> /\ RollbackUpdate
  BY DEF Rollback, AutoRollback
<1>2. /\ file' = Swapped
      /\ slotName' \in IF hasEnv THEN {slotName, file.standby} ELSE {slotName}
      /\ wanted' = image[file.standby]
      /\ ~blind' => ~blind /\ IsWhole(file.standby)
  BY <1>1 DEF RollbackUpdate
<1>3. ~overlapped' => ~overlapped /\ \A v \in Updaters : ~Active(v)
  <2>1. CASE Rollback
    BY <2>1 DEF Rollback, Command
  <2>2. CASE AutoRollback
    <3>1. \A v \in Updaters : upd[v] = Idle
      BY <2>2 DEF AutoRollback, SlotsInv, NothingSurvivesReboot
    <3> QED
      BY <2>2, <3>1 DEF AutoRollback, Active, Idle
  <2> QED
    BY <2>1, <2>2
<1>4. ReleaseIsKnown' /\ OneAtATime'
  BY <1>1, <1>3 DEF SlotsInv, ReleaseIsKnown, OneAtATime, Active
<1>5. NothingSurvivesReboot'
  BY <1>1 DEF SlotsInv, NothingSurvivesReboot, Rollback, AutoRollback
<1> QED
  BY <1>1, <1>2, <1>3, <1>4, <1>5, PointersSwap DEF Active

\* A step of an updater, but for the switch.
LEMMA UpdaterKeepsSlots ==
    ASSUME OtaTypeOK, SlotsInv, NEW u \in Updaters,
           \/ StartApply(u) \/ StartRun(u) \/ NoUpdate(u) \/ \E r \in Releases : Found(u, r)
           \/ DownloadFails(u) \/ Refused(u) \/ DryRun(u)
           \/ StartWrite(u) \/ WriteFails(u) \/ WriteDone(u) \/ PullContainers(u)
    PROVE  SlotsInv'
<1> USE DEF boot, history
<1>1. upd \in [Updaters -> Work]
  BY DEF OtaTypeOK
<1>2. upd[u].step # "idle" => on /\ hooked
  BY UpdaterIsUp
<1>3. CASE StartApply(u) \/ StartRun(u)
  <2>1. PICK work \in {[Idle EXCEPT !.step = "check", !.target = Other(CurrentSlot)],
                       [Idle EXCEPT !.step = "check", !.full = TRUE]} :
           StartUpdate(u, work)
    BY <1>3 DEF StartApply, StartRun
  <2>2. /\ work.step = "check" /\ (work.full \/ work.target = Other(CurrentSlot))
    BY DEF Idle
  <2>3. /\ on /\ hooked /\ upd'[u] = work /\ \A v \in Updaters \ {u} : upd'[v] = upd[v]
        /\ UNCHANGED <<boot, slotName, file, image, confirming, wanted, blind, undone>>
        /\ ~overlapped /\ (overlapped' \/ \A v \in Updaters : ~Active(v))
    BY <1>1, <2>1 DEF StartUpdate, Command
  <2> QED
    BY <2>2, <2>3, UpdaterMoves
<1>4. CASE NoUpdate(u) \/ DownloadFails(u) \/ Refused(u) \/ PullContainers(u)
  <2>1. /\ upd'[u].step \in {"idle", "pull"} /\ \A v \in Updaters \ {u} : upd'[v] = upd[v]
    BY <1>1, <1>4 DEF NoUpdate, DownloadFails, Refused, PullContainers, Ended, Idle
  <2>2. ~Active(u)'
    BY <2>1 DEF Active
  <2>3. /\ upd[u].step # "idle"
        /\ UNCHANGED <<boot, slotName, file, image, confirming, overlapped, wanted, blind, undone>>
    BY <1>4 DEF NoUpdate, DownloadFails, Refused, PullContainers
  <2> QED
    BY <1>2, <2>1, <2>2, <2>3, UpdaterMoves
<1>5. CASE \E r \in Releases : Found(u, r)
  <2>1. PICK r \in Releases : Found(u, r)
    BY <1>5
  <2>2. /\ upd[u].step = "check" /\ Active(u)
        /\ \A v \in Updaters \ {u} : upd'[v] = upd[v]
        /\ UNCHANGED <<boot, slotName, file, image, confirming, overlapped, wanted, blind, undone>>
    BY <1>1, <2>1, FoundFacts DEF Found, Active
  <2>3. /\ upd'[u].step = "fetch" /\ upd'[u].release = r
        /\ upd'[u].target = IF upd[u].full THEN Other(CurrentSlot) ELSE upd[u].target
    BY <2>1, FoundFacts
  <2>4. ~overlapped /\ ~undone => upd'[u].target = Other(CurrentSlot)
    BY <1>1, <2>2, <2>3 DEF SlotsInv, TargetsOtherSlot, Work
  <2> QED
    BY <1>2, <2>2, <2>3, <2>4, UpdaterMoves
<1>6. CASE DryRun(u)
  <2>1. /\ upd[u].step = "fetch" /\ Active(u)
        /\ \A v \in Updaters \ {u} : upd'[v] = upd[v]
        /\ upd'[u].step = "switch" /\ upd'[u].release = "elsewhere"
        /\ upd'[u].target = upd[u].target
        /\ UNCHANGED <<boot, slotName, file, image, confirming, overlapped, wanted, blind, undone>>
    BY <1>1, <1>6 DEF DryRun, Active, Work
  <2>2. ~overlapped /\ ~undone => upd'[u].target = Other(CurrentSlot)
    BY <2>1 DEF SlotsInv, TargetsOtherSlot
  <2> QED
    BY <1>2, <2>1, <2>2, UpdaterMoves
<1>7. CASE StartWrite(u) \/ WriteFails(u) \/ WriteDone(u)
  <2>1. /\ upd[u].step \in {"fetch", "write"} /\ Active(u) /\ upd[u].release \in Releases
        /\ UNCHANGED <<boot, slotName, file, confirming, history>>
    BY <1>7 DEF StartWrite, WriteFails, WriteDone, Active, SlotsInv, ReleaseIsKnown
  <2>2. \A s \in Slots \ {upd[u].target} : image'[s] = image[s]
    BY <1>7 DEF OtaTypeOK, StartWrite, WriteFails, WriteDone
  <2>3. CASE WriteFails(u)
    <3>1. upd' = [upd EXCEPT ![u] = upd'[u]] /\ upd'[u].step \in {"idle", "pull"}
      BY <1>1, <2>3 DEF WriteFails, Ended, Idle
    <3>2. ~Active(u)'
      BY <3>1 DEF Active
    <3> QED
      BY <2>1, <2>2, <3>1, <3>2, SlotIsWritten
  <2>4. CASE StartWrite(u)
    <3>1. /\ upd' = [upd EXCEPT ![u] = upd'[u]] /\ upd'[u].step = "write"
          /\ upd'[u].target = upd[u].target /\ upd'[u].release = upd[u].release
      BY <1>1, <2>4 DEF StartWrite, Work
    <3> QED
      BY <2>1, <2>2, <3>1, SlotIsWritten
  <2>5. CASE WriteDone(u)
    <3>1. /\ upd' = [upd EXCEPT ![u] = upd'[u]] /\ upd'[u].step = "switch"
          /\ upd'[u].target = upd[u].target /\ upd'[u].release = upd[u].release
      BY <1>1, <2>5 DEF WriteDone, Work
    <3>2. ~overlapped => \A v \in Updaters \ {u} : upd[v].step # "write"
      BY <2>1, Alone DEF Active
    <3>3. ~overlapped => image'[upd[u].target] = upd[u].release
      <4>1. image \in [Slots -> Images] /\ upd[u].target \in Slots
        BY <1>1 DEF OtaTypeOK, Work
      <4> QED
        BY <2>5, <3>2, <4>1 DEF WriteDone
    <3> QED
      BY <2>1, <2>2, <3>1, <3>3, SlotIsWritten
  <2> QED
    BY <1>7, <2>3, <2>4, <2>5
<1> QED
  BY <1>3, <1>4, <1>5, <1>6, <1>7

\* Confirming, power loss, booting and counting a boot.
LEMMA DeviceKeepsSlots ==
    ASSUME OtaTypeOK, SlotsInv, StartConfirm \/ EndConfirm \/ PowerOff \/ Boot \/ CountBoot
    PROVE  SlotsInv'
<1> USE DEF boot, history
<1>1. CASE StartConfirm
  BY <1>1 DEF StartConfirm, SlotsInv, ReleaseIsKnown, OneAtATime, NothingSurvivesReboot,
     TargetsOtherSlot, WrittenIsRelease, BootSlotIsWhole, NextBootIsWanted, Active, IsWhole,
     BootSlot, CurrentSlot
<1>2. CASE EndConfirm
  <2>1. /\ confirming # "no" /\ confirming' = "no" /\ on /\ hooked
        /\ UNCHANGED <<boot, slotName, image, upd, wanted, overlapped, blind>>
        /\ file'.current = confirming
        /\ ~undone' => ~undone /\ file'.current = file.current
    BY <1>2 DEF EndConfirm, SlotsInv, NothingSurvivesReboot
  <2>2. ~undone' => CurrentSlot' = CurrentSlot /\ BootSlot' = BootSlot
    BY <2>1 DEF CurrentSlot, BootSlot
  <2>3. ReleaseIsKnown' /\ OneAtATime' /\ NothingSurvivesReboot' /\ WrittenIsRelease'
    BY <2>1 DEF SlotsInv, ReleaseIsKnown, OneAtATime, NothingSurvivesReboot, WrittenIsRelease, Active
  <2>4. TargetsOtherSlot' /\ BootSlotIsWhole' /\ NextBootIsWanted'
    BY <2>1, <2>2 DEF SlotsInv, TargetsOtherSlot, BootSlotIsWhole, NextBootIsWanted, Active, IsWhole
  <2> QED
    BY <2>3, <2>4 DEF SlotsInv
<1>3. CASE PowerOff
  BY <1>3 DEF PowerOff, SlotsInv, ReleaseIsKnown, OneAtATime, NothingSurvivesReboot,
     TargetsOtherSlot, WrittenIsRelease, BootSlotIsWhole, NextBootIsWanted, Active, IsWhole,
     BootSlot, CurrentSlot, Idle
<1>4. CASE Boot
  BY <1>4 DEF Boot, SlotsInv, ReleaseIsKnown, OneAtATime, NothingSurvivesReboot,
     TargetsOtherSlot, WrittenIsRelease, BootSlotIsWhole, NextBootIsWanted, Active, IsWhole,
     BootSlot, CurrentSlot
<1>5. CASE CountBoot
  <2>1. /\ UNCHANGED <<hasEnv, on, slotName, image, upd, confirming, wanted, overlapped, blind, undone>>
        /\ on /\ hooked' = TRUE
    BY <1>5 DEF CountBoot
  <2>2. file'.current = file.current
    BY <1>5, IncrementFacts DEF CountBoot
  <2>3. CurrentSlot' = CurrentSlot /\ BootSlot' = BootSlot
    BY <2>1, <2>2 DEF CurrentSlot, BootSlot
  <2> QED
    BY <2>1, <2>3 DEF SlotsInv, ReleaseIsKnown, OneAtATime, NothingSurvivesReboot,
     TargetsOtherSlot, WrittenIsRelease, BootSlotIsWhole, NextBootIsWanted, Active, IsWhole
<1> QED
  BY <1>1, <1>2, <1>3, <1>4, <1>5

\* Every action keeps the invariant.
LEMMA SlotsStep == OtaTypeOK /\ SlotsInv /\ [OtaNext]_otaVars => SlotsInv'
<1> SUFFICES ASSUME OtaTypeOK, SlotsInv, [OtaNext]_otaVars PROVE SlotsInv'
  OBVIOUS
<1>1. CASE UNCHANGED otaVars
  BY <1>1 DEF otaVars, boot, history, SlotsInv, ReleaseIsKnown, OneAtATime, NothingSurvivesReboot,
     TargetsOtherSlot, WrittenIsRelease, BootSlotIsWhole, NextBootIsWanted, Active, IsWhole,
     BootSlot, CurrentSlot
<1> QED
  BY <1>1, UpdaterKeepsSlots, SwitchKeepsSlots, RollbackKeepsSlots, DeviceKeepsSlots DEF OtaNext

\* The update engine is well typed and keeps the invariant of the slots,
\* whatever fails and whenever the power goes.
THEOREM SlotsAlways == OtaSpec => [](OtaTypeOK /\ SlotsInv)
<1>1. OtaInit => OtaTypeOK /\ SlotsInv
  BY OtaTypeInit, SlotsInit
<1>2. OtaTypeOK /\ SlotsInv /\ [OtaNext]_otaVars => (OtaTypeOK /\ SlotsInv)'
  BY OtaTypeStep, SlotsStep DEF SlotsInv
<1> QED
  BY <1>1, <1>2, PTL DEF OtaSpec

\* Every variable of the update engine stays in its type.
THEOREM OtaTypeCorrect == OtaSpec => []OtaTypeOK
<1> QED
  BY SlotsAlways, PTL

\* The slot that would boot is never empty or half written, as long as
\* commands run one at a time and nobody switches blindly.
THEOREM DeviceCanBoot == OtaSpec => []BootSlotIsWhole
<1>1. SlotsInv => BootSlotIsWhole
  BY DEF SlotsInv
<1> QED
  BY <1>1, SlotsAlways, PTL

\* On a board without U-Boot the slot that boots next is the one that the
\* last completed command selected.
THEOREM NextBootIsSelected == OtaSpec => []NextBootIsWanted
<1>1. SlotsInv => NextBootIsWanted
  BY DEF SlotsInv
<1> QED
  BY <1>1, SlotsAlways, PTL

----------------------------------------------------------------------------
(* The health loop and its breakers.                                       *)

\* s has failed this round's check and its restart is still to be decided.
Undecided(s) ==
    \E i \in DOMAIN Order :
        Order[i] = s /\ \/ phase = "check" /\ i < pos
                        \/ phase = "decide" /\ i >= pos

\* While the breaker is closed, each restart of an outage was tried at a
\* failure count of its own.
Spent(s) ==
    \/ attempts[s] = 0
    \/ attempts[s] <= failureCount[s] - MaxRestarts + (IF Undecided(s) THEN 0 ELSE 1)

SupervisorInv ==
    /\ TypeOK
    /\ ClosedWhileFewFailures
    /\ RestartsAreLimited
    /\ \A s \in Services : circuit[s] = "closed" => Spent(s)

\* Positions of the thread: the visited service is one of Services.
LEMMA VisitedFacts ==
    ASSUME pos \in DOMAIN Order
    PROVE  /\ Visited \in Services
           /\ pos \in 1 .. Len(Order) /\ Len(Order) \in Nat /\ DOMAIN Order = 1 .. Len(Order)
  BY SupervisorAssumption DEF Visited

\* A capped counter is a number up to its bound.
LEMMA CappedFacts ==
    ASSUME NEW n \in Nat, NEW bound \in Nat
    PROVE  /\ Capped(n, bound) \in 0 .. bound
           /\ Capped(n, bound) <= n
           /\ n <= bound => Capped(n, bound) = n
           /\ n > bound => Capped(n, bound) = bound
  BY DEF Capped

\* The parameters are numbers.
LEMMA ParameterFacts ==
    /\ MaxRestarts \in Nat /\ Threshold \in Nat /\ Threshold > 0
    /\ ResetTimeout \in Nat /\ ResetTimeout > 0 /\ RestartMax \in Nat
    /\ CountMax \in Nat /\ CountMax = Threshold + MaxRestarts /\ CountMax >= Threshold
  BY SupervisorAssumption DEF CountMax

\* Advancing stays within Order.
LEMMA AdvanceFacts ==
    ASSUME pos \in DOMAIN Order, NEW next, Advance(next)
    PROVE  /\ pos' \in DOMAIN Order
           /\ \/ pos' = 1 /\ phase' = next /\ pos = Len(Order)
              \/ pos' = pos + 1 /\ phase' = phase /\ pos < Len(Order)
  <1>1. pos \in 1 .. Len(Order) /\ Len(Order) \in Nat /\ DOMAIN Order = 1 .. Len(Order)
    BY VisitedFacts
  <1>2. CASE pos < Len(Order)
    BY <1>1, <1>2 DEF Advance
  <1>3. CASE ~(pos < Len(Order))
    <2>1. pos = Len(Order) /\ 1 \in DOMAIN Order
      BY <1>1, <1>3
    <2>2. pos' = 1 /\ phase' = next
      BY <1>3 DEF Advance
    <2> QED
      BY <2>1, <2>2
  <1> QED
    BY <1>2, <1>3

\* The initial state satisfies the invariant.
LEMMA SupervisorInit == Init => SupervisorInv
  <1> SUFFICES ASSUME Init PROVE SupervisorInv
    OBVIOUS
  <1>0. 1 \in DOMAIN Order
    BY SupervisorAssumption
  <1>1. TypeOK
    BY <1>0, ParameterFacts DEF TypeOK, Init
  <1>2. ClosedWhileFewFailures
    BY ParameterFacts DEF ClosedWhileFewFailures, Init
  <1>3. \A s \in Services : Spent(s)
    BY DEF Spent, Init
  <1>4. RestartsAreLimited
    <2>1. 0 <= IF MaxRestarts < Threshold THEN Threshold - Capped(MaxRestarts, Threshold)
               ELSE 0
      BY ParameterFacts DEF Capped
    <2> QED
      BY <2>1 DEF RestartsAreLimited, Init
  <1> QED
    BY <1>1, <1>2, <1>3, <1>4 DEF SupervisorInv

\* A restart keeps the types of what it changes.
LEMMA RestartsType ==
    ASSUME TypeOK, ClosedWhileFewFailures, Restarts(Visited)
    PROVE  /\ age' \in [Services -> 0 .. ResetTimeout]
           /\ circuit' \in [Services -> {"closed", "open", "half_open"}]
           /\ attempts' \in [Services -> Nat]
           /\ ClosedWhileFewFailures'
  <1>v. Visited \in Services
    BY VisitedFacts DEF TypeOK
  <1>1. age' \in [Services -> 0 .. ResetTimeout]
    <2>1. PICK n \in 0 .. RestartMax :
             age' = [s \in Services |-> Capped(age[s] + n, ResetTimeout)]
      BY DEF Restarts
    <2>2. \A s \in Services : Capped(age[s] + n, ResetTimeout) \in 0 .. ResetTimeout
      <3> SUFFICES ASSUME NEW s \in Services
                   PROVE  Capped(age[s] + n, ResetTimeout) \in 0 .. ResetTimeout
        OBVIOUS
      <3>1. age[s] \in 0 .. ResetTimeout /\ n \in Nat
        BY ParameterFacts DEF TypeOK
      <3> QED
        BY <3>1, CappedFacts, ParameterFacts
    <2> QED
      BY <2>1, <2>2
  <1>2. circuit' \in [Services -> {"closed", "open", "half_open"}]
    BY <1>v DEF Restarts, TypeOK
  <1>3. attempts' \in [Services -> Nat]
    BY <1>v DEF Restarts, TypeOK
  <1>4. ClosedWhileFewFailures'
    BY <1>v DEF Restarts, TypeOK, ClosedWhileFewFailures
  <1> QED
    BY <1>1, <1>2, <1>3, <1>4

\* A failed check moves both counters by one and opens the breaker in time.
LEMMA FailureFacts ==
    ASSUME TypeOK, CheckUnhealthy
    PROVE  /\ \A s \in Services \ {Visited} :
                 /\ consecutive'[s] = consecutive[s]
                 /\ failureCount'[s] = failureCount[s]
                 /\ circuit'[s] = circuit[s]
           /\ consecutive'[Visited] = Capped(consecutive[Visited] + 1, CountMax)
           /\ failureCount'[Visited] = Capped(failureCount[Visited] + 1, CountMax)
           /\ circuit'[Visited] = IF failureCount[Visited] + 1 >= Threshold THEN "open"
                                  ELSE circuit[Visited]
           /\ consecutive' \in [Services -> 0 .. CountMax]
           /\ failureCount' \in [Services -> 0 .. CountMax]
           /\ circuit' \in [Services -> {"closed", "open", "half_open"}]
           /\ age' \in [Services -> 0 .. ResetTimeout]
           /\ healthy' \in [Services -> BOOLEAN]
  <1>v. Visited \in Services
    BY VisitedFacts DEF TypeOK
  <1>1. consecutive[Visited] \in 0 .. CountMax /\ failureCount[Visited] \in 0 .. CountMax
    BY <1>v DEF TypeOK
  <1>2. /\ Capped(consecutive[Visited] + 1, CountMax) \in 0 .. CountMax
        /\ Capped(failureCount[Visited] + 1, CountMax) \in 0 .. CountMax
    BY <1>1, ParameterFacts DEF Capped
  <1>3. /\ consecutive' = [consecutive EXCEPT ![Visited] = Capped(@ + 1, CountMax)]
        /\ failureCount' = [failureCount EXCEPT ![Visited] = Capped(@ + 1, CountMax)]
        /\ circuit' = [circuit EXCEPT ![Visited] =
                          IF failureCount[Visited] + 1 >= Threshold THEN "open" ELSE @]
        /\ age' = [age EXCEPT ![Visited] = 0]
        /\ healthy' = [healthy EXCEPT ![Visited] = FALSE]
    BY DEF CheckUnhealthy, RecordFailure
  <1>4. consecutive' \in [Services -> 0 .. CountMax]
    BY <1>v, <1>2, <1>3 DEF TypeOK
  <1>5. failureCount' \in [Services -> 0 .. CountMax]
    BY <1>v, <1>2, <1>3 DEF TypeOK
  <1>6. circuit' \in [Services -> {"closed", "open", "half_open"}]
    BY <1>v, <1>3 DEF TypeOK
  <1>7. age' \in [Services -> 0 .. ResetTimeout] /\ healthy' \in [Services -> BOOLEAN]
    BY <1>v, <1>3, ParameterFacts DEF TypeOK
  <1> QED
    BY <1>v, <1>3, <1>4, <1>5, <1>6, <1>7 DEF TypeOK

\* Every step keeps the types and the agreement of the breakers.
LEMMA SupervisorTypeStep ==
    ASSUME TypeOK, ClosedWhileFewFailures, [Next]_vars
    PROVE  TypeOK' /\ ClosedWhileFewFailures'
  <1>v. Visited \in Services /\ pos \in DOMAIN Order
    BY VisitedFacts DEF TypeOK
  <1>1. CASE CheckHealthy
    <2>1. pos' \in DOMAIN Order /\ phase' \in {"check", "decide", "wait", "dead"}
      BY <1>1, <1>v, AdvanceFacts DEF CheckHealthy
    <2>2. /\ consecutive' \in [Services -> 0 .. CountMax]
          /\ failureCount' \in [Services -> 0 .. CountMax]
          /\ circuit' \in [Services -> {"closed", "open", "half_open"}]
          /\ healthy' \in [Services -> BOOLEAN]
          /\ attempts' \in [Services -> Nat]
      BY <1>1, <1>v, ParameterFacts DEF CheckHealthy, RecordSuccess, TypeOK
    <2>3. \A s \in Services : consecutive'[s] <= failureCount'[s]
      BY <1>1, <1>v DEF CheckHealthy, RecordSuccess, TypeOK
    <2>4. ClosedWhileFewFailures'
      BY <1>1, <1>v, ParameterFacts
         DEF CheckHealthy, RecordSuccess, TypeOK, ClosedWhileFewFailures
    <2> QED
      BY <1>1, <2>1, <2>2, <2>3, <2>4 DEF CheckHealthy, RecordSuccess, TypeOK
  <1>2. CASE CheckUnhealthy
    <2>1. pos' \in DOMAIN Order /\ phase' \in {"check", "decide", "wait", "dead"}
      BY <1>2, <1>v, AdvanceFacts DEF CheckUnhealthy
    <2>2. \A s \in Services : consecutive'[s] <= failureCount'[s]
      BY <1>2, <1>v, FailureFacts, ParameterFacts DEF TypeOK, Capped
    <2>3. ClosedWhileFewFailures'
      <3> SUFFICES ASSUME NEW s \in Services
                   PROVE  circuit'[s] = "closed" <=> failureCount'[s] < Threshold
        BY DEF ClosedWhileFewFailures
      <3>1. CASE s # Visited
        BY <1>2, <3>1, FailureFacts DEF ClosedWhileFewFailures
      <3>2. CASE s = Visited
        BY <1>2, <3>2, FailureFacts, ParameterFacts DEF ClosedWhileFewFailures, Capped, TypeOK
      <3> QED
        BY <3>1, <3>2
    <2> QED
      BY <1>2, <2>1, <2>2, <2>3, FailureFacts DEF CheckUnhealthy, TypeOK
  <1>3. CASE NoRestart
    <2>1. pos' \in DOMAIN Order /\ phase' \in {"check", "decide", "wait", "dead"}
      BY <1>3, <1>v, AdvanceFacts DEF NoRestart
    <2> QED
      BY <1>3, <2>1 DEF NoRestart, breakerVars, TypeOK, ClosedWhileFewFailures
  <1>5. CASE RestartSucceeds
    <2>1. pos' \in DOMAIN Order /\ phase' \in {"check", "decide", "wait", "dead"}
      BY <1>5, <1>v, AdvanceFacts DEF RestartSucceeds, Restarts
    <2>2. consecutive' \in [Services -> 0 .. CountMax]
      BY <1>5, <1>v, ParameterFacts DEF RestartSucceeds, TypeOK
    <2>3. \A s \in Services : consecutive'[s] <= failureCount'[s]
      BY <1>5, <1>v DEF RestartSucceeds, Restarts, TypeOK
    <2> QED
      BY <1>5, <2>1, <2>2, <2>3, RestartsType DEF RestartSucceeds, Restarts, TypeOK
  <1>6. CASE RestartFails
    <2>1. pos' \in DOMAIN Order /\ phase' \in {"check", "decide", "wait", "dead"}
      BY <1>6, <1>v, AdvanceFacts DEF RestartFails, Restarts
    <2> QED
      BY <1>6, <2>1, RestartsType DEF RestartFails, Restarts, TypeOK
  <1>7. CASE RestartTimesOut
    BY <1>7, RestartsType DEF RestartTimesOut, Restarts, TypeOK
  <1>8. CASE Wait
    <2>1. \A s \in Services : Capped(age[s] + 1, ResetTimeout) \in 0 .. ResetTimeout
      BY ParameterFacts DEF TypeOK, Capped
    <2>2. age' \in [Services -> 0 .. ResetTimeout]
      BY <1>8, <2>1 DEF Wait
    <2>3. 1 \in DOMAIN Order
      BY SupervisorAssumption
    <2> QED
      BY <1>8, <2>2, <2>3 DEF Wait, TypeOK, ClosedWhileFewFailures
  <1>9. CASE \E s \in Services : Turn(s)
    BY <1>9 DEF Turn, breakerVars, TypeOK, ClosedWhileFewFailures
  <1>10. CASE UNCHANGED vars
    BY <1>10 DEF vars, breakerVars, TypeOK, ClosedWhileFewFailures
  <1> QED
    BY <1>1, <1>2, <1>3, <1>5, <1>6, <1>7, <1>8, <1>9, <1>10 DEF Next, Thread

\* What a service has spent depends only on its own counters and on whether its
\* restart is still undecided.
LEMMA SpentStays ==
    ASSUME NEW s \in Services, TypeOK, attempts[s] \in Nat,
           attempts'[s] = attempts[s], failureCount'[s] = failureCount[s],
           Undecided(s)' => Undecided(s), Spent(s)
    PROVE  Spent(s)'
  <1>1. failureCount[s] \in Nat
    BY DEF TypeOK
  <1> QED
    BY <1>1, ParameterFacts DEF Spent

\* Only the check and the decision of s change what is undecided about it.
LEMMA AdvanceUndecided ==
    ASSUME pos \in DOMAIN Order, NEW s \in Services, phase \in {"check", "decide"},
           Advance(IF phase = "check" THEN "decide" ELSE "wait"),
           s # Visited
    PROVE  Undecided(s)' => Undecided(s)
  <1>1. /\ pos \in 1 .. Len(Order) /\ Len(Order) \in Nat /\ DOMAIN Order = 1 .. Len(Order)
        /\ Order[pos] # s
    BY VisitedFacts DEF Visited
  <1>2. \/ pos' = 1 /\ phase' = (IF phase = "check" THEN "decide" ELSE "wait") /\ pos = Len(Order)
        \/ pos' = pos + 1 /\ phase' = phase /\ pos < Len(Order)
    BY AdvanceFacts
  <1> SUFFICES ASSUME NEW i \in DOMAIN Order, Order[i] = s,
                      \/ phase' = "check" /\ i < pos'
                      \/ phase' = "decide" /\ i >= pos'
               PROVE  \/ phase = "check" /\ i < pos
                      \/ phase = "decide" /\ i >= pos
    BY DEF Undecided
  <1>3. i \in 1 .. Len(Order) /\ i # pos
    BY <1>1
  <1>4. CASE phase = "check"
    BY <1>1, <1>2, <1>3, <1>4
  <1>5. CASE phase = "decide"
    BY <1>1, <1>2, <1>3, <1>5
  <1> QED
    BY <1>4, <1>5

\* The service whose restart is being decided is undecided, and no longer is
\* once the thread has moved on.
LEMMA DecidedNow ==
    ASSUME pos \in DOMAIN Order, phase = "decide"
    PROVE  Undecided(Visited)
  BY VisitedFacts DEF Undecided, Visited

\* A service is visited once in a round: when the thread has moved on from it,
\* nothing is undecided about it.
LEMMA AdvancePasses ==
    ASSUME pos \in DOMAIN Order, NEW s, s = Visited,
           phase = "decide", Advance("wait") \/ phase' = "dead"
    PROVE  ~Undecided(s)'
  <1> SUFFICES ASSUME NEW i \in DOMAIN Order, Order[i] = s,
                      \/ phase' = "check" /\ i < pos'
                      \/ phase' = "decide" /\ i >= pos'
               PROVE  FALSE
    BY DEF Undecided
  <1>1. /\ pos \in 1 .. Len(Order) /\ Len(Order) \in Nat /\ DOMAIN Order = 1 .. Len(Order)
    BY VisitedFacts
  <1>2. i = pos
    BY SupervisorAssumption DEF Visited
  <1>3. Advance("wait") => \/ phase' = "wait"
                           \/ pos' = pos + 1 /\ phase' = "decide"
    BY AdvanceFacts
  <1> QED
    BY <1>1, <1>2, <1>3

\* Each step keeps the budget of restarts.
LEMMA SupervisorStep ==
    ASSUME SupervisorInv, [Next]_vars
    PROVE  SupervisorInv'
  <1>t. TypeOK /\ ClosedWhileFewFailures /\ TypeOK' /\ ClosedWhileFewFailures'
    BY SupervisorTypeStep DEF SupervisorInv
  <1>v. Visited \in Services /\ pos \in DOMAIN Order
    BY <1>t, VisitedFacts DEF TypeOK
  <1> DEFINE Room == IF MaxRestarts < Threshold THEN Threshold - Capped(MaxRestarts, Threshold)
                     ELSE 0
  <1>r. Room \in Nat /\ (MaxRestarts < Threshold => Room = Threshold - MaxRestarts)
    BY ParameterFacts DEF Capped
  <1> HIDE DEF Room
  <1>l. \A s \in Services : attempts[s] \in Nat /\ attempts[s] <= Room
    BY <1>t DEF SupervisorInv, RestartsAreLimited, TypeOK, Room
  <1>p. \A s \in Services : circuit[s] = "closed" => Spent(s)
    BY DEF SupervisorInv
  <1> SUFFICES ASSUME NEW s \in Services
               PROVE  attempts'[s] <= Room /\ (circuit'[s] = "closed" => Spent(s)')
    BY <1>t DEF SupervisorInv, RestartsAreLimited, Room
  <1>n. /\ attempts[s] \in Nat /\ failureCount[s] \in 0 .. CountMax
        /\ consecutive[s] \in Nat /\ consecutive[s] <= failureCount[s]
    BY <1>t DEF TypeOK
  <1>1. CASE CheckHealthy
    <2>1. CASE s = Visited
      <3>1. attempts'[s] = 0
        BY <1>1, <1>v, <1>t, <2>1 DEF CheckHealthy, TypeOK
      <3> QED
        BY <3>1, <1>r DEF Spent
    <2>2. CASE s # Visited
      <3>1. /\ attempts'[s] = attempts[s] /\ failureCount'[s] = failureCount[s]
            /\ circuit'[s] = circuit[s]
        BY <1>1, <1>t, <2>2 DEF CheckHealthy, RecordSuccess, TypeOK
      <3>2. Undecided(s)' => Undecided(s)
        BY <1>1, <1>v, <2>2, AdvanceUndecided DEF CheckHealthy
      <3> QED
        BY <3>1, <3>2, <1>t, <1>n, <1>l, <1>p, SpentStays
    <2> QED
      BY <2>1, <2>2
  <1>2. CASE CheckUnhealthy
    <2>0. attempts'[s] = attempts[s] /\ attempts'[s] <= Room
      BY <1>2, <1>l DEF CheckUnhealthy
    <2>1. CASE s = Visited
      <3> SUFFICES ASSUME circuit'[s] = "closed" PROVE Spent(s)'
        BY <2>0
      <3>1. circuit[s] = "closed" /\ failureCount[s] + 1 < Threshold
        BY <1>2, <1>t, <1>n, <2>1, FailureFacts, ParameterFacts
      <3>2. failureCount'[s] = failureCount[s] + 1
        BY <1>2, <1>t, <1>n, <2>1, <3>1, FailureFacts, ParameterFacts DEF Capped
      <3>3. Spent(s)
        BY <1>p, <3>1
      <3> QED
        BY <2>0, <3>2, <3>3, <1>n, ParameterFacts DEF Spent
    <2>2. CASE s # Visited
      <3>1. failureCount'[s] = failureCount[s] /\ circuit'[s] = circuit[s]
        BY <1>2, <1>t, <2>2, FailureFacts
      <3>2. Undecided(s)' => Undecided(s)
        BY <1>2, <1>v, <2>2, AdvanceUndecided DEF CheckUnhealthy
      <3> QED
        BY <3>1, <3>2, <2>0, <1>t, <1>n, <1>p, SpentStays
    <2> QED
      BY <2>1, <2>2
  <1>3. CASE NoRestart
    <2>1. /\ attempts'[s] = attempts[s] /\ failureCount'[s] = failureCount[s]
          /\ circuit'[s] = circuit[s] /\ phase = "decide" /\ Advance("wait")
      BY <1>3 DEF NoRestart, breakerVars
    <2>2. CASE s = Visited
      <3>1. Undecided(s)
        BY <2>1, <2>2, <1>v, DecidedNow
      <3> QED
        BY <2>1, <3>1, <1>t, <1>n, <1>l, <1>p, SpentStays
    <2>3. CASE s # Visited
      <3>1. Undecided(s)' => Undecided(s)
        BY <2>1, <2>3, <1>v, AdvanceUndecided
      <3> QED
        BY <2>1, <3>1, <1>t, <1>n, <1>l, <1>p, SpentStays
    <2> QED
      BY <2>2, <2>3
  <1>4. ASSUME Restarts(Visited), Advance("wait") \/ phase' = "dead"
        PROVE  attempts'[s] <= Room /\ (circuit'[s] = "closed" => Spent(s)')
    <2>1. phase = "decide" /\ failureCount'[s] = failureCount[s]
      BY <1>4 DEF Restarts
    <2>2. CASE s = Visited
      <3>1. CASE circuit[s] = "closed"
        <4>1. Undecided(s) /\ Spent(s)
          BY <2>1, <2>2, <1>v, <1>p, <3>1, DecidedNow
        <4>2. attempts'[s] = attempts[s] + 1 /\ consecutive[s] >= MaxRestarts
          BY <1>4, <1>t, <1>v, <2>2, <3>1 DEF Restarts, IsDue, TypeOK
        <4>3. failureCount[s] < Threshold
          BY <1>t, <3>1 DEF ClosedWhileFewFailures
        <4>4. attempts'[s] <= failureCount[s] - MaxRestarts + 1
          BY <4>1, <4>2, <1>n, ParameterFacts DEF Spent
        <4>5. ~Undecided(s)'
          BY <1>4, <2>1, <2>2, <1>v, AdvancePasses
        <4>6. Spent(s)'
          BY <4>4, <4>5, <2>1 DEF Spent
        <4>7. attempts'[s] <= Room
          BY <4>2, <4>3, <4>4, <1>n, <1>r, ParameterFacts
        <4> QED
          BY <4>6, <4>7
      <3>2. CASE circuit[s] # "closed"
        <4>1. attempts'[s] = attempts[s] /\ circuit'[s] # "closed"
          BY <1>4, <1>t, <2>2, <3>2 DEF Restarts, TypeOK
        <4> QED
          BY <4>1, <1>l
      <3> QED
        BY <3>1, <3>2
    <2>3. CASE s # Visited
      <3>1. attempts'[s] = attempts[s] /\ circuit'[s] = circuit[s]
        BY <1>4, <1>t, <2>3 DEF Restarts, TypeOK
      <3>2. Undecided(s)' => Undecided(s)
        <4>1. CASE Advance("wait")
          BY <4>1, <2>1, <2>3, <1>v, AdvanceUndecided
        <4>2. CASE phase' = "dead"
          BY <4>2 DEF Undecided
        <4> QED
          BY <1>4, <4>1, <4>2
      <3> QED
        BY <2>1, <3>1, <3>2, <1>t, <1>n, <1>l, <1>p, SpentStays
    <2> QED
      BY <2>2, <2>3
  <1>5. CASE RestartSucceeds \/ RestartFails \/ RestartTimesOut
    BY <1>5, <1>4 DEF RestartSucceeds, RestartFails, RestartTimesOut
  <1>6. CASE Wait
    <2>1. /\ attempts'[s] = attempts[s] /\ failureCount'[s] = failureCount[s]
          /\ circuit'[s] = circuit[s]
      BY <1>6 DEF Wait
    <2>2. ~Undecided(s)'
      BY <1>6, SupervisorAssumption DEF Wait, Undecided
    <2> QED
      BY <2>1, <2>2, <1>t, <1>n, <1>l, <1>p, SpentStays
  <1>7. CASE (\E u \in Services : Turn(u)) \/ UNCHANGED vars
    <2>1. UNCHANGED <<phase, pos, failureCount, circuit, attempts>>
      BY <1>7 DEF Turn, vars, breakerVars
    <2>2. Undecided(s)' => Undecided(s)
      BY <2>1 DEF Undecided
    <2> QED
      BY <2>1, <2>2, <1>t, <1>n, <1>l, <1>p, SpentStays
  <1> QED
    BY <1>1, <1>2, <1>3, <1>5, <1>6, <1>7 DEF Next, Thread

\* The health thread never leaves its types, and no restart is due to failures
\* that the breaker has not counted.
THEOREM SupervisorTypeCorrect == Spec => []TypeOK
  <1>1. SupervisorInv => TypeOK
    BY DEF SupervisorInv
  <1> QED
    BY <1>1, SupervisorInit, SupervisorStep, PTL DEF Spec

\* A breaker is closed exactly while fewer than Threshold checks have failed
\* in a row, for any thresholds and any duration of the restarts.
THEOREM BreakerIsExact == Spec => []ClosedWhileFewFailures
  <1>1. SupervisorInv => ClosedWhileFewFailures
    BY DEF SupervisorInv
  <1> QED
    BY <1>1, SupervisorInit, SupervisorStep, PTL DEF Spec

\* An outage is answered with at most Threshold - MaxRestarts restarts before
\* its breaker opens.
THEOREM RestartBudget == Spec => []RestartsAreLimited
  <1>1. SupervisorInv => RestartsAreLimited
    BY DEF SupervisorInv
  <1> QED
    BY <1>1, SupervisorInit, SupervisorStep, PTL DEF Spec

----------------------------------------------------------------------------
(* The router and the breakers of the providers.                           *)

Breaker == [state : {"closed", "open", "half_open"}, failures : 0 .. FailureThreshold,
            cooled : BOOLEAN, attempts : 0 .. HalfOpenMax]

\* A breaker whose state agrees with its failures.
Agrees(b) == b.state = "closed" <=> b.failures < FailureThreshold

\* A half-open breaker that has let a request through is waiting for one.
Probed(p) ==
    ~cancelled /\ breaker[p].state = "half_open" /\ breaker[p].attempts > 0 =>
        \E r \in Requests : r \in probes[p] /\ at[r] = p

RouterInv ==
    /\ RouterTypeOK
    /\ ClosedWhileFewCallsFail
    /\ \A p \in Providers : Probed(p)

\* Assigning fields of a record keeps its type.
LEMMA FieldFacts ==
    ASSUME NEW S, NEW F, NEW C, NEW A,
           NEW b \in [state : S, failures : F, cooled : C, attempts : A],
           NEW s \in S, NEW f \in F, NEW c \in C, NEW a \in A
    PROVE  /\ [b EXCEPT !.state = s, !.attempts = a]
                 \in [state : S, failures : F, cooled : C, attempts : A]
           /\ [b EXCEPT !.state = s, !.failures = f, !.attempts = a]
                 \in [state : S, failures : F, cooled : C, attempts : A]
  OBVIOUS

\* The fields a failure assigns.
LEMMA FailedFieldFacts ==
    ASSUME NEW S, NEW F, NEW C, NEW A,
           NEW b \in [state : S, failures : F, cooled : C, attempts : A],
           NEW s \in S, NEW f \in F, NEW c \in C
    PROVE  [b EXCEPT !.failures = f, !.cooled = c, !.state = s]
                 \in [state : S, failures : F, cooled : C, attempts : A]
  OBVIOUS

\* Reading a breaker keeps its type and agreement; it never grows attempts.
LEMMA ObservedFacts ==
    ASSUME NEW b \in Breaker, Agrees(b)
    PROVE  /\ Observed(b) \in Breaker /\ Agrees(Observed(b))
           /\ Observed(b) = b \/ Observed(b).attempts = 0
  <1>1. CASE b.state = "open" /\ b.cooled
    <2> DEFINE o == [b EXCEPT !.state = "half_open", !.attempts = 0]
    <2>1. Observed(b) = o
      BY <1>1 DEF Observed
    <2>2. o \in Breaker
      <3>1. 0 \in 0 .. HalfOpenMax /\ "half_open" \in {"closed", "open", "half_open"}
        BY RouterAssumption
      <3>2. b.failures \in 0 .. FailureThreshold /\ b.cooled \in BOOLEAN
        BY DEF Breaker
      <3> QED
        BY <3>1, <3>2, FieldFacts DEF Breaker
    <2>3. o.state = "half_open" /\ o.failures = b.failures /\ o.attempts = 0
      BY DEF Breaker
    <2>4. Agrees(o)
      BY <1>1, <2>3 DEF Agrees
    <2> QED
      BY <2>1, <2>2, <2>3, <2>4
  <1>2. CASE ~(b.state = "open" /\ b.cooled)
    BY <1>2 DEF Observed
  <1> QED
    BY <1>1, <1>2

\* Calling an available provider keeps its breaker's type and agreement.
LEMMA TriedFacts ==
    ASSUME NEW b \in Breaker, Agrees(b), IsAvailable(b)
    PROVE  Tried(b) \in Breaker /\ Agrees(Tried(b))
  <1>1. Observed(b) \in Breaker /\ Agrees(Observed(b))
    BY ObservedFacts
  <1>2. CASE Observed(b).state = "half_open"
    <2>1. Observed(b).attempts < HalfOpenMax
      BY <1>2 DEF IsAvailable
    <2> DEFINE o == Observed(b)
    <2>2. Tried(b) = [o EXCEPT !.attempts = o.attempts + 1]
      BY <1>2 DEF Tried
    <2>3. o \in Breaker /\ Agrees(o) /\ o.attempts < HalfOpenMax
      BY <1>1, <2>1
    <2> HIDE DEF o
    <2> QED
      BY <2>2, <2>3, RouterAssumption DEF Breaker, Agrees
  <1>3. CASE Observed(b).state # "half_open"
    BY <1>1, <1>3 DEF Tried
  <1> QED
    BY <1>2, <1>3

\* A failure opens the breaker in time and never leaves it half open.
LEMMA FailedFacts ==
    ASSUME NEW b \in Breaker, Agrees(b)
    PROVE  /\ Failed(b) \in Breaker /\ Agrees(Failed(b))
           /\ Failed(b).state # "half_open"
  <1>1. /\ b.failures \in 0 .. FailureThreshold /\ FailureThreshold \in Nat \ {0}
        /\ b.state \in {"closed", "open", "half_open"}
    BY RouterAssumption DEF Breaker
  <1>2. /\ Failed(b).failures = IF b.failures < FailureThreshold THEN b.failures + 1
                                ELSE b.failures
        /\ Failed(b).state = IF b.state = "half_open" \/ b.failures + 1 >= FailureThreshold
                             THEN "open" ELSE b.state
        /\ Failed(b).cooled = FALSE /\ Failed(b).attempts = b.attempts
    BY DEF Failed, Breaker
  <1>3. /\ Failed(b).failures \in 0 .. FailureThreshold
        /\ Failed(b).state \in {"closed", "open", "half_open"}
        /\ Failed(b).state # "half_open"
    BY <1>1, <1>2
  <1>4. Agrees(Failed(b))
    BY <1>1, <1>2 DEF Agrees
  <1>5. Failed(b) \in Breaker
    <2> DEFINE f == IF b.failures < FailureThreshold THEN b.failures + 1 ELSE b.failures
               s == IF b.state = "half_open" \/ b.failures + 1 >= FailureThreshold
                    THEN "open" ELSE b.state
               c == FALSE
    <2>1. Failed(b) = [b EXCEPT !.failures = f, !.cooled = c, !.state = s]
      BY DEF Failed
    <2>4. c \in BOOLEAN
      OBVIOUS
    <2>2. f \in 0 .. FailureThreshold /\ s \in {"closed", "open", "half_open"}
      BY <1>1
    <2> HIDE DEF f, s, c
    <2>3. [b EXCEPT !.failures = f, !.cooled = c, !.state = s] \in Breaker
      BY <2>2, <2>4, FailedFieldFacts DEF Breaker
    <2> QED
      BY <2>1, <2>3
  <1> QED
    BY <1>3, <1>4, <1>5

\* A success closes the breaker.
LEMMA SucceededFacts ==
    ASSUME NEW b \in Breaker
    PROVE  /\ Succeeded(b) \in Breaker /\ Agrees(Succeeded(b))
           /\ Succeeded(b).state = "closed"
  <1>1. /\ Succeeded(b).state = "closed" /\ Succeeded(b).failures = 0
    BY DEF Succeeded, Breaker
  <1>2. Succeeded(b) \in Breaker
    <2>1. /\ 0 \in 0 .. HalfOpenMax /\ 0 \in 0 .. FailureThreshold
          /\ "closed" \in {"closed", "open", "half_open"}
      BY RouterAssumption
    <2>2. b.cooled \in BOOLEAN
      BY DEF Breaker
    <2> QED
      BY <2>1, <2>2, FieldFacts DEF Breaker, Succeeded
  <1> QED
    BY <1>1, <1>2, RouterAssumption DEF Agrees

\* The initial state satisfies the invariant.
LEMMA RouterStarts == RouterInit => RouterInv
  <1> SUFFICES ASSUME RouterInit PROVE RouterInv
    OBVIOUS
  <1>1. Closed \in Breaker /\ Agrees(Closed) /\ Closed.state = "closed"
    BY RouterAssumption DEF Closed, Breaker, Agrees
  <1>2. RouterTypeOK
    <2>1. breaker \in [Providers -> Breaker]
      BY <1>1 DEF RouterInit
    <2>2. at \in [Requests -> 0 .. N]
      BY RouterAssumption DEF RouterInit
    <2> QED
      BY <2>1, <2>2 DEF RouterInit, RouterTypeOK, Breaker
  <1>3. ClosedWhileFewCallsFail
    BY <1>1 DEF RouterInit, ClosedWhileFewCallsFail, Agrees
  <1>4. \A p \in Providers : Probed(p)
    BY <1>1 DEF RouterInit, Probed
  <1> QED
    BY <1>2, <1>3, <1>4 DEF RouterInv

\* Continuing from breakers that satisfy the invariant satisfies it again, if
\* no half-open breaker among them was waiting for r.
LEMMA ContinueFacts ==
    ASSUME RouterTypeOK, NEW r \in Requests, NEW from \in Nat, from >= 1,
           NEW bs \in [Providers -> Breaker],
           \A p \in Providers : Agrees(bs[p]),
           \A p \in Providers :
               ~cancelled /\ bs[p].state = "half_open" /\ bs[p].attempts > 0 =>
                   \E q \in Requests \ {r} : q \in probes[p] /\ at[q] = p,
           Continue(r, bs, from)
    PROVE  RouterInv'
  <1> DEFINE ready == {p \in Providers : p >= from /\ IsAvailable(bs[p])}
             Called(p) == p \in ready /\ \A q \in ready : p <= q
             Passed(p) == p >= from /\ \A q \in ready : p < q
  <1>1. /\ \/ ready = {} /\ at' = [at EXCEPT ![r] = 0]
           \/ \E p \in ready : Called(p) /\ at' = [at EXCEPT ![r] = p]
        /\ breaker' = [p \in Providers |-> IF Called(p) THEN Tried(bs[p])
                                           ELSE IF Passed(p) THEN Observed(bs[p])
                                           ELSE bs[p]]
        /\ probes' = [p \in Providers |-> Current(p, r, breaker'[p])]
        /\ cancelled' = cancelled
    BY DEF Continue
  <1>2. ready \subseteq Providers /\ \A p \in ready : IsAvailable(bs[p])
    OBVIOUS
  <1>3. \A p, q \in Providers : Called(p) /\ Called(q) => p = q
    <2> SUFFICES ASSUME NEW p \in Providers, NEW q \in Providers, Called(p), Called(q)
                 PROVE  p = q
      OBVIOUS
    <2>1. p <= q /\ q <= p /\ p \in Nat /\ q \in Nat
      BY DEF Providers
    <2> QED
      BY <2>1
  <1>0. \A p \in Providers : Called(p) => p \in ready
    OBVIOUS
  <1> HIDE DEF ready, Called, Passed
  <1>4. (at'[r] = 0 /\ ready = {}) \/ (at'[r] \in ready /\ Called(at'[r]))
    <2>1. CASE ready = {} /\ at' = [at EXCEPT ![r] = 0]
      BY <2>1 DEF RouterTypeOK
    <2>2. CASE \E p \in ready : Called(p) /\ at' = [at EXCEPT ![r] = p]
      BY <2>2 DEF RouterTypeOK
    <2> QED
      BY <1>1, <2>1, <2>2
  <1>5. \A p \in Providers : Called(p) => at'[r] = p
    BY <1>0, <1>2, <1>3, <1>4
  <1>6. at' \in [Requests -> 0 .. N]
    <2>1. at \in [Requests -> 0 .. N] /\ 0 \in 0 .. N
      BY RouterAssumption DEF RouterTypeOK
    <2>2. \A p \in ready : p \in 0 .. N
      BY <1>2 DEF Providers
    <2> QED
      BY <1>1, <2>1, <2>2
  <1>7. \A p \in Providers : breaker'[p] \in Breaker /\ Agrees(breaker'[p])
    <2> SUFFICES ASSUME NEW p \in Providers PROVE breaker'[p] \in Breaker /\ Agrees(breaker'[p])
      OBVIOUS
    <2>1. bs[p] \in Breaker /\ Agrees(bs[p])
      OBVIOUS
    <2>2. CASE Called(p)
      BY <1>0, <1>1, <1>2, <2>1, <2>2, TriedFacts
    <2>3. CASE ~Called(p)
      BY <1>1, <2>1, <2>3, ObservedFacts
    <2> QED
      BY <2>2, <2>3
  <1>8. RouterTypeOK'
    <2>1. breaker' \in [Providers -> Breaker]
      BY <1>1, <1>7
    <2>2. probes' \in [Providers -> SUBSET Requests]
      BY <1>1 DEF RouterTypeOK, Current
    <2> QED
      BY <1>1, <1>6, <2>1, <2>2 DEF RouterTypeOK, Breaker
  <1>9. ClosedWhileFewCallsFail'
    BY <1>7 DEF ClosedWhileFewCallsFail, Agrees
  <1>10. ASSUME NEW p \in Providers PROVE Probed(p)'
    <2> SUFFICES ASSUME ~cancelled, breaker'[p].state = "half_open", breaker'[p].attempts > 0
                 PROVE  \E q \in Requests : q \in probes'[p] /\ at'[q] = p
      BY <1>1 DEF Probed
    <2>1. CASE Called(p)
      BY <1>1, <1>5, <2>1 DEF Current
    <2>2. CASE ~Called(p)
      <3>1. bs[p].state = "half_open" /\ bs[p].attempts > 0
        <4>1. breaker'[p] = Observed(bs[p]) \/ breaker'[p] = bs[p]
          BY <1>1, <2>2
        <4>2. Observed(bs[p]) = bs[p] \/ Observed(bs[p]).attempts = 0
          BY ObservedFacts
        <4> QED
          BY <4>1, <4>2
      <3>2. PICK q \in Requests \ {r} : q \in probes[p] /\ at[q] = p
        BY <3>1
      <3>3. at'[q] = p /\ q \in probes'[p]
        BY <1>1, <3>2 DEF RouterTypeOK, Current
      <3> QED
        BY <3>3
    <2> QED
      BY <2>1, <2>2
  <1> QED
    BY <1>8, <1>9, <1>10 DEF RouterInv

\* Every step keeps the invariant.
LEMMA RouterStep ==
    ASSUME RouterInv, [RouterNext]_routerVars
    PROVE  RouterInv'
  <1>t. /\ RouterTypeOK
        /\ \A p \in Providers : breaker[p] \in Breaker /\ Agrees(breaker[p])
        /\ \A p \in Providers : Probed(p)
    BY DEF RouterInv, RouterTypeOK, Breaker, ClosedWhileFewCallsFail, Agrees
  <1>1. ASSUME NEW r \in Requests, Start(r) PROVE RouterInv'
    <2>1. at[r] = 0 /\ Continue(r, breaker, 1)
      BY <1>1 DEF Start
    <2>2. \A p \in Providers : at[r] # p
      BY <2>1 DEF Providers
    <2>3. \A p \in Providers :
             ~cancelled /\ breaker[p].state = "half_open" /\ breaker[p].attempts > 0 =>
                 \E q \in Requests \ {r} : q \in probes[p] /\ at[q] = p
      BY <1>t, <2>2 DEF Probed
    <2>4. breaker \in [Providers -> Breaker]
      BY <1>t DEF RouterTypeOK, Breaker
    <2> QED
      BY <1>t, <2>1, <2>3, <2>4, ContinueFacts
  <1>2. ASSUME NEW r \in Requests, CallFails(r) PROVE RouterInv'
    <2> DEFINE bs == [breaker EXCEPT ![at[r]] = Failed(breaker[at[r]])]
    <2>1. at[r] # 0 /\ Continue(r, bs, at[r] + 1)
      BY <1>2 DEF CallFails
    <2>2. at[r] \in Providers /\ at[r] + 1 \in Nat /\ at[r] + 1 >= 1
      BY <1>t, <2>1, RouterAssumption DEF RouterTypeOK, Providers
    <2>3. /\ Failed(breaker[at[r]]) \in Breaker /\ Agrees(Failed(breaker[at[r]]))
          /\ Failed(breaker[at[r]]).state # "half_open"
      BY <1>t, <2>2, FailedFacts
    <2>4. breaker \in [Providers -> Breaker]
      BY <1>t DEF RouterTypeOK, Breaker
    <2>5. /\ bs \in [Providers -> Breaker]
          /\ bs[at[r]].state # "half_open"
          /\ \A p \in Providers : Agrees(bs[p])
          /\ \A p \in Providers : p # at[r] => bs[p] = breaker[p]
      BY <1>t, <2>2, <2>3, <2>4
    <2> HIDE DEF bs
    <2>6. ASSUME NEW p \in Providers, ~cancelled, bs[p].state = "half_open", bs[p].attempts > 0
          PROVE  \E q \in Requests \ {r} : q \in probes[p] /\ at[q] = p
      <3>1. p # at[r] /\ bs[p] = breaker[p]
        BY <2>5, <2>6
      <3> QED
        BY <1>t, <2>6, <3>1 DEF Probed
    <2> QED
      BY <1>t, <2>1, <2>2, <2>5, <2>6, ContinueFacts
  <1>k. ASSUME breaker' \in [Providers -> Breaker],
               \A p \in Providers : Agrees(breaker'[p]) /\ Probed(p)',
               at' \in [Requests -> 0 .. N], probes' \in [Providers -> SUBSET Requests],
               cancelled' \in BOOLEAN
        PROVE  RouterInv'
    BY <1>k DEF RouterInv, RouterTypeOK, ClosedWhileFewCallsFail, Agrees, Breaker
  <1>b. /\ breaker \in [Providers -> Breaker] /\ at \in [Requests -> 0 .. N]
        /\ probes \in [Providers -> SUBSET Requests] /\ cancelled \in BOOLEAN
    BY <1>t DEF RouterTypeOK, Breaker
  <1>3. ASSUME NEW r \in Requests, CallSucceeds(r) PROVE RouterInv'
    <2>1. /\ at[r] \in Providers /\ at' = [at EXCEPT ![r] = 0]
          /\ breaker' = [breaker EXCEPT ![at[r]] = Succeeded(@)]
          /\ probes' = [probes EXCEPT ![at[r]] = {}] /\ cancelled' = cancelled
      BY <1>3, <1>b, RouterAssumption DEF CallSucceeds, Providers
    <2>2. /\ Succeeded(breaker[at[r]]) \in Breaker /\ Agrees(Succeeded(breaker[at[r]]))
          /\ Succeeded(breaker[at[r]]).state = "closed"
      BY <1>t, <2>1, SucceededFacts
    <2>3. ASSUME NEW p \in Providers PROVE Agrees(breaker'[p]) /\ Probed(p)'
      <3>1. CASE p = at[r]
        BY <1>b, <2>1, <2>2, <3>1 DEF Probed
      <3>2. CASE p # at[r]
        BY <1>b, <1>t, <2>1, <3>2 DEF Probed
      <3> QED
        BY <3>1, <3>2
    <2>4. breaker' \in [Providers -> Breaker]
      BY <1>b, <2>1, <2>2
    <2>5. at' \in [Requests -> 0 .. N] /\ probes' \in [Providers -> SUBSET Requests]
      BY <1>b, <2>1, RouterAssumption
    <2> QED
      BY <1>b, <1>k, <2>1, <2>3, <2>4, <2>5
  <1>4. ASSUME NEW r \in Requests, Cancel(r) PROVE RouterInv'
    <2>1. /\ breaker' = breaker /\ cancelled' = TRUE
          /\ at' \in [Requests -> 0 .. N] /\ probes' \in [Providers -> SUBSET Requests]
      <3>1. at[r] \in Providers /\ 0 \in 0 .. N
        BY <1>4, <1>b, RouterAssumption DEF Cancel, Providers
      <3>2. probes[at[r]] \ {r} \in SUBSET Requests
        BY <1>b, <3>1
      <3>3. /\ at' = [at EXCEPT ![r] = 0]
            /\ probes' = [probes EXCEPT ![at[r]] = probes[at[r]] \ {r}]
            /\ breaker' = breaker /\ cancelled' = TRUE
        BY <1>4 DEF Cancel
      <3> QED
        BY <1>b, <3>1, <3>2, <3>3
    <2>2. \A p \in Providers : Agrees(breaker'[p]) /\ Probed(p)'
      BY <1>t, <2>1 DEF Probed
    <2> QED
      BY <1>b, <1>k, <2>1, <2>2
  <1>5. ASSUME NEW p \in Providers, Cool(p) \/ ReadState(p) \/ Reset(p) PROVE RouterInv'
    <2>1. /\ at' = at /\ cancelled' = cancelled
          /\ probes' \in [Providers -> SUBSET Requests]
          /\ \A q \in Providers : q # p => breaker'[q] = breaker[q] /\ probes'[q] = probes[q]
      BY <1>5, <1>b DEF Cool, ReadState, Reset
    <2>2. /\ breaker' \in [Providers -> Breaker] /\ Agrees(breaker'[p])
          /\ \/ breaker'[p].state = breaker[p].state /\ probes'[p] = probes[p]
                /\ breaker'[p].attempts = breaker[p].attempts
             \/ breaker'[p].state = "closed"
             \/ breaker'[p].attempts = 0
      <3>1. CASE Cool(p)
        <4>1. [breaker[p] EXCEPT !.cooled = TRUE] \in Breaker
          BY <1>b DEF Breaker
        <4>2. breaker' = [breaker EXCEPT ![p] = [breaker[p] EXCEPT !.cooled = TRUE]]
              /\ probes' = probes
          BY <3>1 DEF Cool
        <4>3. breaker'[p] = [breaker[p] EXCEPT !.cooled = TRUE]
          BY <1>b, <4>2
        <4>4. breaker[p] \in Breaker
          BY <1>b
        <4>5. /\ breaker'[p].state = breaker[p].state /\ breaker'[p].failures = breaker[p].failures
              /\ breaker'[p].attempts = breaker[p].attempts
          BY <4>3, <4>4 DEF Breaker
        <4> QED
          BY <1>b, <1>t, <4>1, <4>2, <4>5 DEF Agrees
      <3>2. CASE ReadState(p)
        <4>1. breaker' = [breaker EXCEPT ![p] = Observed(breaker[p])] /\ probes' = probes
          BY <3>2 DEF ReadState
        <4> QED
          BY <1>b, <1>t, <4>1, ObservedFacts
      <3>3. CASE Reset(p)
        <4>1. Closed \in Breaker /\ Agrees(Closed) /\ Closed.state = "closed"
          BY RouterAssumption DEF Closed, Breaker, Agrees
        <4> QED
          BY <1>b, <3>3, <4>1 DEF Reset
      <3> QED
        BY <1>5, <3>1, <3>2, <3>3
    <2>3. ASSUME NEW q \in Providers PROVE Agrees(breaker'[q]) /\ Probed(q)'
      <3>1. CASE q # p
        BY <1>t, <2>1, <3>1 DEF Probed
      <3>2. CASE q = p
        BY <1>t, <2>1, <2>2, <3>2 DEF Probed
      <3> QED
        BY <3>1, <3>2
    <2> QED
      BY <1>b, <1>k, <2>1, <2>2, <2>3
  <1>6. CASE UNCHANGED routerVars
    BY <1>t, <1>6 DEF RouterInv, routerVars, RouterTypeOK, ClosedWhileFewCallsFail, Probed
  <1> QED
    BY <1>1, <1>2, <1>3, <1>4, <1>5, <1>6 DEF RouterNext

\* The router never leaves its types: in particular no breaker ever counts more
\* than HalfOpenMax test requests in one half-open period.
THEOREM RouterTypeCorrect == RouterSpec => []RouterTypeOK
  <1>1. RouterInv => RouterTypeOK
    BY DEF RouterInv
  <1> QED
    BY <1>1, RouterStarts, RouterStep, PTL DEF RouterSpec

\* A breaker is closed exactly while it has counted fewer failures than the
\* threshold, for any chain and any number of concurrent requests.
THEOREM RouterBreakersAreExact == RouterSpec => []ClosedWhileFewCallsFail
  <1>1. RouterInv => ClosedWhileFewCallsFail
    BY DEF RouterInv
  <1> QED
    BY <1>1, RouterStarts, RouterStep, PTL DEF RouterSpec

\* Unless a request is cancelled, a half-open breaker that admits no more
\* requests is waiting for the outcome of one.
THEOREM ExhaustedIsAlwaysProbed == RouterSpec => []ExhaustedIsProbed
  <1>1. RouterInv => ExhaustedIsProbed
    <2> SUFFICES ASSUME RouterInv, ~cancelled, NEW p \in Providers,
                        breaker[p].state = "half_open", breaker[p].attempts >= HalfOpenMax
                 PROVE  \E r \in probes[p] : at[r] = p
      BY DEF ExhaustedIsProbed
    <2>1. breaker[p].attempts > 0
      BY RouterAssumption DEF RouterInv, RouterTypeOK
    <2> QED
      BY <2>1 DEF RouterInv, Probed
  <1> QED
    BY <1>1, RouterStarts, RouterStep, PTL DEF RouterSpec
=============================================================================
