-------------------------------- MODULE OTA --------------------------------
(***************************************************************************)
(* Over-the-air updates of a device with two root slots                    *)
(* (bmt_ai_os/ota/engine.py, ota/state.py, the update commands of cli.py   *)
(* and update/orchestrator.py).  The slot pointers live in a JSON state    *)
(* file; a board with U-Boot also has the environment variable slot_name,  *)
(* which wins over the file.  Nothing locks the file or the slots, so two  *)
(* updates, or an update and a rollback, may overlap.                      *)
(*                                                                         *)
(* An update runs in steps.  The other writers of the state file replace   *)
(* what they read, but for confirm_boot, which writes back slot pointers   *)
(* it has read before: it alone is split into its read and its write.      *)
(*                                                                         *)
(* The boot loader and the init system are not in the repository.  They    *)
(* are modelled as the code describes them: the boot loader starts the     *)
(* slot that slot_name, or else the state file, names; the init system     *)
(* calls should_rollback on each boot and, as it answers, rollback_update  *)
(* or (while the update is unconfirmed) increment_bootcount.               *)
(***************************************************************************)
EXTENDS Naturals

CONSTANTS
    Updaters,     \* processes that run `update apply` or `update run`
    Releases,     \* images the release server offers
    Limit,        \* BMT_OTA_MAX_BOOTCOUNT
    MaxCommands   \* bound on the updates and rollbacks an operator starts

ASSUME OTAAssumption ==
    /\ Limit \in Nat \ {0} /\ MaxCommands \in Nat
    /\ Releases \cap {"empty", "torn", "elsewhere"} = {}

Slots == {"a", "b"}

Other(s) == IF s = "a" THEN "b" ELSE "a"

VARIABLES
    hasEnv,      \* fw_printenv and fw_setenv work
    unsigned,    \* BMT_OTA_ALLOW_UNSIGNED
    slotName,    \* U-Boot's slot_name, where hasEnv
    file,        \* the state file
    image,       \* what each slot holds
    on, running, \* the device is up, and the slot it was booted from
    hooked,      \* the init system has handled this boot
    upd,         \* what each updater is doing
    confirming,  \* the state a confirmation has read, or "no"
    commands,    \* updates and operator rollbacks started so far
    wanted,      \* history: the image the last completed command switched to
    overlapped,  \* history: two commands were in progress at once
    blind,       \* history: a rollback or a dry run went to a slot without a whole image
    undone       \* history: a confirmation undid a switch

boot == <<hasEnv, unsigned, on, running, hooked>>
history == <<wanted, overlapped, blind, undone>>
otaVars == <<boot, slotName, file, image, upd, confirming, commands, history>>

\* full: `update run`, whose stages go on after the slots are switched.
Idle == [step |-> "idle", full |-> FALSE, target |-> "a", release |-> "none"]

\* The updater may still change a slot or the pointers.
Active(u) == upd[u].step \notin {"idle", "pull"}

\* Faulty: the environment is not asked.
CurrentSlotOfFile == file.current

\* get_current_slot
CurrentSlot == IF hasEnv THEN slotName ELSE file.current

\* The slot the boot loader would start now.
BootSlot == IF hasEnv THEN slotName ELSE file.current

IsWhole(s) == image[s] \notin {"empty", "torn"}

OtaInit ==
    /\ hasEnv \in BOOLEAN /\ unsigned \in BOOLEAN
    /\ slotName = "a"
    /\ file = [current |-> "a", standby |-> "b", confirmed |-> TRUE, bootcount |-> 0]
    /\ image = [s \in Slots |-> IF s = "a" THEN "shipped" ELSE "empty"]
    /\ on = TRUE /\ running = "a" /\ hooked = TRUE
    /\ upd = [u \in Updaters |-> Idle]
    /\ confirming = "no"
    /\ commands = 0
    /\ wanted = "shipped"
    /\ overlapped = FALSE /\ blind = FALSE /\ undone = FALSE

----------------------------------------------------------------------------
(* One update: ask the server, download, check the signature, write,       *)
(* switch.                                                                 *)

\* Bound: no command starts after two have overlapped, when little is promised.
Command ==
    /\ ~overlapped
    /\ commands < MaxCommands /\ commands' = commands + 1
    /\ overlapped' = \E u \in Updaters : Active(u)

StartUpdate(u, work) ==
    /\ on /\ hooked /\ upd[u].step = "idle"
    /\ Command
    /\ upd' = [upd EXCEPT ![u] = work]
    /\ UNCHANGED <<boot, slotName, file, image, confirming, wanted, blind, undone>>

\* `update apply` computes its target before it asks the server.
StartApply(u) == StartUpdate(u, [Idle EXCEPT !.step = "check", !.target = Other(CurrentSlot)])

\* `update run` does it after that; the outcome of its first stage, data_check,
\* stops nothing.
StartRun(u) == StartUpdate(u, [Idle EXCEPT !.step = "check", !.full = TRUE])

\* `update apply` exits, `update run` goes on with the container images.
Ended(u) == [upd EXCEPT ![u] = IF @.full THEN [Idle EXCEPT !.step = "pull"] ELSE Idle]

\* check_update: every error counts as no update.
NoUpdate(u) ==
    /\ upd[u].step = "check"
    /\ upd' = Ended(u)
    /\ UNCHANGED <<boot, slotName, file, image, confirming, commands, history>>

\* Bound: a release is applied once, so that images tell updates apart.
Found(u, r) ==
    /\ upd[u].step = "check"
    /\ \A v \in Updaters : upd[v].release # r
    /\ \A s \in Slots : image[s] # r
    /\ upd' = [upd EXCEPT ![u].step = "fetch", ![u].release = r,
                  ![u].target = IF upd[u].full THEN Other(CurrentSlot) ELSE @]
    /\ UNCHANGED <<boot, slotName, file, image, confirming, commands, history>>

\* download_image: the connection breaks, the disk is full, or the checksum
\* differs.  The file is in a temporary directory of the command.
DownloadFails(u) ==
    /\ upd[u].step = "fetch"
    /\ upd' = Ended(u)
    /\ UNCHANGED <<boot, slotName, file, image, confirming, commands, history>>

\* enforce_signature wants a .sig beside the image, which neither command
\* downloads; PermissionError ends both.
Refused(u) ==
    /\ upd[u].step = "fetch" /\ ~unsigned
    /\ upd' = [upd EXCEPT ![u] = Idle]
    /\ UNCHANGED <<boot, slotName, file, image, confirming, commands, history>>

\* --dry-run: the image goes to a file instead of the slot, and the slots are
\* switched all the same.
DryRun(u) ==
    /\ upd[u].step = "fetch" /\ unsigned
    /\ upd' = [upd EXCEPT ![u].step = "switch", ![u].release = "elsewhere"]
    /\ UNCHANGED <<boot, slotName, file, image, confirming, commands, history>>

StartWrite(u) ==
    /\ upd[u].step = "fetch" /\ unsigned
    /\ upd' = [upd EXCEPT ![u].step = "write"]
    /\ image' = [image EXCEPT ![upd[u].target] = "torn"]
    /\ UNCHANGED <<boot, slotName, file, confirming, commands, history>>

Swapped ==
    [current |-> file.standby, standby |-> file.current, confirmed |-> FALSE, bootcount |-> 0]

\* Faulty: the slots are switched although the write failed.
WriteFailsSwitches(u) ==
    /\ upd[u].step = "write"
    /\ upd' = [upd EXCEPT ![u] = Idle]
    /\ file' = Swapped
    /\ UNCHANGED <<boot, slotName, image, confirming, commands, history>>

\* dd or the copy fails, or the readback differs; the file-backed store then
\* deletes the image it has just written.
WriteFails(u) ==
    /\ upd[u].step = "write"
    /\ upd' = Ended(u)
    /\ image' \in {image, [image EXCEPT ![upd[u].target] = "empty"]}
    /\ UNCHANGED <<boot, slotName, file, confirming, commands, history>>

\* The readback matches; another writer of the slot may spoil it again.
WriteDone(u) ==
    /\ upd[u].step = "write"
    /\ upd' = [upd EXCEPT ![u].step = "switch"]
    /\ image' = [image EXCEPT ![upd[u].target] =
          IF \E v \in Updaters \ {u} : upd[v].step = "write" /\ upd[v].target = upd[u].target
          THEN "torn" ELSE upd[u].release]
    /\ UNCHANGED <<boot, slotName, file, confirming, commands, history>>

\* StateManager.switch_slots: a swap, whatever slot was written.  The U-Boot
\* environment is not told.
Switch(u) ==
    /\ upd[u].step = "switch"
    /\ upd' = Ended(u)
    /\ file' = Swapped
    /\ wanted' = IF upd[u].release = "elsewhere" THEN image[file.standby] ELSE upd[u].release
    /\ blind' = (blind \/ (upd[u].release = "elsewhere" /\ ~IsWhole(file.standby)))
    /\ UNCHANGED <<boot, slotName, image, confirming, commands, overlapped, undone>>

\* `docker compose pull`, up to 30 minutes, and data_verify.  A failure is what
\* the command reports, and undoes nothing.
PullContainers(u) ==
    /\ upd[u].step = "pull"
    /\ upd' = [upd EXCEPT ![u] = Idle]
    /\ UNCHANGED <<boot, slotName, file, image, confirming, commands, history>>

----------------------------------------------------------------------------
(* The other commands.                                                     *)

\* confirm_boot: StateManager.confirm loads, changes and saves the state.
StartConfirm ==
    /\ on /\ hooked /\ confirming = "no"
    /\ confirming' = file.current
    /\ UNCHANGED <<boot, slotName, file, image, upd, commands, history>>

\* The variables it sets in the environment are never read.
EndConfirm ==
    /\ confirming # "no" /\ confirming' = "no"
    /\ file' = [current |-> confirming, standby |-> Other(confirming),
                 confirmed |-> TRUE, bootcount |-> 0]
    /\ undone' = (undone \/ file.current # confirming)
    /\ UNCHANGED <<boot, slotName, image, upd, commands, wanted, overlapped, blind>>

\* rollback_update: it asks neither whether an update was applied nor what
\* the other slot holds, and ignores a fw_setenv that fails.
RollbackUpdate ==
    /\ file' = Swapped
    /\ slotName' \in IF hasEnv THEN {slotName, file.standby} ELSE {slotName}
    /\ wanted' = image[file.standby]
    /\ blind' = (blind \/ ~IsWhole(file.standby))

Rollback ==
    /\ on /\ hooked
    /\ Command
    /\ RollbackUpdate
    /\ UNCHANGED <<boot, image, upd, confirming, undone>>

----------------------------------------------------------------------------
(* The boot loader and the init system.                                    *)

\* Power is lost or the device is rebooted, in whatever state it is.
PowerOff ==
    /\ on
    /\ on' = FALSE
    /\ upd' = [u \in Updaters |-> Idle] /\ confirming' = "no"
    /\ UNCHANGED <<hasEnv, unsigned, running, hooked, slotName, file, image, commands, history>>

Boot ==
    /\ ~on
    /\ on' = TRUE
    /\ running' = BootSlot
    /\ hooked' = FALSE
    /\ UNCHANGED <<hasEnv, unsigned, slotName, file, image, upd, confirming, commands, history>>

ShouldRollback == ~file.confirmed /\ file.bootcount >= Limit

\* Faulty: the count is not read before it is written.
IncrementFromZero == file' = [file EXCEPT !.bootcount = 1, !.confirmed = FALSE]

IncrementBootcount == file' = [file EXCEPT !.bootcount = @ + 1, !.confirmed = FALSE]

\* "called on each boot before confirmation": an unconfirmed boot is counted,
\* a confirmed one is not.
CountBoot ==
    /\ on /\ ~hooked
    /\ ~ShouldRollback
    /\ IF file.confirmed THEN UNCHANGED file ELSE IncrementBootcount
    /\ hooked' = TRUE
    /\ UNCHANGED <<hasEnv, unsigned, on, running, slotName, image, upd, confirming, commands, history>>

\* The automatic rollback, followed by a reboot.
AutoRollback ==
    /\ on /\ ~hooked
    /\ ShouldRollback
    /\ RollbackUpdate
    /\ on' = FALSE
    /\ UNCHANGED <<hasEnv, unsigned, running, hooked, image, upd, confirming, commands,
                   overlapped, undone>>

OtaNext ==
    \/ \E u \in Updaters :
          \/ StartApply(u) \/ StartRun(u)
          \/ NoUpdate(u) \/ \E r \in Releases : Found(u, r)
          \/ DownloadFails(u) \/ Refused(u) \/ DryRun(u)
          \/ StartWrite(u) \/ WriteFails(u) \/ WriteDone(u) \/ Switch(u) \/ PullContainers(u)
    \/ StartConfirm \/ EndConfirm \/ Rollback
    \/ PowerOff \/ Boot \/ CountBoot \/ AutoRollback

\* A device that nobody confirms keeps being restarted, comes up again, and
\* not every boot loses power before the init system has run.
OtaFairness ==
    /\ WF_otaVars(Boot)
    /\ SF_otaVars(CountBoot \/ AutoRollback)
    /\ WF_otaVars(PowerOff /\ hooked /\ ~file.confirmed)

OtaSpec == OtaInit /\ [][OtaNext]_otaVars /\ OtaFairness

----------------------------------------------------------------------------

File == [current : Slots, standby : Slots, confirmed : BOOLEAN, bootcount : 0 .. Limit]

Images == {"empty", "torn", "shipped"} \cup Releases

Work == [step : {"idle", "check", "fetch", "write", "switch", "pull"}, full : BOOLEAN,
         target : Slots, release : {"none", "elsewhere"} \cup Releases]

\* Every variable stays in its type and the two pointers never coincide.
OtaTypeOK ==
    /\ hasEnv \in BOOLEAN /\ on \in BOOLEAN /\ hooked \in BOOLEAN
    /\ unsigned \in BOOLEAN /\ confirming \in Slots \cup {"no"}
    /\ overlapped \in BOOLEAN /\ blind \in BOOLEAN /\ undone \in BOOLEAN
    /\ slotName \in Slots /\ running \in Slots
    /\ file \in File
    /\ file.standby = Other(file.current)
    /\ image \in [Slots -> Images]
    /\ wanted \in Images
    /\ upd \in [Updaters -> Work]
    /\ commands \in 0 .. MaxCommands

\* As long as updates and rollbacks run one at a time and nobody switches to a
\* slot that was never completely written, the device can boot, at whatever
\* point the power goes: the slot it would boot is never empty or half written.
BootSlotIsWhole == ~overlapped /\ ~blind /\ ~undone => IsWhole(BootSlot)

\* "switch the slot pointers so the next boot will try the new image": on a
\* board without U-Boot the slot that boots next is the one the last
\* successful update or rollback selected.
NextBootIsWanted == ~hasEnv /\ ~overlapped /\ ~undone => image[BootSlot] = wanted

\* "should_rollback ... on each boot": without U-Boot, a device that boots the
\* same slot again and again unconfirmed ends up on the other slot, unless
\* somebody confirms.
UnconfirmedSlotIsLeft ==
    \A s \in Slots :
        (~hasEnv /\ running = s /\ ~file.confirmed) ~> (running # s \/ file.confirmed)

\* "writes a new image to the inactive A/B partition": no update writes the
\* slot the device runs from (unless somebody rolled back to an empty slot).
WritesInactiveSlot ==
    \A u \in Updaters : upd[u].step = "write" /\ ~blind => upd[u].target # running
=============================================================================
