----------------------------- MODULE DeviceMode -----------------------------
(***************************************************************************)
(* device_mode.c and main.c: how the device chooses between programming    *)
(* mode and keyboard mode, and what it hands from one to the other.        *)
(*                                                                         *)
(* The only memory the two modes share is the EEPROM; the only way from    *)
(* one to the other is a watchdog reset, recognised at the next boot by    *)
(* the reset flags.  Programming mode runs the commands of Protocol.  In   *)
(* keyboard mode nothing writes the EEPROM, and the interpreter (module    *)
(* ScriptEngine) plays PlayedScript.                                       *)
(*                                                                         *)
(* Time is abstracted: the programming timeout may have elapsed whenever   *)
(* the loop looks.                                                         *)
(***************************************************************************)
EXTENDS Protocol

VARIABLES
  mode,          \* current_mode; "boot" before main has run, "resetting" in
                 \* trigger_watchdog_reset
  mcusr,         \* the reset flags of the hardware
  gpior0,        \* where the bootloader may save them
  had_activity,  \* usb_rawhid.c: a SET_REPORT has arrived
  (* Two history variables:                                                *)
  requested,     \* the firmware asked for the reset that is due
  trusted        \* nothing was programmed since a COMMIT that was vouched
                 \* for answered OK

mode_vars == <<mode, mcusr, gpior0, had_activity, requested>>
device_vars == <<vars, mode, mcusr, gpior0, had_activity, requested, trusted>>

DeviceInit ==
  /\ Init
  /\ mode = "boot"
  /\ mcusr = {"PORF"}
  /\ gpior0 = {}
  /\ had_activity = FALSE
  /\ requested = FALSE
  /\ trusted = FALSE
-----------------------------------------------------------------------------
(* Hardware and bootloader.  The flags add up until they are cleared,      *)
(* except that power-on clears the others; GPIOR0 does not survive.        *)
Reset(flags) ==
  /\ mode' = "boot"
  /\ mcusr' = flags
  /\ gpior0' = {}
  /\ UNCHANGED <<vars, had_activity, trusted>>

PowerOn == Reset({"PORF"}) /\ requested' = FALSE
ExternalReset == Reset(mcusr \union {"EXTRF"}) /\ UNCHANGED requested
WatchdogReset ==
  mode = "resetting" /\ Reset(mcusr \union {"WDRF"}) /\ UNCHANGED requested

Bootloader ==
  /\ mode = "boot"
  /\ mcusr # {}
  /\ gpior0' = mcusr
  /\ mcusr' = {}
  /\ UNCHANGED <<vars, mode, had_activity, requested, trusted>>
-----------------------------------------------------------------------------
(* Mutant: the copy the bootloader saved is not looked at.                 *)
mode_of_mcusr == IF "WDRF" \in mcusr THEN "keyboard" ELSE "programming"

determine_initial_mode ==
  IF "WDRF" \in (IF mcusr = {} THEN gpior0 ELSE mcusr) THEN "keyboard" ELSE "programming"

(* Mutant: the reset flags are left set.                                   *)
MainKeepsFlags ==
  /\ mode = "boot"
  /\ cache' = StorageInit(eeprom)
  /\ ProtocolRestart
  /\ mode' = determine_initial_mode
  /\ had_activity' = FALSE
  /\ requested' = FALSE
  /\ UNCHANGED <<eeprom, mcusr, gpior0, trusted>>

(* Mutant: the protocol is not initialised.                                *)
MainKeepsUpload ==
  /\ mode = "boot"
  /\ cache' = StorageInit(eeprom)
  /\ handler' = "idle" /\ done' = 0 /\ exit_requested' = FALSE
  /\ mode' = determine_initial_mode
  /\ mcusr' = {}
  /\ had_activity' = FALSE
  /\ requested' = FALSE
  /\ UNCHANGED <<eeprom, current_offset, running_crc, response, report, spoiled,
                 vouched, gpior0, trusted>>

(* main up to the loop of the mode: storage_init, device_mode_init, and    *)
(* rawhid_init or engine_init on zeroed memory.                            *)
Main ==
  /\ mode = "boot"
  /\ cache' = StorageInit(eeprom)
  /\ ProtocolRestart
  /\ mode' = determine_initial_mode
  /\ mcusr' = {}
  /\ had_activity' = FALSE
  /\ requested' = FALSE
  /\ UNCHANGED <<eeprom, gpior0, trusted>>

(* run_programming_loop.  A SET_REPORT counts as activity even when its    *)
(* data never arrives.                                                     *)
HostActivity ==
  /\ mode = "programming" /\ handler = "idle" /\ ~ exit_requested
  /\ had_activity' = TRUE
  /\ UNCHANGED <<vars, mode, mcusr, gpior0, requested, trusted>>

ProcessReport ==
  /\ mode = "programming"
  /\ \E r \in Reports : protocol_process_report(r)
  /\ had_activity' = TRUE
  /\ UNCHANGED <<mode, mcusr, gpior0, requested, trusted>>

HandlerStep ==
  /\ mode = "programming"
  /\ Proceed
  /\ trusted' = /\ handler = "header" /\ handler' = "idle"
                /\ vouched /\ report.version = PayloadVersion
  /\ UNCHANGED mode_vars

trigger_watchdog_reset ==
  /\ mode' = "resetting"
  /\ requested' = TRUE
  /\ UNCHANGED <<vars, mcusr, gpior0, had_activity, trusted>>

ExitRequested ==
  /\ mode = "programming" /\ handler = "idle"
  /\ exit_requested
  /\ trigger_watchdog_reset

TimeoutElapsed ==
  /\ mode = "programming" /\ handler = "idle"
  /\ ~ had_activity
  /\ trigger_watchdog_reset

DeviceNext ==
  \/ PowerOn
  \/ ExternalReset
  \/ WatchdogReset
  \/ Bootloader
  \/ Main
  \/ HostActivity
  \/ ProcessReport
  \/ HandlerStep
  \/ ExitRequested
  \/ TimeoutElapsed

(* The processor keeps running: main, the handlers and the loop go on, the *)
(* timeout elapses, and the watchdog bites.  The host, the bootloader's    *)
(* choice and the resets from outside owe nothing.                         *)
DeviceFairness ==
  /\ WF_device_vars(Main)
  /\ WF_device_vars(HandlerStep)
  /\ WF_device_vars(ExitRequested)
  /\ WF_device_vars(TimeoutElapsed)
  /\ WF_device_vars(WatchdogReset)

DeviceSpec == DeviceInit /\ [][DeviceNext]_device_vars /\ DeviceFairness
-----------------------------------------------------------------------------
(* What engine_start gives the interpreter.                                *)
PlayedScript == IF cache.valid THEN Script(eeprom, cache.length) ELSE << >>

(* The device, resets and mode changes included, does to the EEPROM and to *)
(* the protocol's state only what Protocol allows: a mode change is a loss *)
(* of power to it, and what Protocol guarantees holds of the device.       *)
ImplementsProtocol == Spec

(* Keyboard mode is entered only by a boot whose reset the firmware itself *)
(* asked for since it last started: no power-on or reset of a device in    *)
(* keyboard mode gets back there without passing programming mode.         *)
KeyboardOnlyByRequest ==
  [][mode # "keyboard" /\ mode' = "keyboard" => requested]_device_vars

(* The script of a COMMIT that answered OK, with the format version the    *)
(* firmware expects and a CRC that covered it, is played whole and intact  *)
(* after any resets, if nothing was programmed since.                      *)
CommittedIsPlayed ==
  mode = "keyboard" /\ trusted =>
    /\ PlayedScript # << >>
    /\ Len(PlayedScript) = read_u16(eeprom, HEADER_OFFSET_LENGTH)
    /\ CrcOf(PlayedScript) = read_u16(eeprom, HEADER_OFFSET_CRC)

(* A reset from outside, which the firmware did not ask for.               *)
Interrupted == mode = "boot" /\ "WDRF" \notin mcusr \union gpior0

(* After EXIT, or while the host stays silent, the device gets to keyboard *)
(* mode on its own, whether or not the bootloader clears the reset flags,  *)
(* unless it is reset from outside or the host speaks.                     *)
ReachesKeyboard ==
  /\ [](mode = "programming" /\ exit_requested
          => <>(mode = "keyboard" \/ Interrupted))
  /\ [](mode = "programming" /\ ~ had_activity
          => <>(had_activity \/ mode = "keyboard" \/ Interrupted))
=============================================================================
