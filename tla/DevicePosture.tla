---------------------------- MODULE DevicePosture ----------------------------
(***************************************************************************)
(* What the Android app makes of the device it runs on.  Two gates look at *)
(* it: "strict mode", half of it in Kotlin and half in Rust, which read    *)
(* the device each in their own way, and the posture, which Rust takes     *)
(* from the signals Kotlin sends it as text.                               *)
(*                                                                         *)
(* A device is a record: the debugger, the flags and airplane mode; the    *)
(* marks in the Build fields; the values of the three properties, "" when  *)
(* they cannot be read; the paths that exist; and the words in the files   *)
(* that can be read.                                                       *)
(***************************************************************************)

PropFiles == {"default.prop", "system/build.prop", "system/default.prop"}
TextFiles == PropFiles \cup {"cpuinfo", "cmdline"}

SuPaths == {"bin/su", "xbin/su", "sbin/su", "Superuser.apk", "SuperSU.apk"}
BadPaths == SuPaths \cup {"Kinguser.apk", "noshufou.su"}
EmuPaths == {"qemud", "qemu_pipe", "qemu_trace", "debug_qemu.so"}

(* An emulator's name in the letters Kotlin looks for, or in other ones.   *)
BuildMarks == {"emulator", "emulator in other letters", "test-keys"}

Devices ==
    [debugger : BOOLEAN, debuggable : BOOLEAN, airplane : BOOLEAN,
     build : SUBSET BuildMarks, type : {"user", "userdebug", "eng"},
     props : [{"ro.debuggable", "ro.secure", "ro.kernel.qemu"} -> {"", "0", "1"}],
     paths : SUBSET (BadPaths \cup EmuPaths),
     text : [TextFiles -> SUBSET {"ro.debuggable=1", "ro.secure=0", "emulator", "qemu",
                                  "goldfish", "ranchu", "androidboot.hardware=goldfish",
                                  "test-keys", "userdebug", "eng"}]]

----------------------------------------------------------------------------
(* Strict mode, the Rust half: lib.rs.                                     *)
is_rooted_or_dangerous(d) ==
    \/ d.paths \cap BadPaths # {}
    \/ d.text["system/build.prop"] \cap {"ro.debuggable=1", "ro.secure=0"} # {}

is_emulator_or_qemu(d) ==
    \/ d.text["cpuinfo"] \cap {"qemu", "goldfish", "ranchu", "emulator"} # {}
    \/ d.paths \cap EmuPaths # {}
    \/ d.text["cmdline"] \cap {"qemu", "androidboot.hardware=goldfish"} # {}

is_debug_build_prop(d) ==
    \E f \in PropFiles : d.text[f] \cap {"test-keys", "userdebug", "eng"} # {}

is_environment_strict(d) ==
    ~(is_rooted_or_dangerous(d) \/ is_emulator_or_qemu(d) \/ is_debug_build_prop(d))

(* The Kotlin half, and both.                                              *)
KotlinOk(d) ==
    /\ ~d.debugger /\ ~d.debuggable
    /\ d.build \cap {"emulator", "test-keys"} = {} /\ d.type = "user"
    /\ d.props["ro.debuggable"] # "1" /\ d.props["ro.secure"] # "0"
    /\ d.props["ro.kernel.qemu"] # "1"
    /\ d.paths \cap SuPaths = {}

IsStrictModeEnabled(d) == KotlinOk(d) /\ is_environment_strict(d)

----------------------------------------------------------------------------
(* The posture: device_posture.rs on what the text of the shell says.      *)
signals_from_kotlin_payload(d) ==
    [debugger_attached |-> d.debugger, app_debuggable |-> d.debuggable,
     airplane_mode |-> d.airplane, build |-> d.build, build_type |-> d.type,
     prop |-> d.props, root_paths_present |-> d.paths \cap SuPaths]

Finds(s) ==
    [Debugger |-> s.debugger_attached,
     Rooted |-> s.root_paths_present # {},
     Emulator |-> \/ s.build \cap {"emulator", "emulator in other letters"} # {}
                  \/ s.prop["ro.kernel.qemu"] = "1",
     DebugBuild |-> s.app_debuggable \/ "test-keys" \in s.build \/ s.build_type # "user",
     InsecureProps |-> s.prop["ro.debuggable"] = "1" \/ s.prop["ro.secure"] = "0",
     AirplaneMode |-> s.airplane_mode]

posture_reasons(s) == {r \in DOMAIN Finds(s) : Finds(s)[r]}

evaluate_posture(s) ==
    CASE posture_reasons(s) = {} -> "High"
      [] posture_reasons(s) = {"AirplaneMode"} -> "Degraded"
      [] OTHER -> "Low"

RiskyActions == {"voice", "groups", "export", "decoy", "send"}

action_allowed(posture, action) == action \in RiskyActions /\ posture = "High"

IsActionAllowedForSignals(d, action) ==
    action_allowed(evaluate_posture(signals_from_kotlin_payload(d)), action)

(* onVoiceMessage asks both gates.                                         *)
VoiceAllowed(d) == IsStrictModeEnabled(d) /\ IsActionAllowedForSignals(d, "voice")
============================================================================
