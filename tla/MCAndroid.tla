------------------------------ MODULE MCAndroid ------------------------------
(* Instances of AndroidApp for TLC.  A phone with no bad sign, and the same *)
(* phone with a debugger attached.                                          *)
EXTENDS AndroidApp

Phone ==
    [debugger |-> FALSE, debuggable |-> FALSE, airplane |-> FALSE,
     build |-> {}, type |-> "user",
     props |-> [p \in {"ro.debuggable", "ro.secure", "ro.kernel.qemu"} |-> "0"],
     paths |-> {}, text |-> [f \in TextFiles |-> {}]]

MCConditions ==
    [c \in {"calm", "debugged"} |->
        [Phone EXCEPT !.props["ro.secure"] = "1", !.debugger = (c = "debugged")]]
============================================================================
