------------------------------ MODULE MCIecBus ------------------------------
(***************************************************************************)
(* Small instances of IecBus: bytes of three bits, of which two are the    *)
(* mode. Device 0 is the drive, device 1 another one; secondary address 0  *)
(* loads, 1 saves.                                                         *)
(***************************************************************************)
EXTENDS IecBus

Command(b) == [kind |-> "command", bytes |-> b]
Out(b) == [kind |-> "out", bytes |-> b]
In == [kind |-> "in"]

Opens(address) == Command(<<2 * LISTEN, 2 * OPEN + address>>)
Closes(address) == Command(<<2 * LISTEN, 2 * CLOSE + address>>)
Unlisten == Command(<<2 * UNLISTEN + 1>>)
Untalk == Command(<<2 * UNTALK + 1>>)

Load == <<Opens(0), Out(<<6, 1>>), Unlisten,
          Command(<<2 * TALK, 2 * DATA>>), In, Untalk, Closes(0), Unlisten>>
Save == <<Opens(1), Out(<<5>>), Unlisten,
          Command(<<2 * LISTEN, 2 * DATA + 1>>), Out(<<0, 7, 2>>), Unlisten,
          Closes(1), Unlisten>>
JustLoad == {Load}
LoadOrSave == {Load, Save}

(* PRINT#1,...: to device 1, which is switched off, by secondary address 1 *)
ToPrinter == <<Command(<<2 * LISTEN + 1, 2 * DATA + 1>>), Out(<<4>>), Unlisten>>
SaveOrPrint == {Save, ToPrinter}

ASSUME KernalAssumption == KernalJobs /\ OneFileJobs

NoFaults == {{}}
NoneOrAll == {{}, {"missing", "slow", "reset"}}

ThreeBytes == <<7, 0, 5>>
=============================================================================
