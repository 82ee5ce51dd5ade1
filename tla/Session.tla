------------------------------- MODULE Session -------------------------------
(***************************************************************************)
(* Connecting to the hardware and letting go of it: xiaStartSystem builds  *)
(* the Xerxes boards and opens a port for each (handel_system.c,           *)
(* handel_xerxes.c, xerxes.c), xiaExit and xiaInit close the ports again   *)
(* by walking the detChans (handel.c).  The ports live in the tables of    *)
(* the machine dependent layer (md_linux.c), one per interface, whose      *)
(* counter is both the number of open ports and the next slot to use.      *)
(*                                                                         *)
(* Nothing ties the layers together: Handel's detChans, the boards and the *)
(* tables are each cleared at their own time.  A behaviour is orderly when *)
(* the application exits before it starts again, keeps each module whose   *)
(* port is open, has all its modules on one interface (see WithIface), and *)
(* every port closes.                                                      *)
(*                                                                         *)
(* Abstractions.  A module has one detChan, as repeated closes of a board  *)
(* are skipped; a start that fails after the ports are open (firmware) is  *)
(* a start.  The interfaces are the two whose tables hold handles.         *)
(***************************************************************************)
EXTENDS Integers, Sequences, FiniteSets, SequencesExt

CONSTANTS Modules,   \* module aliases
          Wirings,   \* possible [Modules -> Ifaces]: the modules' interfaces
          DeviceOf,  \* device_number or com_port of a module
          MaxOpen    \* bound: driver handles held on one device

Ifaces == {"usb2", "serial"}
Devices == {DeviceOf[a] : a \in Modules}
Slots == 0..(Cardinality(Modules) - 1)
None == "none"

ASSUME ModulesAssumption == IsFiniteSet(Modules)

ASSUME WiringAssumption == Wirings \subseteq [Modules -> Ifaces]
ASSUME DeviceAssumption == None \notin Devices /\ MaxOpen \in Nat

VARIABLES orderly,   \* how the application behaves; never changes
          wiring,    \* the interface each module is configured with
          modules,   \* xiaModuleHead's list
          detChans,  \* xiaDetChanHead's list: the module alias of each SINGLE
          boards,    \* system_head's list: module, interface and ioChan
          ifaces,    \* the interfaces in iface_head's list
          count,     \* numUSB2, numSerial; below zero it has wrapped
          name,      \* usb2Names[], serialName[]
          handle,    \* usb2Handles[], serialHandles[]
          driver,    \* open handles the operating system holds on a device
          phase,     \* "down", "building", "up" or "closing"
          pending    \* what the building or closing loop has still to visit

config == <<orderly, wiring, modules, detChans>>
ports == <<count, name, handle, driver>>
vars == <<config, boards, ifaces, ports, phase, pending>>

Board == [mod : Modules, iface : Ifaces, ioChan : Slots]

TypeOK ==
    /\ orderly \in BOOLEAN /\ wiring \in Wirings
    /\ modules \in Seq(Modules) /\ detChans \in Seq(Modules)
    /\ boards \in Seq(Board)
    /\ ifaces \subseteq Ifaces
    /\ count \in [Ifaces -> (-Cardinality(Modules))..Cardinality(Modules)]
    /\ name \in [Ifaces -> [Slots -> Devices \cup {None}]]
    /\ handle \in [Ifaces -> [Slots -> Devices \cup {None}]]
    /\ driver \in [Ifaces -> [Devices -> 0..MaxOpen]]
    /\ phase \in {"down", "building", "up", "closing"}
    /\ pending \in Seq(Modules)

\* The modules of the system share an interface.
OneInterface == \E i \in Ifaces : \A a \in Modules : wiring[a] = i

Init ==
    /\ orderly \in BOOLEAN /\ wiring \in Wirings
    /\ orderly => OneInterface
    /\ modules = <<>> /\ detChans = <<>> /\ boards = <<>> /\ ifaces = {}
    /\ count = [i \in Ifaces |-> 0]
    /\ name = [i \in Ifaces |-> [s \in Slots |-> None]]
    /\ handle = [i \in Ifaces |-> [s \in Slots |-> None]]
    /\ driver = [i \in Ifaces |-> [d \in Devices |-> 0]]
    /\ phase = "down" /\ pending = <<>>

-----------------------------------------------------------------------------
(* The configuration. *)

Idle == phase \in {"down", "up"}

\* A list without its element a.
Unlinked(list, a) == RemoveAt(list, CHOOSE k \in DOMAIN list : list[k] = a)

AddModule(a) ==
    /\ Idle
    /\ a \notin ToSet(modules) \cup ToSet(detChans)
    /\ modules' = Append(modules, a)
    /\ detChans' = Append(detChans, a)
    /\ UNCHANGED <<orderly, wiring, boards, ifaces, ports, phase, pending>>

\* xiaRemoveModule: neither the board nor its port is told.
RemoveModule(a) ==
    /\ phase = "down" \/ (phase = "up" /\ ~orderly)
    /\ a \in ToSet(modules)
    /\ modules' = Unlinked(modules, a)
    /\ detChans' = Unlinked(detChans, a)
    /\ UNCHANGED <<orderly, wiring, boards, ifaces, ports, phase, pending>>

\* The module's channel alias is set to -1, which keeps the detChan, and then
\* the module is removed.
OrphanDetChan(a) ==
    /\ phase = "up" /\ ~orderly
    /\ a \in ToSet(modules)
    /\ modules' = Unlinked(modules, a)
    /\ UNCHANGED <<orderly, wiring, detChans, boards, ifaces, ports, phase, pending>>

-----------------------------------------------------------------------------
(* xiaStartSystem. *)

\* dxp_init_ds forgets the boards and the interfaces of the last start; their
\* ports stay as they are.  A detChan without a module fails validation.
Start ==
    /\ phase = "down" \/ (phase = "up" /\ ~orderly)
    /\ detChans # <<>> /\ ToSet(detChans) \subseteq ToSet(modules)
    /\ \A i \in Ifaces, d \in Devices : driver[i][d] < MaxOpen   \* bound
    /\ boards' = <<>> /\ ifaces' = {}
    /\ phase' = "building" /\ pending' = modules
    /\ UNCHANGED <<config, ports>>

\* dxp_md_usb2_initialize and dxp_md_serial_initialize, called by the first
\* dxp_add_iface of a start.
Initialized(i) == IF i \in ifaces THEN count ELSE [count EXCEPT ![i] = 0]

\* dxp_md_serial_initialize clears the names besides.
Names(i) == IF i = "serial" /\ i \notin ifaces
              THEN [name EXCEPT ![i] = [s \in Slots |-> None]] ELSE name

\* dxp_add_board_item "interface" also changes the interface of the board that
\* was added last.
WithIface(i) ==
    IF boards = <<>> THEN boards
    ELSE [boards EXCEPT ![Len(boards)].iface = i]

\* The slots below the counter whose name matches.
Matching(i, d) == {s \in Slots : s < Initialized(i)[i] /\ Names(i)[i][s] = d}

AddBoard(a, i, s) ==
    boards' = Append(WithIface(i), [mod |-> a, iface |-> i, ioChan |-> s])

\* The building loop goes on; after the last module the system is up.
BuildNext ==
    /\ pending' = Tail(pending)
    /\ phase' = IF Tail(pending) = <<>> THEN "up" ELSE "building"

\* Mutant: the counter is not advanced.
MutClaimed(i) == Initialized(i)

\* The counter after a slot is taken.
Claimed(i) == [Initialized(i) EXCEPT ![i] = @ + 1]

\* A module on a device that is already in the table shares its slot.
ShareSlot ==
    /\ phase = "building"
    /\ LET a == Head(pending)
           i == wiring[a] IN
       \E s \in Matching(i, DeviceOf[a]) :
          /\ \A t \in Matching(i, DeviceOf[a]) : s <= t
          /\ count' = Initialized(i) /\ name' = Names(i)
          /\ AddBoard(a, i, s)
          /\ ifaces' = ifaces \cup {i}
    /\ BuildNext
    /\ UNCHANGED <<config, handle, driver>>

\* A new slot: what its handle held is overwritten.
OpenSlot ==
    /\ phase = "building"
    /\ LET a == Head(pending)
           i == wiring[a]
           d == DeviceOf[a]
           s == Initialized(i)[i] IN
       /\ Matching(i, d) = {}
       /\ count' = Claimed(i)
       /\ handle' = [handle EXCEPT ![i][s] = d]
       /\ name' = [Names(i) EXCEPT ![i][s] = d]
       /\ driver' = [driver EXCEPT ![i][d] = @ + 1]
       /\ AddBoard(a, i, s)
       /\ ifaces' = ifaces \cup {i}
    /\ BuildNext
    /\ UNCHANGED config

\* The device does not open: the slot is taken all the same, and
\* xiaStartSystem returns.  xia_usb2_open has dropped the slot's old handle.
OpenFails ==
    /\ phase = "building"
    /\ LET a == Head(pending)
           i == wiring[a]
           s == Initialized(i)[i] IN
       /\ Matching(i, DeviceOf[a]) = {}
       /\ count' = Claimed(i)
       /\ handle' = IF i = "usb2" THEN [handle EXCEPT ![i][s] = None] ELSE handle
       /\ name' = Names(i)
       /\ boards' = WithIface(i)
       /\ ifaces' = ifaces \cup {i}
    /\ phase' = "up" /\ pending' = <<>>
    /\ UNCHANGED <<config, driver>>

\* xiaBuildXerxesConfig returns between two modules: the firmware of the one
\* whose port was opened is not found, or the next one's type is refused.
BuildStops ==
    /\ phase = "building"
    /\ phase' = "up" /\ pending' = <<>>
    /\ UNCHANGED <<config, boards, ifaces, ports>>

-----------------------------------------------------------------------------
(* xiaExit and xiaInit: xiaUnHook, then the lists are cleared. *)

StartClosing ==
    /\ Idle
    /\ phase' = "closing" /\ pending' = detChans
    /\ UNCHANGED <<config, boards, ifaces, ports>>

\* Mutant: dxp_det_to_elec stops at the first board.
MutBoardsOf(a) == {k \in 1..Len(boards) : k = 1}

\* dxp_det_to_elec: the boards of a module.
BoardsOf(a) == {k \in 1..Len(boards) : boards[k].mod = a}

\* "Skipping previously closed": USB 2.0 looks at the handle, serial at the name.
PortClosed(i, s) == (IF i = "usb2" THEN handle ELSE name)[i][s] = None

\* Mutant: the handle of the slot is kept.
MutReleased(i, s) == handle

\* Mutant: the name of the slot is kept.
MutNamesReleased(i, s) == name

\* The names once a port is closed.
NamesReleased(i, s) == [name EXCEPT ![i][s] = None]

\* The handles once a port is closed; the serial table keeps the descriptor.
Released(i, s) == IF i = "usb2" THEN [handle EXCEPT ![i][s] = None] ELSE handle

\* dxp_md_usb2_close, dxp_md_serial_close.
ClosePort(i, s) ==
    /\ ~PortClosed(i, s)
    /\ driver' = [driver EXCEPT ![i][handle[i][s]] = @ - 1]
    /\ handle' = Released(i, s)
    /\ name' = NamesReleased(i, s)
    /\ count' = [count EXCEPT ![i] = @ - 1]

\* A port that was closed before is left alone.
KeepPorts(i, s) ==
    /\ PortClosed(i, s)
    /\ UNCHANGED ports

\* One detChan of xiaUnHook.  An error of the port is dropped by dxp_unhook.
UnHookOne ==
    /\ phase = "closing" /\ pending # <<>>
    /\ Head(pending) \in ToSet(modules)
    /\ \/ /\ BoardsOf(Head(pending)) = {}      \* dxp_exit is permissive
          /\ UNCHANGED ports
       \/ \E k \in BoardsOf(Head(pending)) :
            LET i == boards[k].iface
                s == boards[k].ioChan IN
              \/ KeepPorts(i, s)
              \/ ClosePort(i, s)
              \/ /\ ~orderly /\ i = "usb2" /\ ~PortClosed(i, s)
                 /\ UNCHANGED ports
    /\ pending' = Tail(pending)
    /\ UNCHANGED <<config, boards, ifaces, phase>>

\* A detChan without a module ends the walk.
UnHookStops ==
    /\ phase = "closing" /\ pending # <<>>
    /\ Head(pending) \notin ToSet(modules)
    /\ pending' = <<>>
    /\ UNCHANGED <<config, boards, ifaces, ports, phase>>

\* xiaInitMemory.  xiaExit clears the boards as well, xiaInit leaves them.
Closed ==
    /\ phase = "closing" /\ pending = <<>>
    /\ modules' = <<>> /\ detChans' = <<>>
    /\ \/ boards' = <<>> /\ ifaces' = {}
       \/ UNCHANGED <<boards, ifaces>>
    /\ phase' = "down"
    /\ UNCHANGED <<orderly, wiring, ports, pending>>

Next ==
    \/ \E a \in Modules : AddModule(a) \/ RemoveModule(a) \/ OrphanDetChan(a)
    \/ Start \/ ShareSlot \/ OpenSlot \/ OpenFails \/ BuildStops
    \/ StartClosing \/ UnHookOne \/ UnHookStops \/ Closed

Spec == Init /\ [][Next]_vars

-----------------------------------------------------------------------------
(* Properties. *)

\* While the system is up or being built, each board's ioChan is the slot of
\* its device in the table of its module's interface, whatever is mixed; and
\* where nothing is mixed that table is the one the board is accessed through.
SlotsHoldTheirDevice ==
    phase \in {"building", "up"} =>
        \A k \in 1..Len(boards) :
            LET b == boards[k]
                i == wiring[b.mod] IN
            /\ handle[i][b.ioChan] = DeviceOf[b.mod] /\ ~PortClosed(i, b.ioChan)
            /\ OneInterface => b.iface = i

\* Each board talks to the device its module was configured with: its ioChan
\* "identifies this module's location in the array used by the machine
\* dependent functions".
BoardsReachTheirDevice ==
    phase \in {"building", "up"} =>
        \A k \in 1..Len(boards) :
            LET b == boards[k] IN
            /\ b.iface = wiring[b.mod]
            /\ handle[b.iface][b.ioChan] = DeviceOf[b.mod]
            /\ ~PortClosed(b.iface, b.ioChan)

\* So it is in a system of one interface, also after restarts, removals and
\* failures.
OneInterfaceReaches == OneInterface => BoardsReachTheirDevice

\* In an orderly use a handle the operating system holds is in exactly one
\* slot: none is lost, and none is kept that was closed.
HandlesAccounted ==
    orderly => \A i \in Ifaces : \A d \in Devices :
        driver[i][d] =
            Cardinality({s \in Slots : handle[i][s] = d /\ ~PortClosed(i, s)})

\* In an orderly use no device is left open after xiaExit or xiaInit.
ExitDisconnects ==
    orderly /\ phase = "down" => \A i \in Ifaces : \A d \in Devices : driver[i][d] = 0

\* The counter separates the slots in use from the free ones: the names the open
\* routine compares with are there, and in an orderly use the slot it is about
\* to fill is free (ASSERT(usb2Names[*camChan] == NULL), ASSERT(serialName..)).
CounterSeparates ==
    phase = "building" =>
    /\ \A i \in ifaces : \A s \in Slots : s < count[i] => name[i][s] # None
    /\ orderly /\ pending # <<>> =>
           LET i == wiring[Head(pending)]
               s == Initialized(i)[i] IN
           Matching(i, DeviceOf[Head(pending)]) = {} => Names(i)[i][s] = None
=============================================================================
