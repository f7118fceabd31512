------------------------------- MODULE MCGuest -------------------------------
(***************************************************************************)
(* The guest of every path, for TLC: its memory, registers and TLB, and    *)
(* its devices and disk.  Each is a specification of its own; part says    *)
(* which takes the steps.  Both have more than one set of bounds.          *)
(***************************************************************************)
EXTENDS Integers

VARIABLES
    part,
    env, st, heap, current, nextId, failed,
    node, dev, active, nextDev, devices, file, aborted

\* Two states, two pages that compete for two slots of the TLB, one of them written.
TlbBounds ==
    [states |-> 2, ram |-> {"page1", "page2"}, written |-> {"page1"}, slots |-> {1, 2}]

\* Three states and what is saved and restored at a switch.
SwitchBounds ==
    [states |-> 3, ram |-> {"page"}, written |-> {"machine", "dirtyMask"}, slots |-> {}]

\* The same with two states and the registers, whose place depends on the mode.
RegistersBounds ==
    [states |-> 2, ram |-> {"page"}, written |-> {"regs", "machine", "dirtyMask"}, slots |-> {}]

\* Three states that write to a disk of two sectors.
DiskBounds ==
    [states |-> 3, sectors |-> 2, sectorValues |-> {1}, size |-> 1, values |-> {0}]

\* Two states whose devices save three bytes through a buffer of two.
SnapshotBounds ==
    [states |-> 2, sectors |-> 0, sectorValues |-> {}, size |-> 3, values |-> {0, 1}]

GuestBounds == {TlbBounds, SwitchBounds, RegistersBounds}
DeviceBounds == {DiskBounds, SnapshotBounds}

Guest(b) == INSTANCE GuestMemory WITH
    MaxStateId <- b.states, Ram <- b.ram, Shared <- {"dirtyMask"}, Mapped <- b.ram,
    Written <- b.written, LoadWrites <- {}, Slot <- b.slots

Devices(b) == INSTANCE DeviceState WITH
    MaxStateId <- b.states, Sectors <- b.sectors, SectorValue <- b.sectorValues,
    SnapshotSize <- b.size, DeviceValue <- b.values, BufSize <- 2,
    current <- active, nextId <- nextDev, failed <- aborted

ASSUME GuestsAssumption ==
    /\ \A b \in GuestBounds : Guest(b)!GuestAssumption
    /\ \A b \in DeviceBounds : Devices(b)!DeviceAssumption

guestVars == <<env, st, heap, current, nextId, failed>>
deviceVars == <<node, dev, active, nextDev, devices, file, aborted>>
allVars == <<part, guestVars, deviceVars>>

GuestMoves(b) == part = b /\ Guest(b)!Next /\ UNCHANGED <<part, deviceVars>>
DevicesMove(b) == part = b /\ Devices(b)!Next /\ UNCHANGED <<part, guestVars>>

MCInit ==
    /\ part \in GuestBounds \cup DeviceBounds
    /\ \E b \in GuestBounds :
        b = (IF part \in GuestBounds THEN part ELSE TlbBounds) /\ Guest(b)!Init
    /\ \E b \in DeviceBounds :
        b = (IF part \in DeviceBounds THEN part ELSE DiskBounds) /\ Devices(b)!Init

MCNext ==
    \/ \E b \in GuestBounds : GuestMoves(b)
    \/ \E b \in DeviceBounds : DevicesMove(b)

MCSpec == MCInit /\ [][MCNext]_allVars

-----------------------------------------------------------------------------
\* Every way to the memory of the running state leads to its own objects: a TLB
\* entry, which says that the page may be written only if the state owns the
\* object; m_tlbMap, which "tracks the location of every ObjectState in the
\* TLB"; m_memcache; and the pointer a state keeps to its dirty mask.  A read of
\* several sectors, from the sector maps and the image in turn, gives each the
\* contents it has for the state.  What the code asserts about modes, activity,
\* the TLB map and the snapshots of states that do not run holds.
GuestCoherent ==
    /\ failed = {} /\ aborted = {}
    /\ part = DiskBounds => Devices(DiskBounds)!RangeReads
    /\ part = TlbBounds =>
        /\ Guest(TlbBounds)!TlbCoherent
        /\ Guest(TlbBounds)!TlbMapExact
        /\ Guest(TlbBounds)!CacheCoherent
    /\ part = SwitchBounds => Guest(SwitchBounds)!PinnedHeld

\* A fork gives the new state the memory, registers and shared objects that
\* the old one sees; otherwise only the running state changes what it sees, and
\* neither a change of mode nor a switch does.
GuestPrivate ==
    [][\A b \in GuestBounds :
           part = b => Guest(b)!CopiesGuest /\ Guest(b)!Untouched]_guestVars

\* A step changes the disk of the running state only, and a new state starts
\* with the disk of the state it is forked from; what is saved for a state that
\* is left or made is what the devices had, whatever the buffer of the file
\* holds from earlier saves and restores; and a restore through a file whose
\* buffer was never read into gives it back, also when it is longer than the
\* buffer.
DevicesPrivate ==
    [][/\ part = DiskBounds => Devices(DiskBounds)!WritesOwnDisk
       /\ part = SnapshotBounds =>
           /\ Devices(SnapshotBounds)!SavesWhatDevicesHad
           /\ Devices(SnapshotBounds)!RestoresUnread]_deviceVars
=============================================================================
