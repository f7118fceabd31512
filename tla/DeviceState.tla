---------------------------- MODULE DeviceState -----------------------------
(***************************************************************************)
(* S2EDeviceState: the disk and the devices of an execution state.  Disk   *)
(* writes go to the state's own sector map; a read looks along the chain   *)
(* of parents that forks leave behind, and in the image last.  The devices *)
(* are QEMU's only ones, and are saved to and restored from a snapshot of  *)
(* the state through one QEMUFile that all states use.                     *)
(***************************************************************************)
EXTENDS Naturals, Sequences, SequencesExt, FiniteSetsExt, TLC

CONSTANTS MaxStateId,     \* bound: the last state that may be made
          Sectors,        \* the disk has sectors 1 .. Sectors
          SectorValue,    \* contents the guest writes to a sector
          SnapshotSize,   \* bytes that the devices save
          DeviceValue,    \* values of such a byte
          BufSize         \* IO_BUF_SIZE

DeviceAssumption ==
    /\ MaxStateId \in Nat \ {0} /\ Sectors \in Nat /\ SnapshotSize \in Nat \ {0}
    /\ BufSize \in Nat \ {0} /\ 0 \in DeviceValue

VARIABLES node,      \* the S2EDeviceState objects, never freed; node 0 is NULL
          dev,       \* m_deviceState of the states that exist
          current,   \* g_s2e_state
          nextId,    \* ID of the next state
          devices,   \* the state of QEMU's devices, as the bytes they save
          file,      \* m_memFile
          failed     \* assertions of the code that failed

vars == <<node, dev, current, nextId, devices, file, failed>>

live == DOMAIN dev
Sector == 1 .. Sectors
image == [i \in Sector |-> 0]
NewNode(parent) == [parent |-> parent, sectors |-> <<>>, state |-> <<>>]

-----------------------------------------------------------------------------
(* The disk.                                                               *)

\* The nearest node of the chain from n that has sector i, or 0.
writer(n, i) ==
    LET find[m \in 0 .. Len(node)] ==
            IF m = 0 \/ i \in DOMAIN node[m].sectors THEN m ELSE find[node[m].parent]
    IN find[n]

\* The contents of the sectors up to the first one that was never written.
readSector(n, first, last) ==
    LET missing == {i \in first .. last : writer(n, i) = 0}
        end == IF missing = {} THEN last ELSE Min(missing) - 1
    IN [i \in 1 .. end + 1 - first |-> node[writer(n, first + i - 1)].sectors[first + i - 1]]

\* raw_read: what the hook has, then one sector from the image, and again.
raw_read(n, first, last) ==
    LET loop[i \in first .. last + 1] ==
            IF i > last THEN <<>> ELSE
            LET hooked == readSector(n, i, last)
                j == i + Len(hooked)
            IN IF j > last THEN hooked ELSE Append(hooked, image[j]) \o loop[j + 1]
    IN loop[first]

-----------------------------------------------------------------------------
(* The snapshots.                                                          *)

EmptyFile == [buf |-> [i \in 1 .. BufSize |-> 0], index |-> 0, size |-> 0, offset |-> 0, write |-> FALSE]

qemu_make_readable(f) == [f EXCEPT !.index = 0, !.offset = 0, !.write = FALSE]

\* putBuffer: the snapshot grows when it must and never shrinks.
putBuffer(state, pos, buf) ==
    [i \in 1 .. Max({Len(state), pos + Len(buf)}) |->
        IF i \in pos + 1 .. pos + Len(buf) THEN buf[i - pos] ELSE state[i]]

\* A file being written to, with the snapshot behind it.
fflush(w) ==
    IF ~ w.file.write \/ w.file.index = 0 THEN w
    ELSE [file |-> [w.file EXCEPT !.offset = @ + w.file.index, !.index = 0],
          state |-> putBuffer(w.state, w.file.offset, SubSeq(w.file.buf, 1, w.file.index))]

\* Mutant of put_byte: a full buffer is not flushed before it is used again.
put_byte_NoFlush(w, v) ==
    [w EXCEPT !.file.buf[(w.file.index % BufSize) + 1] = v,
              !.file.index = (w.file.index % BufSize) + 1, !.file.write = TRUE]

put_byte(w, v) ==
    LET f == [w.file EXCEPT !.buf[w.file.index + 1] = v, !.index = @ + 1, !.write = TRUE]
        put == [w EXCEPT !.file = f]
    IN IF f.index >= BufSize THEN fflush(put) ELSE put

saveDeviceState(f, state) ==
    fflush(FoldLeft(put_byte, [file |-> qemu_make_readable(f), state |-> state], devices))

getBuffer(state, pos, size) == SubSeq(state, pos + 1, Min({pos + size, Len(state)}))

\* qemu_fill_buffer, which a byte-wise read calls with an empty buffer.
fill_buffer(f, state) ==
    LET got == getBuffer(state, f.offset, BufSize) IN
    [f EXCEPT !.buf = [i \in 1 .. BufSize |-> IF i \in DOMAIN got THEN got[i] ELSE @[i]],
              !.index = 0, !.size = Len(got), !.offset = @ + Len(got)]

\* A file being read from; at the end of the snapshot a read gives 0.
get_byte(r, state) ==
    LET f == IF r.file.index >= r.file.size THEN fill_buffer(r.file, state) ELSE r.file IN
    IF f.index >= f.size THEN [file |-> f, out |-> Append(r.out, 0)]
    ELSE [file |-> [f EXCEPT !.index = @ + 1], out |-> Append(r.out, f.buf[f.index + 1])]

restoreDeviceState(f, state) ==
    LET read(r, i) == get_byte(r, state)
    IN FoldLeft(read, [file |-> qemu_make_readable(f), out |-> <<>>], [i \in 1 .. SnapshotSize |-> i])

-----------------------------------------------------------------------------
Init ==
    /\ node = <<NewNode(0)>>
    /\ dev = [s \in {1} |-> 1] /\ current = 1 /\ nextId = 2
    /\ devices = [i \in 1 .. SnapshotSize |-> 0]
    /\ file = EmptyFile /\ failed = {}

\* writeSector on the device state of g_s2e_state.
DiskWrite ==
    \E first \in Sector : \E last \in first .. Sectors : \E buf \in [first .. last -> SectorValue] :
        /\ node' = [node EXCEPT ![dev[current]].sectors = buf @@ @]
        /\ UNCHANGED <<dev, current, nextId, devices, file, failed>>

DeviceStep ==
    \E i \in 1 .. SnapshotSize, v \in DeviceValue :
        /\ devices' = [devices EXCEPT ![i] = v]
        /\ UNCHANGED <<node, dev, current, nextId, file, failed>>

\* S2EDeviceState::clone: both states get a new node under the old one.  The
\* nodes, and the one of the old state; the new state has the last.
cloned == <<node \o <<NewNode(dev[current]), NewNode(dev[current])>>, Len(node) + 1>>

\* S2EExecutionState::clone, and doStateFork, which saves the devices for the
\* new state only.
Fork ==
    LET t == Len(node) + 2
        saved == saveDeviceState(file, <<>>)
    IN /\ nextId <= MaxStateId
       /\ node' = [cloned[1] EXCEPT ![t].state = saved.state]
       /\ dev' = (nextId :> t) @@ [dev EXCEPT ![current] = cloned[2]]
       /\ file' = saved.file /\ nextId' = nextId + 1
       /\ UNCHANGED <<current, devices, failed>>

\* selectNextState: the devices are saved for the old state and restored for
\* the new one, which after a merge that was tried may be the same; the states
\* that ended are deleted.
SelectNextState ==
    \E new \in live, ended \in SUBSET live :
        LET old == dev[current]
            saved == saveDeviceState(file, node[old].state)
            nodes == [node EXCEPT ![old].state = saved.state]
            restored == restoreDeviceState(saved.file, nodes[dev[new]].state)
        IN /\ new \notin ended
           /\ node' = nodes /\ current' = new
           /\ dev' = [s \in live \ ended |-> dev[s]]
           /\ devices' = restored.out /\ file' = restored.file
           /\ failed' = IF nodes[dev[new]].state = <<>> THEN {"m_stateSize"} ELSE {}
           /\ UNCHANGED nextId

Next == failed = {} /\ (DiskWrite \/ DeviceStep \/ Fork \/ SelectNextState)

Spec == Init /\ [][Next]_vars

-----------------------------------------------------------------------------
\* The contents of a sector for state s.
Contents(s, i) == LET n == writer(dev[s], i) IN IF n = 0 THEN image[i] ELSE node[n].sectors[i]

\* A read of several sectors, which alternates between the sector maps and the
\* image, gives every sector the contents that it has.
RangeReads ==
    \A s \in live, first \in Sector : \A last \in first .. Sectors :
        raw_read(dev[s], first, last) = [k \in 1 .. last + 1 - first |-> Contents(s, first + k - 1)]

\* "WARNING!!! All writes to disk will be lost after shutdown", and until then
\* they are the state's own: a step changes the disk of the running state only,
\* and a new state starts with the disk of the state it is forked from.
WritesOwnDisk ==
    \A s \in live', i \in Sector :
        Contents(s, i)' # Contents(IF s \in live THEN s ELSE current, i) => s = current /\ s \in live

DiskPrivate == [][WritesOwnDisk]_vars

\* restoreDeviceState asserts m_state and m_stateSize: a state that does not
\* run has a snapshot, although clone leaves both nodes without one.
HasSnapshot == failed = {}

\* What is saved for a state that is left or made is what the devices had,
\* whatever the buffer of the file still holds from the saves and restores
\* before.
SavesWhatDevicesHad ==
    \A s \in live' :
        s \notin live \/ (s = current /\ current' # current) => node'[dev'[s]].state = devices

SavesDevices == [][SavesWhatDevicesHad]_vars

\* A restore through a file whose buffer was never read into gives the devices
\* what was saved, also when that is longer than the buffer.
RestoresUnread ==
    current' # current /\ file.size = 0 => devices' = node'[dev'[current']].state

FirstRestore == [][RestoresUnread]_vars

\* "At that time, we need to save the state of the VM to be later restored":
\* the state that is entered gets the devices that were saved for it.
RestoresOwnDevices ==
    [][current' # current => devices' = node'[dev'[current']].state]_vars
=============================================================================
