------------------------------ MODULE FdTable -------------------------------
(***************************************************************************)
(* Files, from a task's open to the file system: the descriptors of        *)
(* fs_devio.c, the table of fs_dev_fatfs.c below them, and the devices of  *)
(* fs_devman.c (src/ARM/src/simple-services/fs-dev).                       *)
(*                                                                         *)
(* Opens run under a mutex, down to the file system; closes take it for    *)
(* their last step only, reads and writes never.  A task uses the          *)
(* descriptors it opened and closes each once.                             *)
(***************************************************************************)
EXTENDS Naturals, FiniteSets

CONSTANTS
  Tasks,      \* the tasks that use files
  MaxFds,     \* FS_DEVIO_MAX_FDS
  MaxFatFs,   \* FS_DEVIO_MAX_FATFS_FD
  Devices,    \* the volumes' names
  Card,       \* the SD card's volume; the other is the flash
  Nothing     \* no task, no device, no file

Fds   == 0 .. MaxFds - 1
Slots == 0 .. MaxFatFs - 1
Entries == 1 .. Cardinality(Devices)

VARIABLES
  DEVIO_FD,     \* the descriptors: open, baseFd
  fatfsFd,      \* FatFs's: open, and whose file f is
  FD_LOCK,      \* the holder of the mutex
  place,        \* where each task is
  fd, base,     \* each task's descriptor, and FatFs's while one opens or closes
  deviceEntries, numDevices,  \* the device table
  dd,           \* the flash was the default when its format began
  wasDefault    \* history: the default device before the format

tables  == <<DEVIO_FD, fatfsFd, FD_LOCK, place, fd, base>>
devices == <<deviceEntries, numDevices, dd, wasDefault>>
vars    == <<tables, devices>>

Goto(t, p) == place' = [place EXCEPT ![t] = p]

\* The searches for a free entry take the first.
First(S) == {i \in S : \A j \in S : i <= j}

Registered == {e \in Entries : deviceEntries[e].name # Nothing}
Find(name) == {e \in Registered : deviceEntries[e].name = name}
Default    == {e \in Registered : deviceEntries[e].isDefault}

-----------------------------------------------------------------------------
(* _fs_devio_open                                                          *)

\* fs_devman_getInfo finds the card's volume, by its name or as the default.
StartOpen(t) ==
  /\ place[t] = "idle" /\ FD_LOCK = Nothing
  /\ Find(Card) # {}
  /\ FD_LOCK' = t
  /\ Goto(t, "search")
  /\ UNCHANGED <<DEVIO_FD, fatfsFd, fd, base, devices>>

SearchFd(t) ==
  /\ place[t] = "search"
  /\ LET free == First({i \in Fds : ~DEVIO_FD[i].open}) IN
       IF free = {}
       THEN fd' = [fd EXCEPT ![t] = MaxFds] /\ Goto(t, "unlock")
       ELSE \E i \in free : fd' = [fd EXCEPT ![t] = i] /\ Goto(t, "fsd_open")
  /\ UNCHANGED <<DEVIO_FD, fatfsFd, FD_LOCK, base, devices>>

\* dev_fatfs_open takes an entry before it has built the path.  With no
\* memory for the path the entry is never given back.
dev_fatfs_open(t) ==
  /\ place[t] = "fsd_open"
  /\ LET free == First({i \in Slots : ~fatfsFd[i].open}) IN
       \/ /\ free = {}
          /\ fd' = [fd EXCEPT ![t] = MaxFds]
          /\ Goto(t, "unlock")
          /\ UNCHANGED <<fatfsFd, base>>
       \/ \E i \in free :
            /\ fatfsFd' = [fatfsFd EXCEPT ![i].open = TRUE]
            /\ base' = [base EXCEPT ![t] = i]
            /\ \/ Goto(t, "f_open") /\ UNCHANGED fd
               \/ fd' = [fd EXCEPT ![t] = MaxFds] /\ Goto(t, "unlock")
  /\ UNCHANGED <<DEVIO_FD, FD_LOCK, devices>>

f_open(t) ==
  /\ place[t] = "f_open"
  /\ \/ /\ fatfsFd' = [fatfsFd EXCEPT ![base[t]].f = t]
        /\ Goto(t, "mark") /\ UNCHANGED fd
     \/ /\ fatfsFd' = [fatfsFd EXCEPT ![base[t]].open = FALSE]
        /\ fd' = [fd EXCEPT ![t] = MaxFds]
        /\ Goto(t, "unlock")
  /\ UNCHANGED <<DEVIO_FD, FD_LOCK, base, devices>>

Mark(t) ==
  /\ place[t] = "mark"
  /\ DEVIO_FD' = [DEVIO_FD EXCEPT ![fd[t]] = [open |-> TRUE, baseFd |-> base[t]]]
  /\ Goto(t, "unlock")
  /\ UNCHANGED <<fatfsFd, FD_LOCK, fd, base, devices>>

EndOpen(t) ==
  /\ place[t] = "unlock"
  /\ FD_LOCK' = Nothing
  /\ Goto(t, IF fd[t] \in Fds THEN "using" ELSE "idle")
  /\ UNCHANGED <<DEVIO_FD, fatfsFd, fd, base, devices>>

-----------------------------------------------------------------------------
(* _fs_devio_close                                                         *)

\* Mutant of Then: the descriptor is free before the file is closed.
ThenFreed == [using |-> "free", closed |-> "idle", free |-> "fsd_close"]

\* A close begins with the file, and frees the descriptor last.
Then == [using |-> "fsd_close", closed |-> "free", free |-> "idle"]

StartClose(t) ==
  /\ place[t] = "using"
  /\ Goto(t, Then.using)
  /\ UNCHANGED <<DEVIO_FD, fatfsFd, FD_LOCK, fd, base, devices>>

\* dev_fatfs_close: f_close, unless the entry is not open.
f_close(t) ==
  /\ place[t] = "fsd_close"
  /\ LET b == DEVIO_FD[fd[t]].baseFd IN
       /\ base' = [base EXCEPT ![t] = b]
       /\ IF fatfsFd[b].open
          THEN fatfsFd' = [fatfsFd EXCEPT ![b].f = Nothing] /\ Goto(t, "f_free")
          ELSE UNCHANGED fatfsFd /\ Goto(t, Then.closed)
  /\ UNCHANGED <<DEVIO_FD, FD_LOCK, fd, devices>>

FreeFatFs(t) ==
  /\ place[t] = "f_free"
  /\ fatfsFd' = [fatfsFd EXCEPT ![base[t]].open = FALSE]
  /\ Goto(t, Then.closed)
  /\ UNCHANGED <<DEVIO_FD, FD_LOCK, fd, base, devices>>

\* The mutex is held for one store only.
FreeFd(t) ==
  /\ place[t] = "free" /\ FD_LOCK = Nothing
  /\ DEVIO_FD' = [DEVIO_FD EXCEPT ![fd[t]].open = FALSE]
  /\ Goto(t, Then.free)
  /\ UNCHANGED <<fatfsFd, FD_LOCK, fd, base, devices>>

-----------------------------------------------------------------------------
(* fs_devman.c, and the shell's commands format and device                 *)

Flash == CHOOSE d \in Devices : d # Card

Erased == [name |-> Nothing, isDefault |-> FALSE]

Unregister(e) == deviceEntries' = [deviceEntries EXCEPT ![e] = Erased]

\* No file of the flash is in the model: the format of one in use leaves its
\* descriptors without a device.
StartFormat ==
  /\ numDevices = Cardinality(Registered) /\ place["shell"] = "idle"
  /\ dd' = \E e \in Find(Flash) : deviceEntries[e].isDefault
  /\ wasDefault' = {deviceEntries[e].name : e \in Default}
  /\ IF Find(Flash) = {}
     THEN UNCHANGED <<deviceEntries, numDevices>>
     ELSE /\ \E e \in Find(Flash) : Unregister(e)
          /\ numDevices' = numDevices - 1
  /\ Goto("shell", "register")
  /\ UNCHANGED <<DEVIO_FD, fatfsFd, FD_LOCK, fd, base>>

\* fs_devman_register: the first device is the default.
Register ==
  /\ place["shell"] = "register"
  /\ \E e \in First(Entries \ Registered) :
       deviceEntries' = [deviceEntries EXCEPT ![e].name = Flash,
                                              ![e].isDefault = (@ \/ numDevices = 0)]
  /\ numDevices' = numDevices + 1
  /\ Goto("shell", IF dd THEN "default" ELSE "idle")
  /\ UNCHANGED <<DEVIO_FD, fatfsFd, FD_LOCK, fd, base, dd, wasDefault>>

set_default(name) ==
  deviceEntries' = [e \in Entries |->
                      [deviceEntries[e] EXCEPT !.isDefault = (e \in Find(name))]]

EndFormat ==
  /\ place["shell"] = "default"
  /\ set_default(Flash)
  /\ Goto("shell", "idle")
  /\ UNCHANGED <<DEVIO_FD, fatfsFd, FD_LOCK, fd, base, numDevices, dd, wasDefault>>

SetDefault(name) ==
  /\ place["shell"] = "idle" /\ Find(name) # {}
  /\ set_default(name)
  /\ wasDefault' = {name}
  /\ UNCHANGED <<tables, numDevices, dd>>

-----------------------------------------------------------------------------
\* main registers the flash, if it can be mounted, then the card.
Init ==
  /\ DEVIO_FD = [i \in Fds |-> [open |-> FALSE, baseFd |-> 0]]
  /\ fatfsFd = [i \in Slots |-> [open |-> FALSE, f |-> Nothing]]
  /\ FD_LOCK = Nothing
  /\ place = [t \in Tasks \cup {"shell"} |-> "idle"]
  /\ fd = [t \in Tasks |-> MaxFds]
  /\ base = [t \in Tasks |-> 0]
  /\ \E mounted \in BOOLEAN :
       deviceEntries = [e \in Entries |->
         IF mounted /\ e = 1 THEN [name |-> Flash, isDefault |-> FALSE]
         ELSE IF e = (IF mounted THEN 2 ELSE 1) THEN [name |-> Card, isDefault |-> TRUE]
         ELSE Erased]
  /\ numDevices = Cardinality(Registered)
  /\ dd = FALSE /\ wasDefault = {Card}

TaskStep(t) ==
  \/ StartOpen(t) \/ SearchFd(t) \/ dev_fatfs_open(t) \/ f_open(t) \/ Mark(t) \/ EndOpen(t)
  \/ StartClose(t) \/ f_close(t) \/ FreeFatFs(t) \/ FreeFd(t)

Format == StartFormat \/ Register \/ EndFormat

Next ==
  \/ \E t \in Tasks : TaskStep(t)
  \/ Format
  \/ \E name \in Devices : SetDefault(name)

Spec == Init /\ [][Next]_vars

-----------------------------------------------------------------------------
TypeOK ==
  /\ DEVIO_FD \in [Fds -> [open : BOOLEAN, baseFd : Slots]]
  /\ fatfsFd \in [Slots -> [open : BOOLEAN, f : Tasks \cup {Nothing}]]
  /\ FD_LOCK \in Tasks \cup {Nothing}
  /\ DOMAIN place = Tasks \cup {"shell"}
  /\ fd \in [Tasks -> 0 .. MaxFds] /\ base \in [Tasks -> Slots]
  /\ deviceEntries \in [Entries -> [name : Devices \cup {Nothing}, isDefault : BOOLEAN]]
  /\ numDevices = Cardinality(Registered)

\* A read, write or close reaches the file its descriptor was opened for,
\* though other tasks open and close at any time and closes are not locked.
ReachesOwnFile ==
  \A t \in Tasks : place[t] \in {"using", "fsd_close"} =>
    /\ DEVIO_FD[fd[t]].open
    /\ fatfsFd[DEVIO_FD[fd[t]].baseFd] = [open |-> TRUE, f |-> t]

\* A format leaves the default device what it was: relative names go on
\* meaning the same files.
DefaultKept ==
  place["shell"] = "idle" => {deviceEntries[e].name : e \in Default} = wasDefault

FilesReached == ReachesOwnFile /\ DefaultKept

=============================================================================
