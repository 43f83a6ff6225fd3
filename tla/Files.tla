-------------------------------- MODULE Files --------------------------------
(***************************************************************************)
(* The descriptors of the HAL: the pool behind open, close, ioctl and the  *)
(* other system calls, the devices and file systems drivers register, and  *)
(* what alt_main does to them before and after the program.                *)
(*                                                                         *)
(* One thread calls, so a call is a step.  Drivers are external: an open,  *)
(* close or other callback succeeds or fails as it likes, and open leaves  *)
(* the driver's own pointer in priv; one that refuses may have done so too. *)
(* The program uses a descriptor from the time it has it until it closes it. *)
(***************************************************************************)
EXTENDS Integers

CONSTANTS
    Device,        \* the character devices, alt_dev_null among them
    FileSystem,
    alt_dev_null,
    Name,          \* what open is called with
    Named,         \* per device its name, per file system the names under it
    Provides,      \* the callbacks of each
    StdioName,     \* the devices chosen for the descriptors 0, 1 and 2
    Access,        \* the values of O_ACCMODE in use; O_RDONLY is "r", O_WRONLY "w"
    Used,          \* the descriptors the program calls on if it has them
    ALT_MAX_FD,
    None

Driver == Device \cup FileSystem
Callbacks == {"open", "close", "read", "write", "lseek", "ioctl"}

ASSUME DriverAssumption ==
    /\ Device \cap FileSystem = {} /\ None \notin Driver
    /\ alt_dev_null \in Device
    /\ Provides \in [Driver -> SUBSET Callbacks]
    /\ Provides[alt_dev_null] = {"write"}
ASSUME NameAssumption ==
    /\ Named \in [Driver -> SUBSET Name]
    /\ \A d, e \in Driver : d # e => Named[d] \cap Named[e] = {}
    /\ StdioName \in [0 .. 2 -> Name]
ASSUME PoolAssumption == {"r", "w"} \subseteq Access /\ ALT_MAX_FD \in Nat /\ ALT_MAX_FD > 2

VARIABLES
    alt_dev_list, alt_fs_list,    \* what is registered; the order is not used
    alt_fd_list, alt_max_fd,
    ALT_ERRNO,     \* "other" stands for what one driver or call alone returns
    boot,      \* where alt_main is
    held,      \* history: the descriptors the program has
    opened,    \* history: what it opened each of them as
    users      \* history: opens less closes of the drivers that have both

pool == <<alt_fd_list, alt_max_fd>>
registered == <<alt_dev_list, alt_fs_list>>
history == <<held, opened, users>>
vars == <<registered, pool, ALT_ERRNO, boot, history>>

Fd == 0 .. ALT_MAX_FD - 1
Stdio == 0 .. 2

\* A descriptor: priv and the parts of fd_flags, O_ACCMODE, O_NONBLOCK,
\* ALT_FD_EXCL and ALT_FD_DEV.
NotOpened == [dev |-> None, acc |-> "r"]
Unused(priv) == [dev |-> None, priv |-> priv, acc |-> "r", nonblock |-> FALSE,
                 excl |-> FALSE, device |-> FALSE]

-----------------------------------------------------------------------------
(* Opening.                                                                 *)

Found(name, drivers) ==
    IF \E d \in drivers : name \in Named[d]
    THEN CHOOSE d \in drivers : name \in Named[d]
    ELSE None

alt_find_dev(name) == Found(name, alt_dev_list)

alt_find_file(name) == Found(name, alt_fs_list)

FreeFds == {fd \in Fd : alt_fd_list[fd].dev = None}

\* alt_get_fd takes the lowest free descriptor ...
alt_get_fd(fd) == fd \in FreeFds /\ \A other \in FreeFds : fd =< other

\* Mutant of HighWater: the mark follows the last allocation.
WaterOfLast(fd) == fd

\* ... and keeps alt_max_fd at the highest ever taken.
HighWater(fd) == IF fd > alt_max_fd THEN fd ELSE alt_max_fd

\* alt_file_locked, for a descriptor that has just been allocated.
alt_file_locked(fd, d) ==
    \E other \in 0 .. HighWater(fd) :
        /\ other # fd
        /\ alt_fd_list[other].dev = d /\ alt_fd_list[other].excl

\* alt_release_fd: what it makes of descriptor fd, which is d.
alt_release_fd(fd, d) == IF fd > 2 THEN Unused(d.priv) ELSE d

\* What open makes of a free descriptor for driver d before it asks anybody:
\* priv is the one of its last user.
Taken(d, fd, acc) ==
    [dev |-> d, priv |-> alt_fd_list[fd].priv, acc |-> acc,
     nonblock |-> FALSE, excl |-> FALSE, device |-> d \in Device]

\* The driver's open, if there is one, has left its pointer in t.
Pointed(t) == IF "open" \in Provides[t.dev] THEN [t EXCEPT !.priv = t.dev] ELSE t

\* The outcomes of open: what it returns, the error, and the pool it leaves.
NotTaken(error) == [fd |-> -1, error |-> error, list |-> alt_fd_list, max |-> alt_max_fd]

\* Mutant of Refused: a refused open keeps the descriptor it has taken.
RefusedUnreleased(fd, t, error) ==
    [fd |-> -1, error |-> error, list |-> [alt_fd_list EXCEPT ![fd] = t],
     max |-> HighWater(fd)]

\* Descriptor fd was taken, is t by now, and is released.
Refused(fd, t, error) ==
    [fd |-> -1, error |-> error,
     list |-> [alt_fd_list EXCEPT ![fd] = alt_release_fd(fd, t)], max |-> HighWater(fd)]

Agreed(fd, t) ==
    [fd |-> fd, error |-> ALT_ERRNO,
     list |-> [alt_fd_list EXCEPT ![fd] = t], max |-> HighWater(fd)]

\* A driver refuses before or after it has set priv.
Tried(fd, t) ==
    IF t.device /\ alt_file_locked(fd, t.dev)
    THEN {Refused(fd, t, "EACCES")}
    ELSE {Agreed(fd, Pointed(t))}
         \cup IF "open" \in Provides[t.dev]
              THEN {Refused(fd, u, "other") : u \in {t, Pointed(t)}} ELSE {}

\* Devices come before file systems.
Resolved(name) ==
    IF alt_find_dev(name) # None THEN alt_find_dev(name) ELSE alt_find_file(name)

Opens(name, acc) ==
    IF Resolved(name) = None THEN {NotTaken("other")}
    ELSE IF FreeFds = {} THEN {NotTaken("EMFILE")}
    ELSE UNION {Tried(fd, Taken(Resolved(name), fd, acc)) : fd \in {i \in Fd : alt_get_fd(i)}}

Counted(d, n) ==
    IF {"open", "close"} \subseteq Provides[d] THEN [users EXCEPT ![d] = @ + n] ELSE users

Open(name, acc) ==
    /\ boot = "main"
    /\ \E r \in Opens(name, acc) :
           /\ alt_fd_list' = r.list /\ alt_max_fd' = r.max /\ ALT_ERRNO' = r.error
           /\ IF r.fd = -1
              THEN UNCHANGED history
              ELSE /\ users' = Counted(Resolved(name), 1)
                   /\ held' = held \cup {r.fd}
                   /\ opened' = [opened EXCEPT ![r.fd] = [dev |-> Resolved(name), acc |-> acc]]
    /\ UNCHANGED <<registered, boot>>

-----------------------------------------------------------------------------
(* Closing.                                                                 *)

\* The errors a close of driver d can leave.
Closes(d) == {ALT_ERRNO} \cup IF "close" \in Provides[d] THEN {"other"} ELSE {}

Close(fd) ==
    /\ alt_fd_list' = [alt_fd_list EXCEPT ![fd] = alt_release_fd(fd, @)]
    /\ users' = Counted(alt_fd_list[fd].dev, -1)
    /\ ALT_ERRNO' \in Closes(alt_fd_list[fd].dev)
    /\ held' = held \ {fd} /\ opened' = [opened EXCEPT ![fd] = NotOpened]
    /\ UNCHANGED <<registered, alt_max_fd>>

\* stat opens, asks fstat and closes; a failed open makes both fail.  The
\* driver is left as often as it was entered.
Stat(name) ==
    /\ boot = "main"
    /\ \E r \in Opens(name, "r") :
           /\ alt_max_fd' = r.max
           /\ IF r.fd = -1
              THEN ALT_ERRNO' = "other" /\ alt_fd_list' = r.list
              ELSE /\ ALT_ERRNO' \in Closes(Resolved(name))
                   /\ alt_fd_list' = [r.list EXCEPT ![r.fd] = alt_release_fd(r.fd, @)]
    /\ UNCHANGED <<registered, boot, history>>

-----------------------------------------------------------------------------
(* Calls on a descriptor.                                                   *)

\* alt_fd_lock: it looks below alt_max_fd, not at it.
alt_fd_lock(fd) ==
    \A other \in 0 .. alt_max_fd - 1 :
        other # fd => alt_fd_list[other].dev # alt_fd_list[fd].dev

Lock(fd) ==
    IF alt_fd_lock(fd)
    THEN alt_fd_list' = [alt_fd_list EXCEPT ![fd].excl = TRUE] /\ UNCHANGED ALT_ERRNO
    ELSE ALT_ERRNO' = "EACCES" /\ UNCHANGED alt_fd_list

\* alt_fd_unlock.
Unlock(fd) ==
    alt_fd_list' = [alt_fd_list EXCEPT ![fd].excl = FALSE] /\ UNCHANGED ALT_ERRNO

\* The driver is called if it has the callback, else the call fails.
Passed(fd, callback, error) ==
    /\ ALT_ERRNO' \in IF callback \in Provides[alt_fd_list[fd].dev]
                      THEN {ALT_ERRNO, "other"} ELSE {error}
    /\ UNCHANGED alt_fd_list

Ioctl(fd, req) ==
    \/ alt_fd_list[fd].device /\ req = "TIOCEXCL" /\ Lock(fd)
    \/ alt_fd_list[fd].device /\ req = "TIOCNXCL" /\ Unlock(fd)
    \/ /\ ~alt_fd_list[fd].device \/ req \notin {"TIOCEXCL", "TIOCNXCL"}
       /\ Passed(fd, "ioctl", "other")

Read(fd) ==
    IF alt_fd_list[fd].acc # "w" THEN Passed(fd, "read", "EACCES")
    ELSE ALT_ERRNO' = "EACCES" /\ UNCHANGED alt_fd_list

Write(fd) ==
    IF alt_fd_list[fd].acc # "r" THEN Passed(fd, "write", "EACCES")
    ELSE ALT_ERRNO' = "EACCES" /\ UNCHANGED alt_fd_list

Lseek(fd) == Passed(fd, "lseek", "other")

\* F_SETFL; O_APPEND is like O_NONBLOCK.
Fcntl(fd, nonblock) ==
    alt_fd_list' = [alt_fd_list EXCEPT ![fd].nonblock = nonblock] /\ UNCHANGED ALT_ERRNO

Call(fd) ==
    /\ boot = "main" /\ fd \in held \cap Used
    /\ \/ \E req \in {"TIOCEXCL", "TIOCNXCL", "other"} : Ioctl(fd, req)
       \/ Read(fd) \/ Write(fd) \/ Lseek(fd)
       \/ \E nonblock \in BOOLEAN : Fcntl(fd, nonblock)
    /\ UNCHANGED <<registered, alt_max_fd, boot, history>>

\* Any of the calls with a negative descriptor.
BadCall ==
    /\ boot = "main"
    /\ ALT_ERRNO' = "other"
    /\ UNCHANGED <<registered, pool, boot, history>>

-----------------------------------------------------------------------------
(* alt_main.                                                                *)

\* alt_dev_reg, from alt_sys_init: a device that exists and has a name.
RegisterDevice(d) ==
    /\ boot = "alt_sys_init"
    /\ d \in Device \ alt_dev_list
    /\ alt_dev_list' = alt_dev_list \cup {d}
    /\ UNCHANGED <<alt_fs_list, pool, ALT_ERRNO, boot, history>>

\* alt_fs_reg.
RegisterFileSystem(f) ==
    /\ boot = "alt_sys_init"
    /\ f \in FileSystem \ alt_fs_list
    /\ alt_fs_list' = alt_fs_list \cup {f}
    /\ UNCHANGED <<alt_dev_list, pool, ALT_ERRNO, boot, history>>

\* Only a BSP with stdio devices redirects.
SysInitDone ==
    /\ boot = "alt_sys_init"
    /\ boot' \in {"stdout", "main"}
    /\ UNCHANGED <<registered, pool, ALT_ERRNO, history>>

\* Mutant of OpenedAs: the flags stay those of the descriptor before.
RenamedOnly(fd, d) == [alt_fd_list[fd] EXCEPT !.dev = d.dev, !.priv = d.priv]

\* Mutant of OpenedAs: the descriptor is not copied.
NotCopied(fd, d) == alt_fd_list[fd]

\* What alt_open_fd makes of fd, having opened d.
OpenedAs(fd, d) == d

\* alt_open_fd: opens another descriptor, copies it to fd and releases it.
alt_open_fd(fd, acc) ==
    \E r \in Opens(StdioName[fd], acc) :
        /\ alt_max_fd' = r.max /\ ALT_ERRNO' = r.error
        /\ IF r.fd = -1
           THEN alt_fd_list' = r.list /\ UNCHANGED <<users, opened>>
           ELSE LET d == r.list[r.fd]
                IN  /\ alt_fd_list' = [r.list EXCEPT
                           ![fd] = OpenedAs(fd, d), ![r.fd] = alt_release_fd(r.fd, d)]
                    /\ users' = Counted(Resolved(StdioName[fd]), 1)
                    /\ opened' = [opened EXCEPT ![fd] = [dev |-> Resolved(StdioName[fd]), acc |-> acc]]

alt_io_redirect ==
    /\ \/ boot = "stdout" /\ alt_open_fd(1, "w") /\ boot' = "stdin"
       \/ boot = "stdin"  /\ alt_open_fd(0, "r") /\ boot' = "stderr"
       \/ boot = "stderr" /\ alt_open_fd(2, "w") /\ boot' = "main"
    /\ UNCHANGED <<registered, held>>

\* main() returns: alt_main closes STDOUT_FILENO, whether the program has
\* done so or not, and calls exit.
Return ==
    /\ boot = "main" /\ boot' = "exit"
    /\ Close(1)

Init ==
    /\ alt_dev_list = {alt_dev_null} /\ alt_fs_list = {}
    /\ alt_fd_list = [fd \in Fd |->
           IF fd \in Stdio
           THEN [dev |-> alt_dev_null, priv |-> None, acc |-> "r", nonblock |-> FALSE,
                 excl |-> FALSE, device |-> FALSE]
           ELSE Unused(None)]
    /\ alt_max_fd = -1
    /\ ALT_ERRNO = "none"
    /\ boot = "alt_sys_init"
    /\ held = Stdio
    /\ opened = [fd \in Fd |-> IF fd \in Stdio THEN [dev |-> alt_dev_null, acc |-> "r"]
                               ELSE NotOpened]
    /\ users = [d \in Driver |-> 0]

Next ==
    \/ \E d \in Device : RegisterDevice(d)
    \/ \E f \in FileSystem : RegisterFileSystem(f)
    \/ SysInitDone \/ alt_io_redirect \/ Return \/ BadCall
    \/ \E name \in Name, acc \in Access : Open(name, acc)
    \/ \E name \in Name : Stat(name)
    \/ \E fd \in Fd : Call(fd)
    \/ \E fd \in held \cap Used : boot = "main" /\ Close(fd) /\ UNCHANGED boot

Spec == Init /\ [][Next]_vars
=============================================================================
