------------------------------ MODULE Files_Spec ------------------------------
(* What programs and drivers rely on. *)
EXTENDS Files, FiniteSets

Errors == {"none", "EMFILE", "EACCES", "other"}

TypeOK ==
    /\ alt_dev_list \subseteq Device /\ alt_fs_list \subseteq FileSystem
    /\ alt_fd_list \in [Fd -> [dev : Driver \cup {None}, priv : Driver \cup {None},
           acc : Access, nonblock : BOOLEAN, excl : BOOLEAN, device : BOOLEAN]]
    /\ alt_max_fd \in -1 .. ALT_MAX_FD - 1
    /\ ALT_ERRNO \in Errors
    /\ boot \in {"alt_sys_init", "stdout", "stdin", "stderr", "main", "exit"}
    /\ held \subseteq Fd
    /\ opened \in [Fd -> [dev : Driver \cup {None}, acc : Access]]
    /\ users \in [Driver -> Int]

\* A descriptor beyond the standard three that the program has not got is back
\* in the pool: no driver, no flags.  A refused open has taken it, flagged it
\* and asked for the lock before (alt_open.c:132-165), stat and the redirection
\* have used it (alt_io_redirect.c:66-70).  priv alone keeps what its last
\* driver put there (alt_release_fd.c:48-49), and the standard three are never
\* given back (alt_release_fd.c:46).
ReturnedToPool ==
    \A fd \in Fd \ (held \cup Stdio) : alt_fd_list[fd] = Unused(alt_fd_list[fd].priv)

\* From open to close a descriptor means the same device or file system and
\* the same access, whatever is opened, closed, locked, redirected or set
\* meanwhile.
KeepsMeaning ==
    \A fd \in held :
        LET d == alt_fd_list[fd]
        IN  /\ d.dev = opened[fd].dev /\ d.acc = opened[fd].acc
            /\ d.dev # None
            /\ "open" \in Provides[d.dev] => d.priv = d.dev

\* While the program runs a driver has been asked to close as often as it
\* agreed to open, less the descriptors on it: failed opens and the
\* redirection of stdio included.
OpensMatchCloses ==
    boot # "exit" =>
        \A d \in Driver : {"open", "close"} \subseteq Provides[d] =>
            users[d] = Cardinality({fd \in held : alt_fd_list[fd].dev = d})

\* While a descriptor is locked, no other one comes to refer to its device:
\* further calls to open fail (alt_fd_lock.c:44-45).  The search for locks
\* stops at the highest descriptor ever used.
LockKeepsOut ==
    [][\A f, g \in Fd :
           alt_fd_list[f].excl /\ alt_fd_list'[g].dev = alt_fd_list[f].dev
           => alt_fd_list[g].dev = alt_fd_list[f].dev]_vars

\* A lock is granted only if no other descriptor of the program refers to the
\* device (alt_fd_lock.c:43-44).
LockIsExclusive ==
    \A f, g \in held :
        alt_fd_list[f].excl /\ alt_fd_list[g].dev = alt_fd_list[f].dev => f = g
=============================================================================
