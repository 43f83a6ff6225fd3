----------------------------- MODULE Files_proof -----------------------------
(***************************************************************************)
(* For every pool, every set of drivers and every choice of stdio devices: *)
(* a descriptor nobody has is back in the pool, a descriptor keeps its     *)
(* meaning, a lock keeps further opens out, and a driver is closed as      *)
(* often as it was opened.                                                 *)
(***************************************************************************)
EXTENDS Files_Spec, FiniteSetTheorems, TLAPS

\* The standard descriptors are never free: the pool gives out the others.
StdioTaken == \A fd \in Stdio : alt_fd_list[fd].dev # None

\* No descriptor in use is above the mark at which searches stop.
BelowMark ==
    \A fd \in Fd \ Stdio : alt_fd_list[fd].dev # None => fd =< alt_max_fd

\* Only devices are locked.
LocksOnDevices ==
    \A fd \in Fd :
        LET d == alt_fd_list[fd]
        IN  /\ d.device => d.dev \in Device
            /\ d.excl => d.device

IInv ==
    TypeOK /\ ReturnedToPool /\ KeepsMeaning /\ StdioTaken /\ BelowMark /\ LocksOnDevices

-----------------------------------------------------------------------------
(* What open does.                                                          *)

Desc == [dev : Driver \cup {None}, priv : Driver \cup {None},
         acc : Access, nonblock : BOOLEAN, excl : BOOLEAN, device : BOOLEAN]

LEMMA FdFacts ==
    /\ Stdio \subseteq Fd /\ Fd \subseteq Int /\ -1 \notin Fd
    /\ \A fd \in Fd : fd > 2 <=> fd \notin Stdio
  BY PoolAssumption DEF Fd, Stdio

LEMMA FoundFacts ==
    ASSUME NEW name, NEW drivers \in SUBSET Driver
    PROVE  Found(name, drivers) \in drivers \cup {None}
  BY DEF Found

LEMMA UnusedFacts ==
    ASSUME NEW priv \in Driver \cup {None}
    PROVE  /\ Unused(priv) \in Desc /\ Unused(priv).dev = None /\ Unused(priv).priv = priv
           /\ ~Unused(priv).excl /\ ~Unused(priv).device
  BY PoolAssumption DEF Unused, Desc

LEMMA ResolvedFacts ==
    ASSUME TypeOK, NEW name
    PROVE  Resolved(name) \in Driver \cup {None}
  <1>1. alt_dev_list \in SUBSET Driver /\ alt_fs_list \in SUBSET Driver
    BY DEF TypeOK, Driver
  <1> QED BY <1>1, FoundFacts DEF Resolved, alt_find_dev, alt_find_file

\* The pool list differs from this one in no descriptor but one that is free,
\* and is free in it too.
OnlyFreeDiffer(list) ==
    \A f \in Fd :
        \/ list[f] = alt_fd_list[f]
        \/ /\ f \notin Stdio /\ alt_fd_list[f].dev = None
           /\ list[f] = Unused(list[f].priv)

LEMMA SameDrivers ==
    ASSUME NEW list, OnlyFreeDiffer(list)
    PROVE  \A f \in Fd : list[f].dev = alt_fd_list[f].dev
  <1>1. \A priv : Unused(priv).dev = None
    BY DEF Unused
  <1> SUFFICES ASSUME NEW f \in Fd PROVE list[f].dev = alt_fd_list[f].dev
    OBVIOUS
  <1>2. CASE list[f] = alt_fd_list[f]
    BY <1>2
  <1>3. CASE alt_fd_list[f].dev = None /\ list[f] = Unused(list[f].priv)
    <2>1. list[f].dev = Unused(list[f].priv).dev
      BY <1>3
    <2> QED BY <1>1, <1>3, <2>1
  <1> QED BY <1>2, <1>3 DEF OnlyFreeDiffer

\* What open makes of the descriptor it has taken, before and after the driver.
LEMMA TakenFacts ==
    ASSUME TypeOK, NEW fd \in Fd, NEW d \in Driver, NEW acc \in Access,
           NEW t \in {Taken(d, fd, acc), Pointed(Taken(d, fd, acc))}
    PROVE  /\ t \in Desc /\ t.dev = d /\ t.acc = acc /\ ~t.excl
           /\ t.device <=> d \in Device
           /\ t = Pointed(Taken(d, fd, acc)) /\ "open" \in Provides[d] => t.priv = d
  <1>1. alt_fd_list[fd].priv \in Driver \cup {None}
    BY DEF TypeOK
  <1>2. (d \in Device) \in BOOLEAN
    OBVIOUS
  <1>3. /\ Taken(d, fd, acc) \in Desc /\ Taken(d, fd, acc).dev = d
        /\ Taken(d, fd, acc).acc = acc /\ ~Taken(d, fd, acc).excl
        /\ Taken(d, fd, acc).device <=> d \in Device
    BY <1>1, <1>2 DEF Taken, Desc
  <1> QED BY <1>3 DEF Pointed, Desc

\* A refused open leaves the descriptor it took free, with priv in it.
LEMMA RefusedFacts ==
    ASSUME TypeOK, NEW fd \in Fd \ Stdio, alt_fd_list[fd].dev = None, NEW t \in Desc,
           NEW error
    PROVE  /\ Refused(fd, t, error).fd = -1 /\ Refused(fd, t, error).error = error
           /\ Refused(fd, t, error).max = HighWater(fd)
           /\ Refused(fd, t, error).list \in [Fd -> Desc]
           /\ OnlyFreeDiffer(Refused(fd, t, error).list)
  <1> DEFINE u == Unused(t.priv)
             list == Refused(fd, t, error).list
  <1>1. u \in Desc /\ u = Unused(u.priv)
    BY UnusedFacts DEF Desc
  <1>2. alt_release_fd(fd, t) = u
    BY FdFacts DEF alt_release_fd
  <1> HIDE DEF u
  <1>3. alt_fd_list \in [Fd -> Desc] /\ list = [alt_fd_list EXCEPT ![fd] = u]
    BY <1>2 DEF TypeOK, Desc, Refused
  <1>4. list[fd] = u /\ list \in [Fd -> Desc] /\ \A f \in Fd : f # fd => list[f] = alt_fd_list[f]
    BY <1>1, <1>3
  <1>5. OnlyFreeDiffer(list)
    BY <1>1, <1>4 DEF OnlyFreeDiffer
  <1> QED BY <1>4, <1>5 DEF Refused

\* A failed open moves the mark up and leaves the descriptors that are in use.
\* A successful one takes a descriptor that was free and is not one of stdio,
\* and no lock is on its device.
LEMMA OpensFacts ==
    ASSUME TypeOK, StdioTaken, BelowMark, LocksOnDevices,
           NEW name, NEW acc \in Access, NEW r \in Opens(name, acc)
    PROVE  /\ r.max \in -1 .. ALT_MAX_FD - 1 /\ alt_max_fd =< r.max
           /\ r.error \in Errors
           /\ r.list \in [Fd -> Desc]
           /\ r.fd = -1 => OnlyFreeDiffer(r.list)
           /\ r.fd # -1 =>
                /\ r.fd \in Fd \ Stdio /\ r.fd =< r.max /\ Resolved(name) \in Driver
                /\ alt_fd_list[r.fd].dev = None
                /\ \A f \in Fd : alt_fd_list[f].excl => alt_fd_list[f].dev # Resolved(name)
                /\ \A f \in Fd : f # r.fd => r.list[f] = alt_fd_list[f]
                /\ r.list[r.fd].dev = Resolved(name) /\ r.list[r.fd].acc = acc
                /\ "open" \in Provides[Resolved(name)] => r.list[r.fd].priv = Resolved(name)
                /\ ~r.list[r.fd].excl
                /\ r.list[r.fd].device => Resolved(name) \in Device
  <1> DEFINE d == Resolved(name)
  <1>1. d \in Driver \cup {None}
    BY ResolvedFacts
  <1>2. /\ alt_max_fd \in -1 .. ALT_MAX_FD - 1 /\ ALT_ERRNO \in Errors
        /\ alt_fd_list \in [Fd -> Desc]
    BY DEF TypeOK, Desc
  <1>3. CASE r = NotTaken("other") \/ r = NotTaken("EMFILE")
    BY <1>2, <1>3, PoolAssumption DEF NotTaken, Errors, OnlyFreeDiffer
  <1>4. CASE /\ d # None
             /\ \E fd \in Fd : alt_get_fd(fd) /\ r \in Tried(fd, Taken(d, fd, acc))
    <2>1. PICK fd \in Fd : alt_get_fd(fd) /\ r \in Tried(fd, Taken(d, fd, acc))
      BY <1>4
    <2> DEFINE t == Taken(d, fd, acc)
               p == Pointed(t)
    <2>2. alt_fd_list[fd].dev = None /\ fd \in Fd \ Stdio
      BY <2>1, FdFacts DEF alt_get_fd, FreeFds, StdioTaken
    <2>3. /\ HighWater(fd) \in -1 .. ALT_MAX_FD - 1
          /\ alt_max_fd =< HighWater(fd) /\ fd =< HighWater(fd)
      BY <1>2, PoolAssumption DEF HighWater, Fd
    <2>4. d \in Driver
      BY <1>1, <1>4
    <2>5. /\ t \in Desc /\ p \in Desc /\ t.dev = d /\ (t.device <=> d \in Device)
          /\ p.dev = d /\ p.acc = acc /\ ~p.excl /\ (p.device <=> d \in Device)
          /\ "open" \in Provides[d] => p.priv = d
      BY <2>1, <2>4, TakenFacts
    <2> HIDE DEF p, t
    <2>6. \/ r = Refused(fd, t, "EACCES") \/ r = Refused(fd, t, "other")
          \/ r = Refused(fd, p, "other")
          \/ r = Agreed(fd, p) /\ ~(t.device /\ alt_file_locked(fd, t.dev))
      BY <2>1 DEF Tried, t, p
    <2>7. CASE \/ r = Refused(fd, t, "EACCES") \/ r = Refused(fd, t, "other")
               \/ r = Refused(fd, p, "other")
      BY <2>2, <2>3, <2>5, <2>7, RefusedFacts DEF Errors
    <2>8. CASE r = Agreed(fd, p) /\ ~(t.device /\ alt_file_locked(fd, t.dev))
      <3>1. /\ r.fd = fd /\ r.error = ALT_ERRNO /\ r.max = HighWater(fd)
            /\ r.list = [alt_fd_list EXCEPT ![fd] = p]
        BY <2>8 DEF Agreed
      <3>2. /\ r.list \in [Fd -> Desc] /\ r.list[fd] = p
            /\ \A f \in Fd : f # fd => r.list[f] = alt_fd_list[f]
        BY <1>2, <2>5, <3>1
      <3>3. ASSUME NEW f \in Fd, alt_fd_list[f].excl, alt_fd_list[f].dev = d
            PROVE  FALSE
        <4>1. d \in Device
          BY <3>3 DEF LocksOnDevices
        <4>2. f # fd
          BY <3>3, <2>4, <2>2, DriverAssumption
        <4>3. f \in 0 .. HighWater(fd)
          <5>1. CASE f \in Stdio
            BY <5>1, <2>2, <2>3, PoolAssumption DEF Stdio, Fd
          <5>2. CASE f \notin Stdio
            <6>1. alt_fd_list[f].dev # None
              BY <2>4, <3>3, DriverAssumption
            <6>2. f =< alt_max_fd
              BY <5>2, <6>1 DEF BelowMark
            <6> QED BY <6>2, <1>2, <2>3, PoolAssumption DEF Fd
          <5> QED BY <5>1, <5>2
        <4> QED BY <2>5, <2>8, <3>3, <4>1, <4>2, <4>3 DEF alt_file_locked
      <3>4. fd # -1
        BY FdFacts
      <3> QED BY <1>2, <2>2, <2>3, <2>4, <2>5, <3>1, <3>2, <3>3, <3>4
    <2> QED BY <2>6, <2>7, <2>8
  <1>5. \/ r = NotTaken("other") \/ r = NotTaken("EMFILE")
        \/ d # None /\ \E fd \in Fd : alt_get_fd(fd) /\ r \in Tried(fd, Taken(d, fd, acc))
    BY DEF Opens
  <1> QED BY <1>3, <1>4, <1>5

-----------------------------------------------------------------------------
(* The invariant.                                                           *)

THEOREM Initially == Init => IInv
  <1> SUFFICES ASSUME Init PROVE IInv
    OBVIOUS
  <1>1. \A fd \in Fd : alt_fd_list[fd] =
            IF fd \in Stdio
            THEN [dev |-> alt_dev_null, priv |-> None, acc |-> "r", nonblock |-> FALSE,
                  excl |-> FALSE, device |-> FALSE]
            ELSE Unused(None)
    BY DEF Init
  <1>2. TypeOK
    <2>1. alt_fd_list \in [Fd -> Desc]
      BY <1>1, DriverAssumption, PoolAssumption DEF Init, Desc, Driver, Unused
    <2>2. opened \in [Fd -> [dev : Driver \cup {None}, acc : Access]]
      BY DriverAssumption, PoolAssumption DEF Init, Driver, NotOpened
    <2> QED
      BY <2>1, <2>2, DriverAssumption, PoolAssumption, FdFacts
         DEF Init, TypeOK, Errors, Desc
  <1>3. ReturnedToPool
    BY <1>1, UnusedFacts DEF ReturnedToPool
  <1>4. KeepsMeaning
    BY <1>1, FdFacts, DriverAssumption DEF KeepsMeaning, Init, Driver
  <1>5. StdioTaken
    <2> SUFFICES ASSUME NEW fd \in Stdio PROVE alt_fd_list[fd].dev # None
      BY DEF StdioTaken
    <2>1. fd \in Fd
      BY FdFacts
    <2>2. alt_fd_list[fd].dev = alt_dev_null
      BY <1>1, <2>1
    <2>3. alt_dev_null # None
      BY DriverAssumption DEF Driver
    <2> QED BY <2>2, <2>3
  <1>6. BelowMark
    BY <1>1 DEF BelowMark, Unused
  <1>7. LocksOnDevices
    BY <1>1 DEF LocksOnDevices, Unused
  <1> QED BY <1>2, <1>3, <1>4, <1>5, <1>6, <1>7 DEF IInv

\* A step that changes no descriptor in use and lowers no mark.
LEMMA PoolUntouched ==
    ASSUME IInv, TypeOK', OnlyFreeDiffer(alt_fd_list'), UNCHANGED <<held, opened>>,
           alt_max_fd =< alt_max_fd'
    PROVE  IInv' /\ (\A g \in Fd : alt_fd_list'[g].dev = alt_fd_list[g].dev)
  <1>1. alt_max_fd \in Int /\ alt_max_fd' \in Int /\ Fd \subseteq Int
    BY FdFacts, PoolAssumption DEF IInv, TypeOK
  <1>2. \A f \in Fd : alt_fd_list[f].priv \in Driver \cup {None}
                      /\ alt_fd_list'[f].priv \in Driver \cup {None}
    BY DEF IInv, TypeOK
  <1>3. \A f \in Fd : \/ alt_fd_list'[f] = alt_fd_list[f]
                      \/ /\ f \notin Stdio /\ alt_fd_list[f].dev = None
                         /\ alt_fd_list'[f] = Unused(alt_fd_list'[f].priv)
                         /\ alt_fd_list'[f].dev = None
                         /\ ~alt_fd_list'[f].excl /\ ~alt_fd_list'[f].device
    BY <1>2 DEF OnlyFreeDiffer, Unused
  <1>4. \A g \in Fd : alt_fd_list'[g].dev = alt_fd_list[g].dev
    BY <1>3
  <1>5. BelowMark'
    BY <1>1, <1>4 DEF IInv, BelowMark
  <1>6. StdioTaken'
    BY <1>4, FdFacts DEF IInv, StdioTaken
  <1>7. ReturnedToPool'
    BY <1>3 DEF IInv, ReturnedToPool
  <1>8. KeepsMeaning'
    BY <1>3 DEF IInv, KeepsMeaning, TypeOK
  <1>9. LocksOnDevices'
    BY <1>3 DEF IInv, LocksOnDevices
  <1> QED BY <1>4, <1>5, <1>6, <1>7, <1>8, <1>9 DEF IInv

LEMMA SameUntouched == UNCHANGED alt_fd_list => OnlyFreeDiffer(alt_fd_list')
  BY DEF OnlyFreeDiffer

LEMMA CountedFacts ==
    ASSUME users \in [Driver -> Int], NEW d, NEW n \in Int
    PROVE  Counted(d, n) \in [Driver -> Int]
  <1>1. CASE d \in Driver
    BY <1>1 DEF Counted
  <1>2. CASE d \notin Driver
    <2>1. [users EXCEPT ![d] = @ + n] = users
      BY <1>2
    <2> QED BY <2>1 DEF Counted
  <1> QED BY <1>1, <1>2

LEMMA OpenStep ==
    ASSUME IInv, NEW name, NEW acc \in Access, Open(name, acc)
    PROVE  IInv' /\ (\A f, g \in Fd :
                        alt_fd_list[f].excl /\ alt_fd_list'[g].dev = alt_fd_list[f].dev
                        => alt_fd_list[g].dev = alt_fd_list[f].dev)
  <1> DEFINE dev == Resolved(name)
  <1>1. PICK r \in Opens(name, acc) :
            /\ alt_fd_list' = r.list /\ alt_max_fd' = r.max /\ ALT_ERRNO' = r.error
            /\ IF r.fd = -1
               THEN UNCHANGED history
               ELSE /\ users' = Counted(dev, 1)
                    /\ held' = held \cup {r.fd}
                    /\ opened' = [opened EXCEPT ![r.fd] = [dev |-> dev, acc |-> acc]]
    BY DEF Open
  <1>2. /\ r.max \in -1 .. ALT_MAX_FD - 1 /\ alt_max_fd =< r.max
        /\ r.error \in Errors
        /\ r.list \in [Fd -> Desc]
        /\ r.fd = -1 => OnlyFreeDiffer(r.list)
    BY OpensFacts DEF IInv
  <1>3. CASE r.fd = -1
    <2>1. TypeOK'
      BY <1>1, <1>2, <1>3 DEF IInv, TypeOK, history, Open, registered, Desc
    <2> QED BY <1>1, <1>2, <1>3, <2>1, PoolUntouched DEF history
  <1>4. CASE r.fd # -1
    <2> DEFINE d == alt_fd_list'[r.fd]
    <2>1. /\ r.fd \in Fd \ Stdio /\ r.fd =< r.max /\ dev \in Driver
          /\ alt_fd_list[r.fd].dev = None
          /\ \A f \in Fd : alt_fd_list[f].excl => alt_fd_list[f].dev # dev
          /\ \A f \in Fd : f # r.fd => alt_fd_list'[f] = alt_fd_list[f]
      BY <1>1, <1>4, OpensFacts DEF IInv
    <2>2. /\ d.dev = dev /\ d.acc = acc
          /\ "open" \in Provides[dev] => d.priv = dev
          /\ ~d.excl /\ (d.device => dev \in Device)
      BY <1>1, <1>4, OpensFacts DEF IInv
    <2> HIDE DEF dev, d
    <2>3. /\ alt_fd_list' \in [Fd -> Desc]
          /\ opened' = [opened EXCEPT ![r.fd] = [dev |-> dev, acc |-> acc]]
          /\ opened \in [Fd -> [dev : Driver \cup {None}, acc : Access]]
          /\ held' = held \cup {r.fd} /\ held \subseteq Fd /\ alt_max_fd' = r.max
      BY <1>1, <1>2, <1>4 DEF IInv, TypeOK
    <2>4. alt_fd_list'[r.fd] = d /\ \A fd \in Fd : fd # r.fd => alt_fd_list'[fd] = alt_fd_list[fd]
      BY <2>1 DEF d
    <2>5. TypeOK'
      <3>1. users' \in [Driver -> Int]
        BY <1>1, <1>4, CountedFacts DEF IInv, TypeOK
      <3>2. opened' \in [Fd -> [dev : Driver \cup {None}, acc : Access]]
        BY <2>1, <2>3
      <3>3. held' \subseteq Fd
        BY <2>1, <2>3
      <3> QED BY <1>1, <1>2, <2>3, <3>1, <3>2, <3>3 DEF IInv, TypeOK, Open, registered, Desc
    <2>6. ReturnedToPool'
      BY <2>3, <2>4 DEF IInv, ReturnedToPool
    <2>7. KeepsMeaning'
      BY <2>1, <2>2, <2>3, <2>4, DriverAssumption DEF IInv, KeepsMeaning
    <2>8. StdioTaken'
      BY <2>1, <2>4, FdFacts DEF IInv, StdioTaken
    <2>9. BelowMark'
      <3>1. alt_max_fd \in Int /\ r.max \in Int /\ Fd \subseteq Int
        BY <1>2, FdFacts, PoolAssumption DEF IInv, TypeOK
      <3>2. ASSUME NEW fd \in Fd \ Stdio, alt_fd_list'[fd].dev # None
            PROVE  fd =< alt_max_fd'
        <4>1. CASE fd = r.fd
          BY <4>1, <2>1, <2>3
        <4>2. CASE fd # r.fd
          <5>1. fd =< alt_max_fd
            BY <3>2, <4>2, <2>4 DEF IInv, BelowMark
          <5> QED BY <5>1, <3>1, <1>2, <2>3
        <4> QED BY <4>1, <4>2
      <3> QED BY <3>2, <2>3 DEF BelowMark, Fd
    <2>10. LocksOnDevices'
      BY <2>1, <2>2, <2>4 DEF IInv, LocksOnDevices
    <2>11. \A f, g \in Fd :
              alt_fd_list[f].excl /\ alt_fd_list'[g].dev = alt_fd_list[f].dev
              => alt_fd_list[g].dev = alt_fd_list[f].dev
      BY <2>1, <2>2, <2>4
    <2> QED BY <2>5, <2>6, <2>7, <2>8, <2>9, <2>10, <2>11 DEF IInv
  <1> QED BY <1>3, <1>4

-----------------------------------------------------------------------------
(* The other calls.                                                         *)

\* A call that gives one descriptor of the program new flags.
Flagged(fd) ==
    \E d \in Desc :
        /\ alt_fd_list' = [alt_fd_list EXCEPT ![fd] = d]
        /\ d.dev = alt_fd_list[fd].dev /\ d.priv = alt_fd_list[fd].priv
        /\ d.acc = alt_fd_list[fd].acc /\ d.device = alt_fd_list[fd].device
        /\ d.excl => d.device

LEMMA CallStep ==
    ASSUME IInv, NEW fd \in Fd, Call(fd)
    PROVE  IInv' /\ (\A g \in Fd : alt_fd_list'[g].dev = alt_fd_list[g].dev)
  <1> DEFINE old == alt_fd_list[fd]
  <1>1. /\ fd \in held /\ alt_fd_list \in [Fd -> Desc] /\ old \in Desc
        /\ alt_max_fd \in Int /\ ALT_ERRNO \in Errors
    BY PoolAssumption DEF Call, IInv, TypeOK, Desc
  <1>2. /\ ALT_ERRNO' \in Errors
        /\ UNCHANGED alt_fd_list \/ Flagged(fd)
    <2>1. ASSUME NEW callback, NEW error \in Errors, Passed(fd, callback, error)
          PROVE  ALT_ERRNO' \in Errors /\ UNCHANGED alt_fd_list
      BY <1>1, <2>1 DEF Passed, Errors
    <2>2. ASSUME NEW req, Ioctl(fd, req)
          PROVE  ALT_ERRNO' \in Errors /\ (UNCHANGED alt_fd_list \/ Flagged(fd))
      <3>1. CASE old.device /\ Lock(fd)
        <4>1. CASE alt_fd_list' = [alt_fd_list EXCEPT ![fd] = [old EXCEPT !.excl = TRUE]]
          <5>1. [old EXCEPT !.excl = TRUE] \in Desc
            BY <1>1 DEF Desc
          <5> QED BY <1>1, <3>1, <4>1, <5>1 DEF Flagged, Lock, Desc, Errors
        <4>2. CASE UNCHANGED alt_fd_list
          BY <1>1, <3>1, <4>2 DEF Lock, Errors
        <4> QED BY <3>1, <4>1, <4>2 DEF Lock
      <3>2. CASE old.device /\ Unlock(fd)
        <4>1. [old EXCEPT !.excl = FALSE] \in Desc
          BY <1>1 DEF Desc
        <4> QED BY <1>1, <3>2, <4>1 DEF Flagged, Unlock, Desc, Errors
      <3>3. CASE Passed(fd, "ioctl", "other")
        BY <2>1, <3>3 DEF Errors
      <3> QED BY <2>2, <3>1, <3>2, <3>3 DEF Ioctl
    <2>3. ASSUME Read(fd) \/ Write(fd) \/ Lseek(fd)
          PROVE  ALT_ERRNO' \in Errors /\ UNCHANGED alt_fd_list
      BY <2>1, <2>3 DEF Read, Write, Lseek, Errors
    <2>4. ASSUME NEW nonblock \in BOOLEAN, Fcntl(fd, nonblock)
          PROVE  ALT_ERRNO' \in Errors /\ Flagged(fd)
      <3>1. [old EXCEPT !.nonblock = nonblock] \in Desc
        BY <1>1 DEF Desc
      <3>2. old.excl => old.device
        BY DEF IInv, LocksOnDevices
      <3> QED BY <1>1, <2>4, <3>1, <3>2 DEF Flagged, Fcntl, Desc
    <2> QED BY <2>2, <2>3, <2>4 DEF Call
  <1>3. UNCHANGED <<held, opened, users, alt_max_fd, registered, boot>>
    BY DEF Call, history
  <1>4. CASE UNCHANGED alt_fd_list
    <2>1. TypeOK'
      BY <1>2, <1>3, <1>4 DEF IInv, TypeOK, registered
    <2> QED BY <1>1, <1>3, <1>4, <2>1, PoolUntouched, SameUntouched
  <1>5. CASE Flagged(fd)
    <2>1. PICK d \in Desc :
              /\ alt_fd_list' = [alt_fd_list EXCEPT ![fd] = d]
              /\ d.dev = old.dev /\ d.priv = old.priv /\ d.acc = old.acc
              /\ d.device = old.device /\ (d.excl => d.device)
      BY <1>5 DEF Flagged
    <2>2. /\ alt_fd_list' \in [Fd -> Desc] /\ alt_fd_list'[fd] = d
          /\ \A g \in Fd : g # fd => alt_fd_list'[g] = alt_fd_list[g]
      BY <1>1, <2>1
    <2>3. \A g \in Fd : alt_fd_list'[g].dev = alt_fd_list[g].dev
      BY <2>1, <2>2
    <2>4. TypeOK'
      BY <1>2, <1>3, <2>2 DEF IInv, TypeOK, registered, Desc
    <2>5. ReturnedToPool'
      BY <1>1, <1>3, <2>2 DEF IInv, ReturnedToPool
    <2>6. KeepsMeaning'
      BY <1>3, <2>1, <2>2 DEF IInv, KeepsMeaning, TypeOK
    <2>7. StdioTaken' /\ BelowMark'
      BY <1>3, <2>3, FdFacts DEF IInv, StdioTaken, BelowMark
    <2>8. LocksOnDevices'
      BY <2>1, <2>2 DEF IInv, LocksOnDevices
    <2> QED BY <2>3, <2>4, <2>5, <2>6, <2>7, <2>8 DEF IInv
  <1> QED BY <1>2, <1>4, <1>5

LEMMA CloseStep ==
    ASSUME IInv, NEW fd \in Fd, Close(fd),
           boot' \in {"main", "exit"}
    PROVE  /\ IInv'
           /\ \A g \in Fd : alt_fd_list'[g].dev \in {None, alt_fd_list[g].dev}
           /\ \A g \in Fd : alt_fd_list'[g].excl => alt_fd_list[g].excl
  <1> DEFINE old == alt_fd_list[fd]
             new == alt_release_fd(fd, old)
  <1>1. /\ alt_fd_list \in [Fd -> Desc] /\ old \in Desc
        /\ old.priv \in Driver \cup {None}
    BY DEF IInv, TypeOK, Desc
  <1>2. /\ new \in Desc
        /\ fd \in Stdio => new = old
        /\ fd \notin Stdio => new = Unused(old.priv) /\ new.dev = None /\ ~new.excl
                               /\ ~new.device /\ new.priv = old.priv
    BY <1>1, UnusedFacts, FdFacts DEF alt_release_fd
  <1>3. /\ alt_fd_list' = [alt_fd_list EXCEPT ![fd] = new]
        /\ held' = held \ {fd} /\ opened' = [opened EXCEPT ![fd] = NotOpened]
        /\ alt_max_fd' = alt_max_fd
    BY DEF Close
  <1> HIDE DEF new
  <1>4. /\ alt_fd_list' \in [Fd -> Desc] /\ alt_fd_list'[fd] = new
        /\ \A g \in Fd : g # fd => alt_fd_list'[g] = alt_fd_list[g]
    BY <1>1, <1>2, <1>3
  <1>5. TypeOK'
    <2>1. NotOpened \in [dev : Driver \cup {None}, acc : Access]
      BY PoolAssumption DEF NotOpened
    <2>2. ALT_ERRNO' \in Errors
      BY DEF Close, Closes, IInv, TypeOK, Errors
    <2>3. users' \in [Driver -> Int]
      <3>1. users \in [Driver -> Int] /\ users' = Counted(old.dev, -1)
        BY DEF Close, IInv, TypeOK
      <3> QED BY <3>1, CountedFacts
    <2>4. opened' \in [Fd -> [dev : Driver \cup {None}, acc : Access]]
      BY <1>3, <2>1 DEF IInv, TypeOK
    <2> QED BY <1>3, <1>4, <2>2, <2>3, <2>4 DEF IInv, TypeOK, Desc, Close, registered
  <1>6. ReturnedToPool'
    BY <1>2, <1>3, <1>4 DEF IInv, ReturnedToPool
  <1>7. KeepsMeaning'
    <2>1. \A g \in held' : opened'[g] = opened[g] /\ g \in held /\ alt_fd_list'[g] = alt_fd_list[g]
      BY <1>3, <1>4 DEF IInv, TypeOK
    <2> QED BY <2>1 DEF IInv, KeepsMeaning
  <1>8. StdioTaken'
    BY <1>2, <1>4, FdFacts DEF IInv, StdioTaken
  <1>9. BelowMark'
    BY <1>2, <1>3, <1>4 DEF IInv, BelowMark, Fd
  <1>10. LocksOnDevices'
    BY <1>2, <1>4 DEF IInv, LocksOnDevices
  <1>11. \A g \in Fd : /\ alt_fd_list'[g].dev \in {None, alt_fd_list[g].dev}
                       /\ alt_fd_list'[g].excl => alt_fd_list[g].excl
    BY <1>2, <1>4
  <1> QED BY <1>5, <1>6, <1>7, <1>8, <1>9, <1>10, <1>11 DEF IInv

\* One descriptor of stdio is redirected; the other descriptor used for it is
\* free again.
LEMMA RedirectStep ==
    ASSUME IInv, NEW fd \in Stdio, NEW acc \in {"r", "w"}, alt_open_fd(fd, acc),
           boot' \in {"stdin", "stderr", "main"}, UNCHANGED <<registered, held>>
    PROVE  IInv' /\ (\A f, g \in Fd :
                        alt_fd_list[f].excl /\ alt_fd_list'[g].dev = alt_fd_list[f].dev
                        => alt_fd_list[g].dev = alt_fd_list[f].dev)
  <1> DEFINE dev == Resolved(StdioName[fd])
  <1>0. acc \in Access
    BY PoolAssumption
  <1>1. PICK r \in Opens(StdioName[fd], acc) :
            /\ alt_max_fd' = r.max /\ ALT_ERRNO' = r.error
            /\ IF r.fd = -1
               THEN alt_fd_list' = r.list /\ UNCHANGED <<users, opened>>
               ELSE /\ alt_fd_list' = [r.list EXCEPT
                            ![fd] = OpenedAs(fd, r.list[r.fd]),
                            ![r.fd] = alt_release_fd(r.fd, r.list[r.fd])]
                    /\ users' = Counted(dev, 1)
                    /\ opened' = [opened EXCEPT ![fd] = [dev |-> dev, acc |-> acc]]
    BY DEF alt_open_fd
  <1>2. /\ r.max \in -1 .. ALT_MAX_FD - 1 /\ alt_max_fd =< r.max
        /\ r.error \in Errors
        /\ r.list \in [Fd -> Desc]
        /\ r.fd = -1 => OnlyFreeDiffer(r.list)
    BY <1>0, OpensFacts DEF IInv
  <1>3. CASE r.fd = -1
    <2>1. TypeOK'
      BY <1>1, <1>2, <1>3 DEF IInv, TypeOK, registered, Desc
    <2> QED BY <1>1, <1>2, <1>3, <2>1, PoolUntouched
  <1>4. CASE r.fd # -1
    <2> DEFINE d == r.list[r.fd]
               u == Unused(d.priv)
    <2>1. /\ r.fd \in Fd \ Stdio /\ r.fd =< r.max /\ dev \in Driver
          /\ alt_fd_list[r.fd].dev = None
          /\ \A f \in Fd : alt_fd_list[f].excl => alt_fd_list[f].dev # dev
          /\ \A f \in Fd : f # r.fd => r.list[f] = alt_fd_list[f]
      BY <1>0, <1>4, OpensFacts DEF IInv
    <2>2. /\ d \in Desc /\ d.dev = dev /\ d.acc = acc
          /\ "open" \in Provides[dev] => d.priv = dev
          /\ ~d.excl /\ (d.device => dev \in Device)
      BY <1>0, <1>2, <1>4, <2>1, OpensFacts DEF IInv
    <2>3. /\ u \in Desc /\ u.dev = None /\ u.priv = d.priv /\ ~u.excl /\ ~u.device
          /\ u = Unused(u.priv)
      BY <2>2, UnusedFacts DEF Desc
    <2>4. alt_fd_list' = [r.list EXCEPT ![fd] = d, ![r.fd] = u]
      <3>1. alt_release_fd(r.fd, d) = u
        BY <2>1, FdFacts DEF alt_release_fd
      <3> QED BY <1>1, <1>4, <3>1 DEF OpenedAs
    <2> HIDE DEF d, u, dev
    <2>5. /\ alt_fd_list \in [Fd -> Desc] /\ fd \in Fd
          /\ opened' = [opened EXCEPT ![fd] = [dev |-> dev, acc |-> acc]]
          /\ opened \in [Fd -> [dev : Driver \cup {None}, acc : Access]]
          /\ held' = held /\ held \subseteq Fd /\ alt_max_fd' = r.max
      BY <1>1, <1>4, FdFacts DEF IInv, TypeOK, Desc, dev
    <2>6. /\ alt_fd_list' \in [Fd -> Desc]
          /\ alt_fd_list'[fd] = d /\ alt_fd_list'[r.fd] = u
          /\ \A g \in Fd : g # fd /\ g # r.fd => alt_fd_list'[g] = alt_fd_list[g]
      BY <1>2, <2>1, <2>2, <2>3, <2>4, <2>5
    <2>7. TypeOK'
      <3>1. users' \in [Driver -> Int]
        BY <1>1, <1>4, CountedFacts DEF IInv, TypeOK
      <3>2. opened' \in [Fd -> [dev : Driver \cup {None}, acc : Access]]
        BY <1>0, <2>1, <2>5
      <3> QED BY <1>1, <1>2, <2>5, <2>6, <3>1, <3>2 DEF IInv, TypeOK, registered, Desc
    <2>8. ReturnedToPool'
      BY <2>3, <2>5, <2>6 DEF IInv, ReturnedToPool
    <2>9. KeepsMeaning'
      <3>1. r.fd \notin held
        BY <2>1 DEF IInv, KeepsMeaning
      <3>2. opened'[fd] = [dev |-> dev, acc |-> acc]
            /\ \A g \in Fd : g # fd => opened'[g] = opened[g]
        BY <2>5
      <3> QED BY <2>1, <2>2, <2>5, <2>6, <3>1, <3>2, DriverAssumption
              DEF IInv, KeepsMeaning
    <2>10. StdioTaken'
      BY <2>1, <2>2, <2>6, FdFacts, DriverAssumption DEF IInv, StdioTaken
    <2>11. BelowMark'
      <3>1. alt_max_fd \in Int /\ r.max \in Int /\ Fd \subseteq Int
        BY <1>2, FdFacts, PoolAssumption DEF IInv, TypeOK
      <3>2. ASSUME NEW g \in Fd \ Stdio, alt_fd_list'[g].dev # None
            PROVE  g =< alt_max_fd'
        <4>1. g # r.fd /\ g # fd
          BY <3>2, <2>3, <2>6
        <4>2. g =< alt_max_fd
          BY <3>2, <4>1, <2>6 DEF IInv, BelowMark
        <4> QED BY <4>2, <3>1, <1>2, <2>5
      <3> QED BY <3>2, <2>5 DEF BelowMark, Fd
    <2>12. LocksOnDevices'
      BY <2>1, <2>2, <2>3, <2>6 DEF IInv, LocksOnDevices
    <2>13. ASSUME NEW f \in Fd, NEW g \in Fd,
                  alt_fd_list[f].excl, alt_fd_list'[g].dev = alt_fd_list[f].dev
           PROVE  alt_fd_list[g].dev = alt_fd_list[f].dev
      <3>1. alt_fd_list[f].dev # None
        BY <2>13, DriverAssumption DEF IInv, LocksOnDevices, Driver
      <3> QED BY <2>1, <2>2, <2>3, <2>6, <2>13, <3>1
    <2> QED BY <2>7, <2>8, <2>9, <2>10, <2>11, <2>12, <2>13 DEF IInv
  <1> QED BY <1>3, <1>4

\* stat leaves the pool as it was, but for the mark and the priv of a
\* descriptor that is free before and after.
LEMMA StatStep ==
    ASSUME IInv, NEW name, Stat(name)
    PROVE  IInv' /\ (\A g \in Fd : alt_fd_list'[g].dev = alt_fd_list[g].dev)
  <1>0. "r" \in Access
    BY PoolAssumption
  <1>1. PICK r \in Opens(name, "r") :
            /\ alt_max_fd' = r.max
            /\ IF r.fd = -1
               THEN ALT_ERRNO' = "other" /\ alt_fd_list' = r.list
               ELSE /\ ALT_ERRNO' \in Closes(Resolved(name))
                    /\ alt_fd_list' = [r.list EXCEPT
                           ![r.fd] = alt_release_fd(r.fd, r.list[r.fd])]
    BY DEF Stat
  <1>2. /\ r.max \in -1 .. ALT_MAX_FD - 1 /\ alt_max_fd =< r.max
        /\ r.list \in [Fd -> Desc]
        /\ r.fd = -1 => OnlyFreeDiffer(r.list)
        /\ r.fd # -1 => /\ r.fd \in Fd \ Stdio /\ alt_fd_list[r.fd].dev = None
                        /\ \A f \in Fd : f # r.fd => r.list[f] = alt_fd_list[f]
    BY <1>0, OpensFacts DEF IInv
  <1>3. UNCHANGED <<alt_dev_list, alt_fs_list, boot, held, opened, users>>
    BY DEF Stat, registered, history
  <1>4. ALT_ERRNO' \in Errors
    BY <1>1 DEF Closes, IInv, TypeOK, Errors
  <1>5. alt_fd_list' \in [Fd -> Desc] /\ OnlyFreeDiffer(alt_fd_list')
    <2>1. CASE r.fd = -1
      BY <1>1, <1>2, <2>1
    <2>2. CASE r.fd # -1
      <3> DEFINE u == Unused(r.list[r.fd].priv)
      <3>1. u \in Desc /\ u = Unused(u.priv)
        BY <1>2, <2>2, UnusedFacts DEF Desc
      <3>2. alt_fd_list' = [r.list EXCEPT ![r.fd] = u]
        <4>1. alt_release_fd(r.fd, r.list[r.fd]) = u
          BY <1>2, <2>2, FdFacts DEF alt_release_fd
        <4> QED BY <1>1, <2>2, <4>1
      <3> HIDE DEF u
      <3>3. /\ alt_fd_list' \in [Fd -> Desc] /\ alt_fd_list'[r.fd] = u
            /\ \A f \in Fd : f # r.fd => alt_fd_list'[f] = alt_fd_list[f]
        BY <1>2, <2>2, <3>1, <3>2
      <3> QED BY <1>2, <2>2, <3>1, <3>3 DEF OnlyFreeDiffer
    <2> QED BY <2>1, <2>2
  <1>6. TypeOK'
    BY <1>1, <1>2, <1>3, <1>4, <1>5 DEF IInv, TypeOK, Desc
  <1> QED BY <1>1, <1>2, <1>3, <1>5, <1>6, PoolUntouched

-----------------------------------------------------------------------------
(* The theorems.                                                            *)

\* A lock keeps further opens out of its device during one step.
KeepsOut ==
    \A f, g \in Fd :
        alt_fd_list[f].excl /\ alt_fd_list'[g].dev = alt_fd_list[f].dev
        => alt_fd_list[g].dev = alt_fd_list[f].dev

\* Every step keeps the invariant, and locks.
LEMMA StepKeeps == ASSUME IInv, [Next]_vars PROVE IInv' /\ KeepsOut
  <1> USE DEF KeepsOut
  <1>1. ASSUME NEW d \in Device, RegisterDevice(d)
        PROVE  IInv' /\ KeepsOut
    <2>1. TypeOK' /\ alt_max_fd =< alt_max_fd'
      BY <1>1, PoolAssumption DEF RegisterDevice, IInv, TypeOK, pool, history
    <2> QED BY <1>1, <2>1, PoolUntouched, SameUntouched DEF RegisterDevice, pool, history
  <1>2. ASSUME NEW f \in FileSystem, RegisterFileSystem(f)
        PROVE  IInv' /\ KeepsOut
    <2>1. TypeOK' /\ alt_max_fd =< alt_max_fd'
      BY <1>2, PoolAssumption DEF RegisterFileSystem, IInv, TypeOK, pool, history
    <2> QED BY <1>2, <2>1, PoolUntouched, SameUntouched DEF RegisterFileSystem, pool, history
  <1>3. ASSUME SysInitDone \/ BadCall \/ UNCHANGED vars
        PROVE  IInv' /\ KeepsOut
    <2>1. UNCHANGED <<pool, registered, history>>
      BY <1>3 DEF SysInitDone, BadCall, vars
    <2>2. TypeOK' /\ alt_max_fd =< alt_max_fd'
      BY <1>3, <2>1, PoolAssumption
         DEF SysInitDone, BadCall, vars, IInv, TypeOK, pool, registered, history, Errors
    <2> QED BY <2>1, <2>2, PoolUntouched, SameUntouched DEF pool, history
  <1>4. CASE alt_io_redirect
    BY <1>4, RedirectStep DEF alt_io_redirect, Stdio
  <1>5. ASSUME NEW fd \in Fd, Close(fd), boot' \in {"main", "exit"}
        PROVE  IInv' /\ KeepsOut
    <2>1. /\ IInv'
          /\ \A g \in Fd : alt_fd_list'[g].dev \in {None, alt_fd_list[g].dev}
      BY <1>5, CloseStep
    <2>2. \A f \in Fd : alt_fd_list[f].excl => alt_fd_list[f].dev # None
      BY DriverAssumption DEF IInv, LocksOnDevices, Driver
    <2> QED BY <2>1, <2>2
  <1>6. CASE Return
    BY <1>5, <1>6, FdFacts DEF Return, Stdio
  <1>7. ASSUME NEW fd \in held \cap Used, boot = "main", Close(fd), UNCHANGED boot
        PROVE  IInv' /\ KeepsOut
    BY <1>5, <1>7 DEF IInv, TypeOK
  <1>8. ASSUME NEW name \in Name, NEW acc \in Access, Open(name, acc)
        PROVE  IInv' /\ KeepsOut
    BY <1>8, OpenStep
  <1>9. ASSUME NEW fd \in Fd, Call(fd)
        PROVE  IInv' /\ KeepsOut
    BY <1>9, CallStep
  <1>10. ASSUME NEW name \in Name, Stat(name)
         PROVE  IInv' /\ KeepsOut
    BY <1>10, StatStep
  <1> QED BY <1>1, <1>2, <1>3, <1>4, <1>6, <1>7, <1>8, <1>9, <1>10 DEF Next

THEOREM Invariance == Spec => []IInv
  <1>1. IInv /\ [Next]_vars => IInv'
    BY StepKeeps
  <1> QED BY Initially, <1>1, PTL DEF Spec

\* The types of everything (Files_Spec).
THEOREM TypeCorrect == Spec => []TypeOK
  <1>1. IInv => TypeOK
    BY DEF IInv
  <1> QED BY Invariance, <1>1, PTL

\* Whatever refuses an open, the descriptor it had taken and flagged is back in
\* the pool, as are those of close, stat and the redirection
\* (alt_open.c:132-165, alt_io_redirect.c:66-70, alt_release_fd.c:46-50).
THEOREM DescriptorsReleased == Spec => []ReturnedToPool
  <1>1. IInv => ReturnedToPool
    BY DEF IInv
  <1> QED BY Invariance, <1>1, PTL

\* No call changes what another descriptor of the program means.
THEOREM MeaningKept == Spec => []KeepsMeaning
  <1>1. IInv => KeepsMeaning
    BY DEF IInv
  <1> QED BY Invariance, <1>1, PTL

\* A lock keeps every further open out of its device (alt_open.c:79-87).
THEOREM LocksKeepOut == Spec => LockKeepsOut
  <1>1. IInv /\ [Next]_vars => [KeepsOut]_vars
    BY StepKeeps
  <1> QED BY Invariance, <1>1, PTL DEF Spec, LockKeepsOut, KeepsOut
-----------------------------------------------------------------------------
(* Opens and closes.                                                        *)

\* The descriptors of the program on a driver: what OpensMatchCloses counts.
On(d) == {fd \in held : alt_fd_list[fd].dev = d}

\* A driver whose opens and closes are counted.
IsCounted(d) == {"open", "close"} \subseteq Provides[d]

\* The standard descriptors alt_io_redirect has still to come to ...
Waiting ==
    IF boot \in {"alt_sys_init", "stdout"} THEN Stdio
    ELSE IF boot = "stdin" THEN {0, 2}
    ELSE IF boot = "stderr" THEN {2}
    ELSE {}

\* ... are on the null device, which nobody counts.
NotYet == \A fd \in Waiting : fd \in held /\ alt_fd_list[fd].dev = alt_dev_null

Balanced == TypeOK /\ NotYet /\ OpensMatchCloses

LEMMA NullNotCounted == ~IsCounted(alt_dev_null)
  BY DriverAssumption DEF IsCounted

LEMMA OnFinite ==
    ASSUME held \subseteq Fd, NEW d
    PROVE  IsFiniteSet(On(d)) /\ Cardinality(On(d)) \in Nat
  <1>1. IsFiniteSet(Fd)
    BY FS_Interval, PoolAssumption DEF Fd
  <1>2. On(d) \subseteq Fd
    BY DEF On
  <1> QED BY <1>1, <1>2, FS_Subset, FS_CardinalityType

\* Neither the descriptors nor the counts change.
LEMMA SameBalance ==
    ASSUME OpensMatchCloses, boot # "exit", held \subseteq Fd, UNCHANGED <<held, users>>,
           \A g \in Fd : alt_fd_list'[g].dev = alt_fd_list[g].dev
    PROVE  OpensMatchCloses'
  <1>1. \A d : On(d)' = On(d)
    BY DEF On
  <1> QED BY <1>1 DEF OpensMatchCloses, On

\* The program gets one descriptor more on one driver, from no driver or from
\* one nobody counts.
LEMMA OneMore ==
    ASSUME TypeOK, OpensMatchCloses, boot # "exit", held' \subseteq Fd,
           NEW fd \in Fd, NEW d \in Driver,
           held' = held \cup {fd}, users' = Counted(d, 1), alt_fd_list'[fd].dev = d,
           fd \in held => ~IsCounted(alt_fd_list[fd].dev),
           \A g \in held : g # fd => alt_fd_list'[g].dev = alt_fd_list[g].dev
    PROVE  OpensMatchCloses'
  <1> SUFFICES ASSUME NEW e \in Driver, IsCounted(e)
               PROVE  users'[e] = Cardinality(On(e)')
    BY DEF OpensMatchCloses, On, IsCounted
  <1>1. users[e] = Cardinality(On(e)) /\ users \in [Driver -> Int]
    BY DEF OpensMatchCloses, On, IsCounted, TypeOK
  <1>2. CASE e = d
    <2>1. fd \notin On(e) /\ On(e)' = On(e) \cup {fd}
      BY <1>2 DEF On
    <2>2. Cardinality(On(e)') = Cardinality(On(e)) + 1
      <3>1. IsFiniteSet(On(e)) /\ Cardinality(On(e)) \in Nat
        BY OnFinite DEF TypeOK
      <3> HIDE DEF On
      <3> QED BY <2>1, <3>1, FS_AddElement
    <2>3. users'[e] = users[e] + 1
      BY <1>1, <1>2 DEF Counted, IsCounted
    <2> QED BY <1>1, <2>2, <2>3
  <1>3. CASE e # d
    <2>1. On(e)' = On(e)
      BY <1>3 DEF On
    <2>2. users'[e] = users[e]
      BY <1>1, <1>3 DEF Counted
    <2> QED BY <1>1, <2>1, <2>2
  <1> QED BY <1>2, <1>3

\* The program gives one up.
LEMMA OneLess ==
    ASSUME TypeOK, OpensMatchCloses, boot # "exit",
           NEW fd \in held, alt_fd_list[fd].dev \in Driver,
           held' = held \ {fd}, users' = Counted(alt_fd_list[fd].dev, -1),
           \A g \in held : g # fd => alt_fd_list'[g].dev = alt_fd_list[g].dev
    PROVE  OpensMatchCloses'
  <1> DEFINE d == alt_fd_list[fd].dev
  <1> SUFFICES ASSUME NEW e \in Driver, IsCounted(e)
               PROVE  users'[e] = Cardinality(On(e)')
    BY DEF OpensMatchCloses, On, IsCounted
  <1>1. users[e] = Cardinality(On(e)) /\ users \in [Driver -> Int]
    BY DEF OpensMatchCloses, On, IsCounted, TypeOK
  <1>2. CASE e = d
    <2>1. fd \in On(e) /\ On(e)' = On(e) \ {fd}
      BY <1>2 DEF On
    <2>2. Cardinality(On(e)') = Cardinality(On(e)) - 1
      <3>1. IsFiniteSet(On(e)) /\ Cardinality(On(e)) \in Nat
        BY OnFinite DEF TypeOK
      <3> HIDE DEF On
      <3> QED BY <2>1, <3>1, FS_RemoveElement
    <2>3. users'[e] = users[e] - 1
      BY <1>1, <1>2 DEF Counted, IsCounted
    <2> QED BY <1>1, <2>2, <2>3
  <1>3. CASE e # d
    <2>1. On(e)' = On(e)
      BY <1>3 DEF On
    <2>2. users'[e] = users[e]
      BY <1>1, <1>3 DEF Counted
    <2> QED BY <1>1, <2>1, <2>2
  <1> QED BY <1>2, <1>3

LEMMA BalancedInitially == Init => Balanced
  <1> SUFFICES ASSUME Init PROVE Balanced
    OBVIOUS
  <1>1. TypeOK /\ \A fd \in Stdio : fd \in held /\ alt_fd_list[fd].dev = alt_dev_null
    BY Initially, FdFacts DEF IInv, Init
  <1>2. NotYet
    BY <1>1 DEF NotYet, Waiting, Init
  <1>3. OpensMatchCloses
    <2> SUFFICES ASSUME NEW d \in Driver, IsCounted(d)
                 PROVE  users[d] = Cardinality(On(d))
      BY DEF OpensMatchCloses, On, IsCounted
    <2>1. On(d) = {}
      BY <1>1, NullNotCounted DEF On, Init
    <2> QED BY <2>1, FS_EmptySet DEF Init
  <1> QED BY <1>1, <1>2, <1>3 DEF Balanced

\* alt_open_fd moves a standard descriptor from the null device to the driver
\* it has opened, or leaves everything.
LEMMA RedirectBalance ==
    ASSUME IInv, Balanced, NEW fd \in Waiting, NEW acc \in {"r", "w"},
           alt_open_fd(fd, acc), UNCHANGED held, boot # "exit"
    PROVE  /\ OpensMatchCloses'
           /\ \A g \in held : g # fd => alt_fd_list'[g].dev = alt_fd_list[g].dev
  <1> DEFINE dev == Resolved(StdioName[fd])
  <1>0. acc \in Access
    BY PoolAssumption
  <1>1. PICK r \in Opens(StdioName[fd], acc) :
            IF r.fd = -1
            THEN alt_fd_list' = r.list /\ UNCHANGED <<users, opened>>
            ELSE /\ alt_fd_list' = [r.list EXCEPT
                         ![fd] = OpenedAs(fd, r.list[r.fd]),
                         ![r.fd] = alt_release_fd(r.fd, r.list[r.fd])]
                 /\ users' = Counted(dev, 1)
    BY DEF alt_open_fd
  <1>2. /\ held \subseteq Fd /\ fd \in held /\ fd \in Stdio /\ fd \in Fd
        /\ alt_fd_list[fd].dev = alt_dev_null
    BY FdFacts DEF Balanced, NotYet, Waiting, TypeOK, Stdio
  <1>3. CASE r.fd = -1
    <2>1. OnlyFreeDiffer(alt_fd_list')
      BY <1>0, <1>1, <1>3, OpensFacts DEF IInv
    <2>2. \A g \in Fd : alt_fd_list'[g].dev = alt_fd_list[g].dev
      BY <2>1, SameDrivers
    <2> QED BY <1>1, <1>2, <1>3, <2>2, SameBalance DEF Balanced
  <1>4. CASE r.fd # -1
    <2> DEFINE d == r.list[r.fd]
    <2>1. /\ r.fd \in Fd \ Stdio /\ dev \in Driver /\ alt_fd_list[r.fd].dev = None
          /\ r.list \in [Fd -> Desc] /\ d.dev = dev
          /\ \A f \in Fd : f # r.fd => r.list[f] = alt_fd_list[f]
      BY <1>0, <1>4, OpensFacts DEF IInv
    <2>2. r.fd \notin held
      BY <2>1 DEF IInv, KeepsMeaning
    <2> HIDE DEF d, dev
    <2>3. alt_fd_list' = [r.list EXCEPT ![fd] = d, ![r.fd] = alt_release_fd(r.fd, d)]
      BY <1>1, <1>4 DEF OpenedAs, d
    <2>4. /\ alt_fd_list'[fd] = d
          /\ \A g \in held : g # fd => alt_fd_list'[g] = alt_fd_list[g]
      BY <1>2, <2>1, <2>2, <2>3
    <2>5. users' = Counted(dev, 1) /\ held' = held \cup {fd}
      BY <1>1, <1>2, <1>4
    <2>6. OpensMatchCloses'
      BY <1>2, <2>1, <2>4, <2>5, OneMore, NullNotCounted DEF Balanced
    <2> QED BY <2>4, <2>6
  <1> QED BY <1>3, <1>4

\* Every step keeps the count.
LEMMA StepBalances == ASSUME IInv, Balanced, [Next]_vars PROVE Balanced'
  <1>1. TypeOK'
    BY StepKeeps DEF IInv
  <1>2. held \subseteq Fd /\ held' \subseteq Fd
    BY <1>1 DEF Balanced, TypeOK
  <1>3. ASSUME boot # "exit", boot' # "exit" => Waiting' \subseteq Waiting,
               UNCHANGED <<held, users>>,
               \A g \in Fd : alt_fd_list'[g].dev = alt_fd_list[g].dev
        PROVE  boot' # "exit" => Balanced'
    <2>1. OpensMatchCloses'
      BY <1>2, <1>3, SameBalance DEF Balanced
    <2>2. boot' # "exit" => NotYet'
      BY <1>2, <1>3 DEF Balanced, NotYet
    <2> QED BY <1>1, <2>1, <2>2 DEF Balanced
  <1>4. ASSUME boot' = "exit" PROVE Balanced'
    BY <1>1, <1>4 DEF Balanced, NotYet, Waiting, OpensMatchCloses
  <1>5. ASSUME boot' = "main", OpensMatchCloses' PROVE Balanced'
    BY <1>1, <1>5 DEF Balanced, NotYet, Waiting
  <1>6. CASE \/ \E d \in Device : RegisterDevice(d)
             \/ \E f \in FileSystem : RegisterFileSystem(f)
             \/ SysInitDone \/ BadCall
    <2>1. UNCHANGED <<pool, history>> /\ boot # "exit"
      BY <1>6 DEF RegisterDevice, RegisterFileSystem, SysInitDone, BadCall
    <2>2. Waiting' \subseteq Waiting
      BY <1>6 DEF RegisterDevice, RegisterFileSystem, SysInitDone, BadCall, Waiting, Stdio
    <2> QED BY <1>3, <1>4, <2>1, <2>2 DEF pool, history
  <1>7. CASE UNCHANGED vars
    <2>1. UNCHANGED <<pool, history, boot>>
      BY <1>7 DEF vars
    <2>2. CASE boot = "exit"
      BY <1>4, <2>1, <2>2
    <2>3. CASE boot # "exit"
      BY <1>3, <2>1, <2>3 DEF pool, history, Waiting
    <2> QED BY <2>2, <2>3
  <1>8. CASE alt_io_redirect
    <2>1. PICK fd \in Waiting, acc \in {"r", "w"} : alt_open_fd(fd, acc) /\ Waiting' \subseteq Waiting \ {fd}
      BY <1>8 DEF alt_io_redirect, Waiting, Stdio
    <2>2. UNCHANGED held /\ boot # "exit"
      BY <1>8 DEF alt_io_redirect
    <2>3. /\ OpensMatchCloses'
          /\ \A g \in held : g # fd => alt_fd_list'[g].dev = alt_fd_list[g].dev
      BY <2>1, <2>2, RedirectBalance
    <2>4. NotYet'
      BY <2>1, <2>2, <2>3 DEF NotYet, Balanced
    <2> QED BY <1>1, <2>3, <2>4 DEF Balanced
  <1>9. CASE Return
    BY <1>4, <1>9 DEF Return
  <1>10. ASSUME NEW name \in Name, NEW acc \in Access, Open(name, acc)
         PROVE  Balanced'
    <2> DEFINE dev == Resolved(name)
    <2>1. PICK r \in Opens(name, acc) :
              /\ alt_fd_list' = r.list
              /\ IF r.fd = -1
                 THEN UNCHANGED history
                 ELSE users' = Counted(dev, 1) /\ held' = held \cup {r.fd}
      BY <1>10 DEF Open
    <2>2. boot = "main" /\ boot' = "main"
      BY <1>10 DEF Open
    <2>3. CASE r.fd = -1
      <3>1. OnlyFreeDiffer(alt_fd_list')
        BY <2>1, <2>3, OpensFacts DEF IInv
      <3>2. \A g \in Fd : alt_fd_list'[g].dev = alt_fd_list[g].dev
        BY <3>1, SameDrivers
      <3> QED BY <1>2, <1>5, <2>1, <2>2, <2>3, <3>2, SameBalance DEF history, Balanced
    <2>4. CASE r.fd # -1
      <3>1. /\ r.fd \in Fd /\ dev \in Driver /\ alt_fd_list[r.fd].dev = None
            /\ alt_fd_list'[r.fd].dev = dev
            /\ \A f \in Fd : f # r.fd => alt_fd_list'[f] = alt_fd_list[f]
        BY <2>1, <2>4, OpensFacts DEF IInv
      <3>2. r.fd \notin held
        BY <3>1 DEF IInv, KeepsMeaning
      <3> HIDE DEF dev
      <3>3. OpensMatchCloses'
        BY <1>2, <2>1, <2>2, <2>4, <3>1, <3>2, OneMore DEF Balanced
      <3> QED BY <1>5, <2>2, <3>3
    <2> QED BY <2>3, <2>4
  <1>11. ASSUME \/ \E fd \in Fd : Call(fd)
                \/ \E name \in Name : Stat(name)
         PROVE  Balanced'
    <2>1. /\ boot = "main" /\ boot' = "main" /\ UNCHANGED <<held, users>>
          /\ \A g \in Fd : alt_fd_list'[g].dev = alt_fd_list[g].dev
      BY <1>11, CallStep, StatStep DEF Call, Stat, history
    <2> QED BY <1>2, <1>5, <2>1, SameBalance DEF Balanced
  <1>12. ASSUME NEW fd \in held \cap Used, boot = "main", Close(fd), UNCHANGED boot
         PROVE  Balanced'
    <2>1. /\ alt_fd_list[fd].dev \in Driver /\ held' = held \ {fd}
          /\ users' = Counted(alt_fd_list[fd].dev, -1)
      BY <1>2, <1>12 DEF Close, IInv, KeepsMeaning, TypeOK
    <2>2. \A g \in held : g # fd => alt_fd_list'[g].dev = alt_fd_list[g].dev
      BY <1>2, <1>12 DEF Close, IInv, TypeOK
    <2>3. OpensMatchCloses'
      BY <1>12, <2>1, <2>2, OneLess DEF Balanced
    <2> QED BY <1>5, <1>12, <2>3
  <1> QED BY <1>6, <1>7, <1>8, <1>9, <1>10, <1>11, <1>12 DEF Next

\* While the program runs every driver has been closed as often as it was
\* opened, less the descriptors on it: whatever fails, and whether stdio was
\* redirected or not (alt_open.c:153-166, alt_close.c:82-95,
\* alt_io_redirect.c:60-71).
THEOREM ClosedAsOpened == Spec => []OpensMatchCloses
  <1>1. Balanced => OpensMatchCloses
    BY DEF Balanced
  <1>2. IInv /\ Balanced /\ [Next]_vars => Balanced'
    BY StepBalances
  <1> QED BY Invariance, BalancedInitially, <1>1, <1>2, PTL DEF Spec
=============================================================================
