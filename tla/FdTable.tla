------------------------------- MODULE FdTable -------------------------------
(***************************************************************************)
(* The descriptor table of src/kernel/fd.c with its clients dup, dup2 and  *)
(* dev_tty_install_std.  A file is a model value; its reference count is   *)
(* the field refcnt; open holds the files whose close operation has not    *)
(* run since they were installed (not in the code).                        *)
(***************************************************************************)
EXTENDS Integers, FiniteSets

CONSTANTS MAX_FD,         \* 64
          Files,          \* file_t objects
          tty_in, tty_out,\* the two of dev_tty.c
          NULL

ASSUME FdAssumption ==
    /\ MAX_FD \in Nat \ {0, 1, 2}
    /\ {tty_in, tty_out} \subseteq Files /\ tty_in # tty_out
    /\ NULL \notin Files

VARIABLES g_fds, refcnt, open, booted

fdVars == <<g_fds, refcnt, open, booted>>

Fds == 0..(MAX_FD - 1)

\* Descriptors a caller may pass, the two invalid ones beside the range too.
AnyFd == -1..MAX_FD

fd_get(fd) == IF fd \in Fds THEN g_fds[fd] ELSE NULL

\* The first free slot, as a set: empty when the table is full.
FirstFree(t) == {i \in Fds : t[i] = NULL /\ \A j \in 0..(i - 1) : t[j] # NULL}

FdInit ==
    /\ g_fds = [i \in Fds |-> NULL]
    /\ refcnt = [f \in Files |-> 0]
    /\ open = {}
    /\ booted = FALSE

-----------------------------------------------------------------------------
(***************************************************************************)
(* dev_tty_install_std: the console's two files in slots 0 and 1.          *)
(***************************************************************************)
dev_tty_install_std ==
    /\ ~booted
    /\ booted' = TRUE
    /\ \E i \in FirstFree(g_fds) :
         \E j \in FirstFree([g_fds EXCEPT ![i] = tty_in]) :
           g_fds' = [g_fds EXCEPT ![i] = tty_in, ![j] = tty_out]
    /\ refcnt' = [refcnt EXCEPT ![tty_in] = 1, ![tty_out] = 1]
    /\ open' = open \cup {tty_in, tty_out}

\* fd_install of a file that is in no slot.  A full table answers -1 and
\* changes nothing.
fd_install(f) ==
    /\ booted
    /\ \A i \in Fds : g_fds[i] # f
    /\ \E i \in FirstFree(g_fds) : g_fds' = [g_fds EXCEPT ![i] = f]
    /\ refcnt' = [refcnt EXCEPT ![f] = 1]
    /\ open' = open \cup {f}
    /\ UNCHANGED booted

\* Mutant: the close operation runs whenever a descriptor is closed.
fd_close_always(fd) ==
    /\ booted
    /\ fd_get(fd) # NULL
    /\ LET f == fd_get(fd) IN
         /\ refcnt' = [refcnt EXCEPT ![f] = IF @ > 0 THEN @ - 1 ELSE @]
         /\ open' = open \ {f}
    /\ g_fds' = [g_fds EXCEPT ![fd] = NULL]
    /\ UNCHANGED booted

fd_close(fd) ==
    /\ booted
    /\ fd_get(fd) # NULL
    /\ LET f == fd_get(fd) IN
         /\ refcnt' = [refcnt EXCEPT ![f] = IF @ > 0 THEN @ - 1 ELSE @]
         /\ open' = IF refcnt[f] = 1 THEN open \ {f} ELSE open
    /\ g_fds' = [g_fds EXCEPT ![fd] = NULL]
    /\ UNCHANGED booted

dup(oldfd) ==
    /\ booted
    /\ fd_get(oldfd) # NULL
    /\ \E i \in FirstFree(g_fds) : g_fds' = [g_fds EXCEPT ![i] = fd_get(oldfd)]
    /\ refcnt' = [refcnt EXCEPT ![fd_get(oldfd)] = @ + 1]
    /\ UNCHANGED <<open, booted>>

\* Mutant: newfd is overwritten without being closed.
dup2_no_close(oldfd, newfd) ==
    /\ booted
    /\ fd_get(oldfd) # NULL
    /\ newfd \in Fds
    /\ refcnt' = [refcnt EXCEPT ![fd_get(oldfd)] = @ + 1]
    /\ g_fds' = [g_fds EXCEPT ![newfd] = fd_get(oldfd)]
    /\ UNCHANGED <<open, booted>>

\* Mutant: newfd is not compared with MAX_FD.
dup2_unchecked(oldfd, newfd) ==
    /\ booted
    /\ fd_get(oldfd) # NULL
    /\ refcnt' = [refcnt EXCEPT ![fd_get(oldfd)] = @ + 1]
    /\ g_fds' = [i \in Fds \cup {newfd} |-> IF i = newfd THEN fd_get(oldfd) ELSE g_fds[i]]
    /\ UNCHANGED <<open, booted>>

(***************************************************************************)
(* dup2: fd_close(newfd) when it is open, then newfd takes oldfd's file,   *)
(* fetched before.  With newfd = oldfd the file is closed first and put    *)
(* back, its close operation run if this was its only descriptor.          *)
(***************************************************************************)
dup2(oldfd, newfd) ==
    /\ booted
    /\ fd_get(oldfd) # NULL
    /\ newfd \in Fds
    /\ LET f == fd_get(oldfd)
           g == fd_get(newfd)
           closed == IF g = NULL THEN refcnt
                     ELSE [refcnt EXCEPT ![g] = IF @ > 0 THEN @ - 1 ELSE @]
       IN /\ refcnt' = [closed EXCEPT ![f] = @ + 1]
          /\ open' = IF g # NULL /\ refcnt[g] = 1 THEN open \ {g} ELSE open
          /\ g_fds' = [g_fds EXCEPT ![newfd] = f]
    /\ UNCHANGED booted

FdNext ==
    \/ dev_tty_install_std
    \/ \E f \in Files : fd_install(f)
    \/ \E fd \in AnyFd : fd_close(fd)
    \/ \E fd \in AnyFd : dup(fd)
    \/ \E o, n \in AnyFd : dup2(o, n)

FdSpec == FdInit /\ [][FdNext]_fdVars

-----------------------------------------------------------------------------
FdTypeOK ==
    /\ g_fds \in [Fds -> Files \cup {NULL}]
    /\ refcnt \in [Files -> Nat]
    /\ open \subseteq Files
    /\ booted \in BOOLEAN

FdsOf(f) == {fd \in Fds : g_fds[fd] = f}

\* The count of a file is the number of descriptors that name it, whatever
\* sequence of install, close, dup and dup2 came before (fd.c, dup.c, dup2.c).
RefcntCounts == \A f \in Files : refcnt[f] = Cardinality(FdsOf(f))

\* No leak: a file whose close operation has not run is still reachable.
OpenReachable == \A f \in open : FdsOf(f) # {}

\* Counts neither leak a file nor drop one that is in use.
CountsSound == RefcntCounts /\ OpenReachable

\* The close operation runs on a file only when its last descriptor goes; the
\* one exception is dup2(fd, fd), which leaves the table as it was.
CloseOnLast ==
    [][\A f \in open \ open' : FdsOf(f)' = {} \/ g_fds' = g_fds]_fdVars

=============================================================================
