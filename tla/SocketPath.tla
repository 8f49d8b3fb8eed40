----------------------------- MODULE SocketPath -----------------------------
(***************************************************************************)
(* How a daemon comes to own its socket path and how it lets go of it: the *)
(* Go daemon's main(), server.c of the io_uring daemon, and fdrecv's       *)
(* main().  Each step is a system call on a name that another daemon       *)
(* process may be using at the same time.                                  *)
(***************************************************************************)
CONSTANTS GoDaemons,      \* the processes that are started with this path,
          UringDaemons,   \* by program
          FdrecvDaemons,
          NoFile          \* nothing at the path

Daemons == GoDaemons \cup UringDaemons \cup FdrecvDaemons

ASSUME PathAssumption ==
    /\ NoFile \notin Daemons
    /\ GoDaemons \cap UringDaemons = {} /\ GoDaemons \cap FdrecvDaemons = {}
    /\ UringDaemons \cap FdrecvDaemons = {}

VARIABLES path,      \* NoFile, or the daemon whose bind() made the socket there
          listens,   \* the daemons with a listening socket
          pc,        \* where each main() is
          refused,   \* the daemons whose last start ended because of the path
          overlap    \* history: two of them have been up since all were down

vars == <<path, listens, pc, refused, overlap>>

TypeOK ==
    /\ path \in Daemons \cup {NoFile}
    /\ listens \in SUBSET Daemons
    /\ pc \in [Daemons -> {"down", "init", "lstat", "probe", "remove", "bind", "listen",
                           "serving", "unlink", "close", "final"}]
    /\ refused \in SUBSET Daemons
    /\ overlap \in BOOLEAN

Init ==
    /\ path = NoFile
    /\ listens = {}
    /\ pc = [p \in Daemons |-> "down"]
    /\ refused = {}
    /\ overlap = FALSE

-----------------------------------------------------------------------------

Goto(p, place) == pc' = [pc EXCEPT ![p] = place]

\* The start fails.  os.Exit(1) leaves the path alone; daemon_cleanup of the io_uring
\* daemon and atexit's cleanup of fdrecv remove it.
Refuse(p) ==
    /\ Goto(p, IF p \in GoDaemons THEN "down" ELSE "final")
    /\ refused' = refused \cup {p}

\* A daemon is started, by a service manager after the end of the former one or
\* by hand next to it.  fdrecv does not look at the path before it removes it.
Start(p) ==
    LET alone == \A q \in Daemons : pc[q] = "down"
    IN  /\ pc[p] = "down"
        /\ Goto(p, CASE p \in GoDaemons -> "lstat"
                     [] p \in UringDaemons -> "init"
                     [] OTHER -> "remove")
        /\ refused' = IF alone THEN {} ELSE refused \ {p}
        /\ overlap' = ~alone
        /\ UNCHANGED <<path, listens>>

\* The io_uring daemon sets up its ring, backend and pool; if that fails it cleans up.
UringInit(p) ==
    /\ pc[p] = "init"
    /\ Goto(p, "lstat") \/ Goto(p, "final")
    /\ UNCHANGED <<path, listens, refused, overlap>>

\* os.Lstat, stat()
Lstat(p) ==
    /\ pc[p] = "lstat"
    /\ Goto(p, IF path = NoFile THEN "bind" ELSE "probe")
    /\ UNCHANGED <<path, listens, refused, overlap>>

\* The probing connect(), and what is made of its outcome: a listener means that the
\* path is in use, ECONNREFUSED that it is stale.  ENOENT means to Go that the path is
\* free, and ends the start of the io_uring daemon.  A listener with a full backlog
\* gives an error as well, and ends the start too.
Probe(p) ==
    /\ pc[p] = "probe"
    /\ \/ path \in listens /\ Refuse(p)
       \/ path \in Daemons \ listens /\ Goto(p, "remove") /\ UNCHANGED refused
       \/ path = NoFile /\ p \in GoDaemons /\ Goto(p, "bind") /\ UNCHANGED refused
       \/ path = NoFile /\ p \in UringDaemons /\ Refuse(p)
    /\ UNCHANGED <<path, listens, overlap>>

\* Faulty variant: the stale socket is left to bind().
RemoveNothing(p) ==
    /\ pc[p] = "remove"
    /\ Goto(p, "bind")
    /\ UNCHANGED <<path, listens, refused, overlap>>

\* os.Remove, unlink() of what was found stale: whatever is at the path by now.
Remove(p) ==
    /\ pc[p] = "remove"
    /\ path' = NoFile
    /\ Goto(p, "bind")
    /\ UNCHANGED <<listens, refused, overlap>>

\* net.Listen, server_create_listener: bind() makes the socket file or fails with EADDRINUSE ...
Bind(p) ==
    /\ pc[p] = "bind"
    /\ \/ /\ path = NoFile
          /\ path' = p
          /\ Goto(p, "listen")
          /\ UNCHANGED refused
       \/ path # NoFile /\ Refuse(p) /\ UNCHANGED path
    /\ UNCHANGED <<listens, overlap>>

\* Faulty variant: the stale socket is removed by name after bind().
ListenThenRemove(p) ==
    /\ pc[p] = "listen"
    /\ listens' = listens \cup {p}
    /\ path' = NoFile
    /\ Goto(p, "serving")
    /\ UNCHANGED <<refused, overlap>>

\* ... and listen() makes it answer.
Listen(p) ==
    /\ pc[p] = "listen"
    /\ listens' = listens \cup {p}
    /\ Goto(p, "serving")
    /\ UNCHANGED <<path, refused, overlap>>

\* listen() fails.  net.Listen leaves the socket file, server_create_listener removes
\* it before the cleanup does again, and fdrecv leaves that to cleanup.
ListenFails(p) ==
    /\ pc[p] = "listen"
    /\ path' = IF p \in UringDaemons THEN NoFile ELSE path
    /\ Goto(p, IF p \in GoDaemons THEN "down" ELSE "final")
    /\ UNCHANGED <<listens, refused, overlap>>

\* A SIGTERM.  Go's listener.Close() comes first; the io_uring daemon listens until
\* its connections are drained, and fdrecv until its loop sees the flag.
Shutdown(p) ==
    /\ pc[p] = "serving"
    /\ Goto(p, IF p \in GoDaemons THEN "unlink" ELSE "close")
    /\ UNCHANGED <<path, listens, refused, overlap>>

\* Go's Close unlinks the path, whatever is there ...
Unlink(p) ==
    /\ pc[p] = "unlink"
    /\ path' = NoFile
    /\ Goto(p, "close")
    /\ UNCHANGED <<listens, refused, overlap>>

\* ... and closes the socket; Go's drain begins.
Close(p) ==
    /\ pc[p] = "close"
    /\ listens' = listens \ {p}
    /\ Goto(p, "final")
    /\ UNCHANGED <<path, refused, overlap>>

\* The path is removed, by Go after its drain, up to two minutes later; main() returns.
FinalRemove(p) ==
    /\ pc[p] = "final"
    /\ path' = NoFile
    /\ Goto(p, "down")
    /\ UNCHANGED <<listens, refused, overlap>>

\* A crash or a SIGKILL leaves the path as it is.
Kill(p) ==
    /\ pc[p] # "down"
    /\ listens' = listens \ {p}
    /\ Goto(p, "down")
    /\ UNCHANGED <<path, refused, overlap>>

Next ==
    \E p \in Daemons :
        \/ Start(p) \/ UringInit(p) \/ Lstat(p) \/ Probe(p) \/ Remove(p) \/ Bind(p)
        \/ Listen(p) \/ ListenFails(p) \/ Shutdown(p) \/ Unlink(p) \/ Close(p)
        \/ FinalRemove(p) \/ Kill(p)

Spec == Init /\ [][Next]_vars

-----------------------------------------------------------------------------
(* Properties.                                                             *)

\* As long as no two of them run at once, a daemon that serves can be reached
\* at its path, however its predecessors ended: by a drain, by a crash in any
\* step of their start, or by a kill between the two removals.
ServingReachable ==
    ~overlap => \A p \in Daemons : pc[p] = "serving" => path = p /\ p \in listens

\* ... and no start is refused because of what a predecessor left behind.
NoFalseRefusal == ~overlap => refused = {}

\* A start that ends because of a live socket leaves it there, as a comment in
\* server_check_stale_socket means it to ("to avoid unlinking a live daemon's socket").
\* It does not hold of the io_uring daemon: its cleanup unlinks the path.
RefusedLeavesPath ==
    [][\A p \in Daemons : p \in refused /\ path \in listens
                          /\ pc[p] = "final" /\ pc'[p] = "down" => path' = path]_vars
=============================================================================
