------------------------------ MODULE Watchdog ------------------------------
(***************************************************************************)
(* The second process of a running server.  SystemMonitor::init forks; the *)
(* child, runWatchdog, copies what arrives in a pipe to the log file and   *)
(* ends when it finds its parent gone.  SystemMonitor::log of the server   *)
(* writes an entry into that pipe.                                         *)
(*                                                                         *)
(* The POSIX branch.  An entry is followed through the pipe by tagging one *)
(* of the entries that any behaviour logs.                                 *)
(***************************************************************************)
EXTENDS Naturals, Sequences

CONSTANTS
  PipeCap,     \* entries a pipe holds: 64 KiB of them
  Platforms    \* where the server may run: records of three BOOLEANs
               \*   pid1: it is process 1, as the only program of a container is
               \*   subreaper: orphans are adopted by another process than 1
               \*   eof_readable: poll reports POLLIN at the end of a pipe

ASSUME WatchdogAssumption ==
  /\ PipeCap \in Nat \ {0}
  /\ Platforms \subseteq [pid1 : BOOLEAN, subreaper : BOOLEAN, eof_readable : BOOLEAN]

VARIABLES
  platform,    \* where this server runs
  server,      \* "running", "zombie" until its parent has waited for it, "gone"
  s_write_fd,  \* TRUE: the write end of the pipe, FALSE: -1
  pipe,        \* Seq({"entry", "tagged"})
  tagged,      \* the tagged entry: "unlogged", "piped", "written" or "lost"
  watchdog,    \* "none", or where it is: "starting", "poll", "check", "ended"
  watched      \* main_pid is the server's

wdVars == <<platform, server, s_write_fd, pipe, tagged, watchdog, watched>>

WdInit ==
  /\ platform \in Platforms
  /\ server = "running" /\ s_write_fd = FALSE
  /\ pipe = <<>> /\ tagged = "unlogged"
  /\ watchdog = "none" /\ watched = FALSE

\* init; without a pipe or a second process the server goes on alone.
Fork ==
  /\ \/ s_write_fd' = TRUE /\ watchdog' = "starting"
     \/ UNCHANGED <<s_write_fd, watchdog>>
  /\ UNCHANGED <<platform, server, pipe, tagged, watched>>

\* Faulty: drops an entry when the pipe is full.
LogOrDrop ==
  \E e \in {"entry"} \cup (IF tagged = "unlogged" THEN {"tagged"} ELSE {}) :
     /\ pipe' = IF s_write_fd /\ Len(pipe) < PipeCap THEN Append(pipe, e) ELSE pipe
     /\ tagged' = IF e = "entry" THEN tagged
                  ELSE IF ~ s_write_fd THEN "written"
                  ELSE IF Len(pipe) < PipeCap THEN "piped" ELSE "lost"
     /\ UNCHANGED <<platform, server, s_write_fd, watchdog, watched>>

\* log: write waits for room in the pipe, and fails at once (EPIPE, SIGPIPE is
\* ignored) when the watchdog has closed the other end.
Log ==
  \E e \in {"entry"} \cup (IF tagged = "unlogged" THEN {"tagged"} ELSE {}) :
     IF ~ s_write_fd \/ watchdog = "ended"
     THEN /\ tagged' = IF e = "entry" THEN tagged
                       ELSE IF s_write_fd THEN "lost" ELSE "written"
          /\ UNCHANGED <<platform, server, s_write_fd, pipe, watchdog, watched>>
     ELSE /\ Len(pipe) < PipeCap
          /\ pipe' = Append(pipe, e)
          /\ tagged' = IF e = "entry" THEN tagged ELSE "piped"
          /\ UNCHANGED <<platform, server, s_write_fd, watchdog, watched>>

\* The server ends, and with process 1 everything does.
Die ==
  /\ server' = "zombie"
  /\ watchdog' = IF platform.pid1 /\ watchdog # "none" THEN "ended" ELSE watchdog
  /\ UNCHANGED <<platform, s_write_fd, pipe, tagged, watched>>

Reap ==
  /\ server = "zombie" /\ server' = "gone"
  /\ UNCHANGED <<platform, s_write_fd, pipe, tagged, watchdog, watched>>

-----------------------------------------------------------------------------
(* runWatchdog *)

\* Its argument is the parent it has by now.
StartWatchdog ==
  /\ watchdog = "starting" /\ watchdog' = "poll"
  /\ watched' = (server = "running")
  /\ UNCHANGED <<platform, server, s_write_fd, pipe, tagged>>

\* One read of at most 1023 bytes: the first k entries.
Read ==
  /\ watchdog = "poll"
  /\ \E k \in 1 .. Len(pipe) :
        /\ pipe' = SubSeq(pipe, k + 1, Len(pipe))
        /\ tagged' = IF \E i \in 1 .. k : pipe[i] = "tagged" THEN "written" ELSE tagged
  /\ watchdog' = "check"
  /\ UNCHANGED <<platform, server, s_write_fd, watched>>

\* Nothing to read: poll times out or reports POLLHUP, or read returns 0.
NothingRead ==
  /\ watchdog = "poll" /\ pipe = <<>>
  /\ watchdog' = IF server # "running" /\ platform.eof_readable THEN "ended" ELSE "check"
  /\ UNCHANGED <<platform, server, s_write_fd, pipe, tagged, watched>>

\* Faulty: asks for the pid only.
NoSuchProcess == watched /\ server = "gone"

\* getppid() == 1, or kill(main_pid, 0) finds no process.
Orphaned ==
  \/ IF server = "running" THEN platform.pid1 ELSE ~ platform.subreaper
  \/ watched /\ server = "gone"

\* What is left in the pipe is lost.
Check ==
  /\ watchdog = "check"
  /\ watchdog' = IF Orphaned THEN "ended" ELSE "poll"
  /\ tagged' = IF Orphaned /\ tagged = "piped" THEN "lost" ELSE tagged
  /\ UNCHANGED <<platform, server, s_write_fd, pipe, watched>>

WatchdogStep == StartWatchdog \/ Read \/ NothingRead \/ Check

-----------------------------------------------------------------------------
(* Properties *)

WdTypeOK ==
  /\ platform \in Platforms
  /\ server \in {"running", "zombie", "gone"}
  /\ s_write_fd \in BOOLEAN /\ watched \in BOOLEAN
  /\ pipe \in Seq({"entry", "tagged"}) /\ Len(pipe) <= PipeCap
  /\ tagged \in {"unlogged", "piped", "written", "lost"}
  /\ watchdog \in {"none", "starting", "poll", "check", "ended"}

\* An entry is lost only after the server has ended, or where it is process 1
\* (log, runWatchdog): a full pipe, an end of the pipe that nobody reads from,
\* and a watchdog that takes its parent for gone lose nothing before.
NotLostWhileRunning == tagged = "lost" => server # "running" \/ platform.pid1

\* An entry is written once, and what is lost is never written after all: no
\* entry is both in the file and in the pipe (log, runWatchdog).
FateIsFinal == [][(tagged \in {"written", "lost"}) => tagged' = tagged]_wdVars

\* An entry that was logged reaches the log file, however full the pipe was,
\* while the server runs (init, log, runWatchdog); not when the server is
\* process 1, which the watchdog takes for a sign that it is an orphan.
LoggedIsWritten ==
  (tagged # "unlogged") ~> (tagged = "written" \/ server # "running" \/ platform.pid1)

\* The watchdog does not stay behind (runWatchdog): it ends after the server is
\* gone, or is no more its parent because process 1 is.  The exception is a
\* server that ended before its child asked for its pid, with a subreaper.
WatchdogFollowsServer ==
  (\/ server = "zombie" /\ ~ platform.subreaper
   \/ server = "gone" /\ (watched \/ ~ platform.subreaper))
     ~> watchdog \in {"none", "ended"}
=============================================================================
