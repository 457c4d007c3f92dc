----------------------------- MODULE AgentSpawn -----------------------------
(* How commands find, start and stop the project's agent through the path of *)
(* its socket (agent/client.rs, agent/daemon.rs, cli/mod.rs).  A path is all  *)
(* they share: whoever takes it for stale removes whatever is there now, and  *)
(* a daemon whose socket was removed goes on running where nobody reaches it. *)
EXTENDS Naturals

CONSTANTS
    Clients,     \* commands that may run at the same time
    Daemons,     \* agent processes, at most one per spawn
    Nobody,      \* no socket file, no pid file
    Ops,         \* the commands: login, logout, stop
    MaxOps,      \* commands started
    MaxFaults    \* daemons that crash

SpawnAssumption ==
    /\ Nobody \notin Daemons /\ Ops \subseteq {"login", "logout", "stop"}
    /\ {MaxOps, MaxFaults} \subseteq Nat

VARIABLES
    sock,       \* the daemon whose socket is at the path
    pid,        \* the daemon named in the pid file
    daemon,     \* where each process is
    unlocked,   \* the daemons that hold keys in memory
    client,     \* the running commands
    ops, faults \* counters

vars == <<sock, pid, daemon, unlocked, client, ops, faults>>
paths == <<sock, pid>>
agents == <<daemon, unlocked>>

Idle == [op |-> "none", pc |-> "idle", to |-> Nobody]

Init ==
    /\ daemon \in [Daemons -> {"unborn", "dead"}]
    /\ sock \in {d \in Daemons : daemon[d] = "dead"} \union {Nobody}
    /\ \A d \in Daemons : daemon[d] = "dead" => sock = d
    /\ pid = sock /\ unlocked = {}
    /\ client = [c \in Clients |-> Idle] /\ ops = 0 /\ faults = 0

Live == {d \in Daemons : daemon[d] \notin {"unborn", "dead"}}
\* A daemon answers while it accepts.
Answers(d) == d \in {e \in Daemons : daemon[e] = "serving"}

\* Mutant of Refuses: the listener is closed before the socket file is removed.
RefusesClosing(d) == d \notin {e \in Daemons : daemon[e] = "serving"}

\* One that is closing keeps its listener until its socket file is gone, so
\* that a caller waits.
Refuses(d) == d \notin {e \in Daemons : daemon[e] \in {"serving", "closing"}}

Go(c, pc) == client' = [client EXCEPT ![c].pc = pc]
GoTo(c, pc, d) == client' = [client EXCEPT ![c].pc = pc, ![c].to = d]
End(c) == client' = [client EXCEPT ![c] = Idle]
Become(d, pc) == daemon' = [daemon EXCEPT ![d] = pc]

-----------------------------------------------------------------------------
(* A command *)

Start(c, op) ==
    /\ client[c] = Idle /\ ops < MaxOps /\ ops' = ops + 1
    /\ client' = [client EXCEPT ![c] = [op |-> op, pc |-> "look", to |-> Nobody]]
    /\ UNCHANGED <<paths, agents, faults>>

\* connect_or_spawn: a socket is pinged.  stop only connects.
Look(c) ==
    /\ client[c].pc = "look"
    /\ IF client[c].op = "stop"
         THEN IF sock = Nobody THEN End(c) ELSE Go(c, "connect")
         ELSE Go(c, IF sock = Nobody THEN "again" ELSE "ping")
    /\ UNCHANGED <<paths, agents, ops, faults>>

Ping(c) ==
    /\ client[c].pc = "ping"
    /\ \/ Answers(sock) /\ Go(c, "connect")
       \/ Refuses(sock) /\ Go(c, "again")
    /\ UNCHANGED <<paths, agents, ops, faults>>

\* It looks a second time, and a socket it finds now is stale to it without a
\* ping, even one that was bound since it saw none.
LookAgain(c) ==
    /\ client[c].pc = "again"
    /\ Go(c, IF sock = Nobody THEN "spawn" ELSE "stale")
    /\ UNCHANGED <<paths, agents, ops, faults>>

\* Whatever is at the path now is removed.
RemoveStale(c) ==
    /\ client[c].pc = "stale" /\ sock' = Nobody
    /\ IF client[c].op = "stop" THEN End(c) ELSE Go(c, "spawn")
    /\ UNCHANGED <<pid, agents, ops, faults>>

Spawn(c) ==
    /\ client[c].pc = "spawn"
    /\ \E d \in Daemons : daemon[d] = "unborn" /\ Become(d, "start") /\ GoTo(c, "wait", d)
    /\ UNCHANGED <<paths, unlocked, ops, faults>>

\* Mutant of Wait: only the daemon that was spawned will do.
WaitOwn(c) ==
    /\ client[c].pc = "wait" /\ Answers(sock) /\ sock = client[c].to /\ Go(c, "connect")
    /\ UNCHANGED <<paths, agents, ops, faults>>

\* The loop that waits for any agent to answer.
Wait(c) ==
    /\ client[c].pc = "wait" /\ Answers(sock) /\ Go(c, "connect")
    /\ UNCHANGED <<paths, agents, ops, faults>>

\* connect, once more: it may fail, or reach another agent.
Connect(c) ==
    /\ client[c].pc = "connect"
    /\ \/ ~Refuses(sock) /\ GoTo(c, "request", sock)
       \/ Refuses(sock) /\ IF client[c].op = "stop" THEN Go(c, "stale") ELSE End(c)
    /\ UNCHANGED <<paths, agents, ops, faults>>

\* The request is served by whom the connection reached.
Request(c) ==
    LET d == client[c].to IN
    /\ client[c].pc = "request" /\ daemon[d] = "serving"
    /\ unlocked' = IF client[c].op = "login" THEN unlocked \union {d}
                   ELSE IF client[c].op = "logout" THEN unlocked \ {d} ELSE unlocked
    /\ IF client[c].op = "stop"
         THEN Become(d, "closing") /\ (End(c) \/ Go(c, "signal"))
         ELSE End(c) /\ UNCHANGED daemon
    /\ UNCHANGED <<paths, ops, faults>>

\* The agent went away first: stop falls back on the recorded pid.
Unanswered(c) ==
    /\ client[c].pc = "request" /\ daemon[client[c].to] = "dead"
    /\ IF client[c].op = "stop" THEN Go(c, "signal") ELSE End(c)
    /\ UNCHANGED <<paths, agents, ops, faults>>

\* signal_stop
SignalStop(c) ==
    /\ client[c].pc = "signal"
    /\ IF pid \in Live
         THEN Become(pid, "closing") /\ End(c)
         ELSE Go(c, "stale") /\ UNCHANGED daemon
    /\ UNCHANGED <<paths, unlocked, ops, faults>>

\* The 5 seconds are over: every daemon that was starting is up or dead.
TimeOut(c) ==
    /\ client[c].pc = "wait" /\ ~Answers(sock) /\ End(c)
    /\ \A d \in Live : daemon[d] \in {"serving", "closing"}
    /\ UNCHANGED <<paths, agents, ops, faults>>

-----------------------------------------------------------------------------
(* A daemon *)

\* run: where there is no socket it binds its own.
DaemonStart(d) ==
    /\ daemon[d] = "start" /\ Become(d, IF sock = Nobody THEN "bind" ELSE "ping")
    /\ UNCHANGED <<paths, unlocked, client, ops, faults>>

\* Another agent that answers is left alone.
DaemonPing(d) ==
    /\ daemon[d] = "ping"
    /\ \/ Answers(sock) /\ Become(d, "dead")
       \/ Refuses(sock) /\ Become(d, "unlink")
    /\ UNCHANGED <<paths, unlocked, client, ops, faults>>

DaemonUnlink(d) ==
    /\ daemon[d] = "unlink" /\ Become(d, "bind") /\ sock' = Nobody
    /\ UNCHANGED <<pid, unlocked, client, ops, faults>>

\* bind fails where a file is.
DaemonBind(d) ==
    /\ daemon[d] = "bind"
    /\ \/ sock = Nobody /\ sock' = d /\ pid' = d /\ Become(d, "serving")
       \/ sock # Nobody /\ Become(d, "dead") /\ UNCHANGED paths
    /\ UNCHANGED <<unlocked, client, ops, faults>>

\* The end of run: the files at the paths, whoever's they are, are removed.
DaemonExit(d) ==
    /\ daemon[d] = "closing" /\ Become(d, "dead")
    /\ sock' = Nobody /\ pid' = Nobody /\ unlocked' = unlocked \ {d}
    /\ UNCHANGED <<client, ops, faults>>

\* A crash leaves the files.
Crash(d) ==
    /\ d \in Live /\ Become(d, "dead") /\ unlocked' = unlocked \ {d}
    /\ faults < MaxFaults /\ faults' = faults + 1
    /\ UNCHANGED <<paths, client, ops>>

Command(c) ==
    \/ Look(c) \/ Ping(c) \/ LookAgain(c) \/ RemoveStale(c) \/ Spawn(c) \/ Wait(c)
    \/ Connect(c) \/ TimeOut(c) \/ Request(c) \/ Unanswered(c) \/ SignalStop(c)

Agent(d) ==
    \/ DaemonStart(d) \/ DaemonPing(d) \/ DaemonUnlink(d) \/ DaemonBind(d)
    \/ DaemonExit(d)

Next ==
    \/ \E c \in Clients : (\E op \in Ops : Start(c, op)) \/ Command(c)
    \/ \E d \in Daemons : Agent(d) \/ Crash(d)

Spec == Init /\ [][Next]_vars

\* Processes run on.
FairSpec == Spec /\ (\A c \in Clients : WF_vars(Command(c))) /\ WF_vars(\E d \in Daemons : Agent(d))

-----------------------------------------------------------------------------
(* Properties *)

TypeOK ==
    /\ {sock, pid} \subseteq Daemons \union {Nobody} /\ unlocked \subseteq Live
    /\ \A d \in Daemons : daemon[d] \in {"unborn", "start", "ping", "unlink", "bind"} => sock # d
    /\ \A c \in Clients : client[c].pc = "request" => client[c].to \in Daemons

\* Commands one after the other are all served by one agent, whatever crashes
\* and stops among them: a second one that starts gives way.
OneAgent == \A d, e \in Daemons : {daemon[d], daemon[e]} \subseteq {"serving"} => d = e

Busy(c) == client[c].pc # "idle"

\* Commands that start together over a missing or stale socket all come to an
\* end, even one that removed, unpinged, the socket another command's agent had
\* just bound, and the one whose agent lost its socket: each takes whichever
\* agent has the path, and gives up where none answers.  (That one agent
\* remains is not said: one whose socket was removed goes on unreachable.)
EveryCommandEnds == \A c \in Clients : Busy(c) ~> ~Busy(c)
=============================================================================
