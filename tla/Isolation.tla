------------------------------ MODULE Isolation ------------------------------
(***************************************************************************)
(* src/runtime/runner_child.cpp with child_shm.cpp, proc.cpp and the start *)
(* of child/gpi_child_main.cpp: how the host, run with isolation = true,   *)
(* brings a plugin up in a process of its own.  Host and child share the   *)
(* response ring; the host loads when the user asks for it and unloads on  *)
(* its way out.  The frame protocol that follows a successful load is not  *)
(* here: no load is successful.                                            *)
(***************************************************************************)
EXTENDS Integers, Sequences

CONSTANTS
  SystemFails, \* whether shm_open, mmap, pipe, fork and execl may fail
  PluginFails, \* whether the plugin's library may be refused by the child
  MaxLoads     \* bound: how often the user asks for a load

VARIABLES
  hpc,       \* where RunnerChild is: "ready" between its operations
  ret,       \* what its last load() returned
  rsp,       \* the response ring of the current block, oldest message first
  block,     \* shm_: "none", "mapped", "unmapped" when it dangles
  child,     \* the child of the current block: where its main() is
  argv,      \* the options that process was started with
  sound,     \* whether everything load() asked of the system worked
  loads      \* loads so far

vars == <<hpc, ret, rsp, block, child, argv, sound, loads>>
childVars == <<child, argv>>

Options == {"--shm", "--lib", "--work"}

\* What reaches the child of the arguments handed to spawn_child(): its execl()
\* names the program and ends there.
Passed(args) == {}

Init ==
  /\ hpc = "ready"
  /\ ret = FALSE
  /\ rsp = <<>>
  /\ block = "none"
  /\ child = "none"
  /\ argv = {}
  /\ sound = TRUE
  /\ loads = 0

Return(ok) == hpc' = "ready" /\ ret' = ok
-----------------------------------------------------------------------------
(* RunnerChild::load *)

\* shm::create_host: a fresh block with empty rings takes the place of the old
\* one, which stays mapped; what a child of that one answers is not read here.
CreateHost ==
  /\ hpc = "ready"
  /\ loads < MaxLoads
  /\ loads' = loads + 1
  /\ \/ /\ block' = "mapped" /\ rsp' = <<>>
        /\ child' = "none" /\ argv' = {}
        /\ hpc' = "spawn"
        /\ sound' = TRUE
        /\ UNCHANGED ret
     \/ /\ SystemFails
        /\ Return(FALSE)
        /\ sound' = FALSE
        /\ UNCHANGED <<block, rsp, childVars>>

\* proc::spawn_child: pipes and fork; a child that is there already is
\* forgotten, not stopped.
Spawn ==
  /\ hpc = "spawn"
  /\ \/ /\ child' = "forked" /\ argv' = Passed(Options)
        /\ hpc' = "read"
        /\ UNCHANGED <<ret, sound>>
     \/ /\ SystemFails
        /\ Return(FALSE)
        /\ sound' = FALSE
        /\ UNCHANGED childVars
  /\ UNCHANGED <<rsp, block, loads>>

\* shm::read_msg looks at the ring once and waits for nothing.
ReadInitResponse ==
  /\ hpc = "read"
  /\ IF rsp = <<>>
       THEN Return(FALSE) /\ UNCHANGED rsp
       ELSE Return(Head(rsp) = "ok") /\ rsp' = Tail(rsp)
  /\ UNCHANGED <<block, childVars, sound, loads>>

\* shm::destroy_host unmaps the block and leaves shm_ pointing at it.
DestroyHost ==
  /\ block' = IF block = "mapped" THEN "unmapped" ELSE block
  /\ rsp' = <<>>

\* proc::kill_child: SIGTERM, then waitpid.
KillChild == child' = "none"

\* RunnerChild::unload, on the way out.
Unload ==
  /\ hpc = "ready"
  /\ hpc' = "ended"
  /\ DestroyHost
  /\ KillChild
  /\ UNCHANGED <<ret, argv, sound, loads>>
-----------------------------------------------------------------------------
(* The child process *)

Exec ==
  /\ child = "forked"
  /\ \/ child' = "main" /\ UNCHANGED sound
     \/ SystemFails /\ child' = "exited" /\ sound' = FALSE
  /\ UNCHANGED <<hpc, ret, rsp, block, argv, loads>>

\* main() without a shared memory name or a library returns 1.
ParseArguments ==
  /\ child = "main"
  /\ child' = IF {"--shm", "--lib"} \subseteq argv THEN "opening" ELSE "exited"
  /\ UNCHANGED <<hpc, ret, rsp, block, argv, sound, loads>>

\* open_child() maps the head of the block, closes its descriptor, and then
\* hands the closed descriptor to the mmap() of the whole block.
WholeBlockMaps == FALSE

\* The sandbox is entered and shm::open_child maps the block by its name; a
\* child that cannot returns 1.
OpenBlock ==
  /\ child = "opening"
  /\ \/ WholeBlockMaps /\ child' = "loading" /\ UNCHANGED sound
     \/ ~WholeBlockMaps /\ child' = "exited" /\ UNCHANGED sound
     \/ SystemFails /\ child' = "exited" /\ sound' = FALSE
  /\ UNCHANGED <<hpc, ret, rsp, block, argv, loads>>

\* The library, its three required symbols and gpi_init.
LoadPlugin ==
  /\ child = "loading"
  /\ \/ child' = "answering" /\ UNCHANGED sound
     \/ PluginFails /\ child' = "exited" /\ sound' = FALSE
  /\ UNCHANGED <<hpc, ret, rsp, block, argv, loads>>

\* send_rsp, once the plugin is ready; the ring has room for it.
SendInitResponse ==
  /\ child = "answering"
  /\ child' = "serving"
  /\ rsp' = Append(rsp, "ok")
  /\ UNCHANGED <<hpc, ret, block, argv, sound, loads>>

ChildStep ==
  Exec \/ ParseArguments \/ OpenBlock \/ LoadPlugin \/ SendInitResponse

TheEnd == hpc = "ended" /\ UNCHANGED vars

Next == CreateHost \/ Spawn \/ ReadInitResponse \/ Unload \/ ChildStep \/ TheEnd

Spec == Init /\ [][Next]_vars
-----------------------------------------------------------------------------
(* Correctness *)

\* "run plugin loop in a separate process": a load() during which the system
\* and the plugin do nothing wrong returns true.
IsolatedLoadSucceeds == hpc = "ready" /\ loads > 0 /\ sound => ret
=============================================================================
