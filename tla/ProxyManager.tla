---------------------------- MODULE ProxyManager ----------------------------
(***************************************************************************)
(* The proxy manager (src/proxy/src/proxy_manager/mod.rs).                 *)
(*                                                                         *)
(* Every CONFIG_CHECK_INTERVAL the manager loads the proxy config file,    *)
(* asks the chain for the list of proxies, and, if the list differs from   *)
(* the set of enabled outer connections, enables every connection whose    *)
(* outer url is listed, saves the file and signals the proxy to reload it. *)
(* Any error (`?`) ends the process with exit(1); the supervisor starts it *)
(* again.  The config file survives that, the manager's locals do not.     *)
(*                                                                         *)
(* A connection is a model value; its outer url, if it has one, a member  *)
(* of Urls.  The chain's list moves through the sequence Published.       *)
(***************************************************************************)
EXTENDS Naturals, Sequences

CONSTANTS
  Conns,       \* the connections of the config file
  Urls,        \* outer (proxy) urls
  NoOuter,     \* a connection without an outer part
  Outer,       \* Outer[c]: the url of c's outer part, or NoOuter
  InitEnabled, \* the connections enabled in the file at the start
  Published,   \* the successive proxy lists the chain publishes
  Command,     \* how the proxy is signalled: "docker", "pid" or "pid_path"
  MaxFailures  \* how many I/O failures a behaviour may have

ASSUME /\ Outer \in [Conns -> Urls \cup {NoOuter}]
       /\ InitEnabled \subseteq {c \in Conns : Outer[c] # NoOuter}
       /\ Published \in Seq(SUBSET Urls) /\ Len(Published) > 0
       /\ Command \in {"docker", "pid", "pid_path"}
       /\ MaxFailures \in Nat

VARIABLES
  pc,        \* the manager: "load" (top of the loop), "reload" (file saved,
             \* reload_proxy next), "sleep" or "exited"
  saved,     \* the enabled flag of each connection in the config file
  running,   \* the enabled flags the proxy process has loaded
  chainAt,   \* the index in Published of the chain's current list
  failures   \* the I/O failures so far (bounded by MaxFailures)

vars == <<pc, saved, running, chainAt, failures>>

WithOuter == {c \in Conns : Outer[c] # NoOuter}

-----------------------------------------------------------------------------
(* One iteration of the loop up to the save (lines 49-94): nothing of the  *)
(* process's own state is kept from one iteration to the next.             *)

\* all_outers and enabled_outers of a config
AllOuters == {Outer[c] : c \in WithOuter}
EnabledOuters(cfg) == {Outer[c] : c \in {d \in WithOuter : cfg[d]}}

\* the loop body's rewrite: every connection whose url is listed is enabled,
\* none is disabled
Enable(cfg, proxySet) ==
  [c \in Conns |-> cfg[c] \/ (c \in WithOuter /\ Outer[c] \in proxySet)]

\* the list equals the enabled outers: nothing to do
InSync ==
  /\ pc = "load"
  /\ Published[chainAt] = EnabledOuters(saved)
  /\ pc' = "sleep"
  /\ UNCHANGED <<saved, running, chainAt, failures>>

\* the list names a proxy without credentials: exit(1)
UnknownProxy ==
  /\ pc = "load"
  /\ Published[chainAt] # EnabledOuters(saved)
  /\ Published[chainAt] \ AllOuters # {}
  /\ pc' = "exited"
  /\ UNCHANGED <<saved, running, chainAt, failures>>

\* enable the listed connections and save the file
Update ==
  /\ pc = "load"
  /\ Published[chainAt] # EnabledOuters(saved)
  /\ Published[chainAt] \subseteq AllOuters
  /\ saved' = Enable(saved, Published[chainAt])
  /\ pc' = "reload"
  /\ UNCHANGED <<running, chainAt, failures>>

\* try_load, get_proxy_list or save fails: exit(1) before the file changes
IoFails ==
  /\ pc = "load"
  /\ failures < MaxFailures
  /\ failures' = failures + 1
  /\ pc' = "exited"
  /\ UNCHANGED <<saved, running, chainAt>>

-----------------------------------------------------------------------------
(* reload_proxy (lines 97, 104-123).                                      *)

\* the signal reaches the proxy, which loads the saved file
Reload ==
  /\ pc = "reload"
  /\ Command \in {"docker", "pid"}
  /\ running' = saved
  /\ pc' = "sleep"
  /\ UNCHANGED <<saved, chainAt, failures>>

\* the docker call, or spawning `kill`, fails: exit(1)
ReloadFails ==
  /\ pc = "reload"
  /\ Command \in {"docker", "pid"}
  /\ failures < MaxFailures
  /\ failures' = failures + 1
  /\ pc' = "exited"
  /\ UNCHANGED <<saved, running, chainAt>>

\* the pid_path branch is unimplemented!(): the panic ends tokio_main, and
\* run() exits with 1 when the join fails
ReloadPanics ==
  /\ pc = "reload"
  /\ Command = "pid_path"
  /\ pc' = "exited"
  /\ UNCHANGED <<saved, running, chainAt, failures>>

\* `kill -HUP pid` runs but fails (no such process): output() still
\* returns Ok, so the manager goes on as if the proxy had reloaded
KillIgnored ==
  /\ pc = "reload"
  /\ Command = "pid"
  /\ failures < MaxFailures
  /\ failures' = failures + 1
  /\ pc' = "sleep"
  /\ UNCHANGED <<saved, running, chainAt>>

\* std::thread::sleep(CONFIG_CHECK_INTERVAL)
Wake ==
  /\ pc = "sleep"
  /\ pc' = "load"
  /\ UNCHANGED <<saved, running, chainAt, failures>>

Manager == InSync \/ UnknownProxy \/ Update \/ Reload \/ ReloadPanics \/ Wake

-----------------------------------------------------------------------------
(* The environment: the supervisor and the chain.                         *)

\* the process is started again; the file is all it keeps
Restart ==
  /\ pc = "exited"
  /\ pc' = "load"
  /\ UNCHANGED <<saved, running, chainAt, failures>>

\* the chain publishes its next proxy list
Publish ==
  /\ chainAt < Len(Published)
  /\ chainAt' = chainAt + 1
  /\ UNCHANGED <<pc, saved, running, failures>>

Init ==
  /\ pc = "load"
  /\ saved = [c \in Conns |-> c \in InitEnabled]
  /\ running = saved
  /\ chainAt = 1
  /\ failures = 0

Next ==
  \/ Manager
  \/ IoFails \/ ReloadFails \/ KillIgnored
  \/ Restart
  \/ Publish

\* the loop never blocks for long (a 5 s sleep, one request per step), and
\* the supervisor restarts an exited manager; failures and the chain's
\* changes are never forced
Fairness == WF_vars(Manager) /\ WF_vars(Restart)

Spec == Init /\ [][Next]_vars /\ Fairness

-----------------------------------------------------------------------------
(* Properties.                                                             *)

TypeOK ==
  /\ pc \in {"load", "reload", "sleep", "exited"}
  /\ saved \in [Conns -> BOOLEAN]
  /\ running \in [Conns -> BOOLEAN]
  /\ chainAt \in 1 .. Len(Published)
  /\ failures \in 0 .. MaxFailures

(* A connection the manager has enabled in the file is eventually enabled *)
(* in the running proxy: the manager saves the file and then reloads the  *)
(* proxy (lines 94-97), and it is restarted after any failure.            *)
SavedConfigIsLoaded ==
  \A c \in Conns : (saved[c] /\ ~running[c]) ~> running[c]

=============================================================================
