------------------------------ MODULE Inventory ------------------------------
(* Naming flows that no probe saw from the kernel's socket tables             *)
(* (procnet_linux.go): the main loop starts one reading per namespace, in a   *)
(* goroutine, and takes it when it arrives; readings started together share   *)
(* one walk over the processes.  Meanwhile sockets open and close, processes  *)
(* exit, flows come and expire and namespaces may not be entered.             *)
(*                                                                            *)
(* A flow has one socket and that one process, listeners stay, and PIDs and   *)
(* endpoints are not used again; the interval passes between two ticks.  Once *)
(* the loop has ended the host rests.                                         *)
EXTENDS Naturals, FiniteSets, Sequences, SequencesExt
CONSTANTS Namespace, Flow,
  In,          \* In[f]: the namespace of a flow
  Accepted,    \* flows whose local end was connected to
  MaxFailures  \* bound
VARIABLES
  loading,   \* namespaces whose reading is under way
  loader,    \* its goroutine
  loaded,    \* readings delivered
  flows,     \* what the collectors know of a flow
  socket, exited,  \* the host: sockets, and processes that are gone
  atStart,   \* sockets of the first reading
  tracks,    \* trackListeners
  failures, stopped, blind   \* namespaces the last reading could not enter
ivars == <<loading, loader, loaded, flows, socket, exited, atStart, tracks, failures, stopped, blind>>
host == <<socket, exited, atStart, tracks>>

Absent == [side |-> "absent", initiator |-> "unknown", syn |-> FALSE, preexisting |-> FALSE]
Connector(f) == IF f \in Accepted THEN "remote" ELSE "local"
Resting == [at |-> "none", tick |-> 0, walked |-> FALSE, pids |-> {}, sockets |-> {}, failed |-> FALSE]

Init ==
  /\ socket \in [Flow -> {"unopened", "held"}] /\ tracks \in BOOLEAN
  /\ atStart = {f \in Flow : socket[f] = "held"} /\ exited = {}
  /\ flows = [f \in Flow |-> Absent] /\ loading = {} /\ loaded = <<>>
  /\ loader = [n \in Namespace |-> Resting] /\ failures = 0 /\ stopped = FALSE /\ blind = {}

(* ---- the host, and the packets captured ---- *)
inventory == <<loading, loader, loaded, failures, stopped, blind>>
Open(f) ==
  /\ ~stopped /\ socket[f] = "unopened"
  /\ socket' = [socket EXCEPT ![f] = "held"]
  /\ UNCHANGED <<inventory, flows, exited, atStart, tracks>>
(* The socket waits for the peer without a process, or its entry is gone.     *)
Close(f, rest) ==
  /\ ~stopped
  /\ socket[f] = "held" \/ (socket[f] = "time wait" /\ rest = "gone")
  /\ socket' = [socket EXCEPT ![f] = rest]
  /\ exited' \in {exited, exited \cup {f}}
  /\ UNCHANGED <<inventory, flows, atStart, tracks>>
Captured(f, syn) ==
  /\ ~stopped /\ flows[f] = Absent /\ socket[f] = "held" /\ (syn => f \notin atStart)
  /\ flows' = [flows EXCEPT ![f] = [side |-> "none", syn |-> syn, preexisting |-> FALSE,
                                    initiator |-> IF syn THEN Connector(f) ELSE "unknown"]]
  /\ UNCHANGED <<inventory, host>>
Expire(f) == ~stopped /\ flows[f] # Absent /\ flows' = [flows EXCEPT ![f] = Absent] /\ UNCHANGED <<inventory, host>>

(* ---- a reading ---- *)
(* loadCurrent: what parseProcNet finds in a namespace.                       *)
Table(n) == {f \in Flow : In[f] = n /\ socket[f] \in {"held", "time wait"}}
socketPIDs == {f \in Flow : socket[f] = "held"}

ownerless(f) == flows[f].side = "none"
anyOwnerless(n) == \E f \in Flow : In[f] = n /\ ownerless(f)
Starts(n) == n \notin loading /\ (tracks \/ anyOwnerless(n))
(* refresh, of every namespace in one tick.                                   *)
Tick ==
  LET begun == {n \in Namespace : Starts(n)}
      tick == CHOOSE k \in 1..Cardinality(Namespace) : \A n \in Namespace \ begun : loader[n].tick # k IN
  /\ ~stopped /\ begun # {}
  /\ loading' = loading \cup begun
  /\ loader' = [n \in Namespace |-> IF n \in begun THEN [Resting EXCEPT !.at = "load", !.tick = tick] ELSE loader[n]]
  /\ UNCHANGED <<loaded, flows, failures, stopped, blind, host>>

Load(n, failed) ==
  /\ loader[n].at = "load" /\ (failed => failures < MaxFailures)
  /\ loader' = [loader EXCEPT ![n] = [@ EXCEPT !.at = "scan", !.failed = failed,
                                          !.sockets = IF failed THEN {} ELSE Table(n)]]
  /\ failures' = failures + (IF failed THEN 1 ELSE 0)
  /\ UNCHANGED <<loading, loaded, flows, stopped, blind, host>>

(* The first of a tick walks the processes, the others get what it found.     *)
Scan(n) ==
  LET found == IF loader[n].walked THEN loader[n].pids ELSE socketPIDs IN
  /\ loader[n].at = "scan"
  /\ loader' = [m \in Namespace |->
       IF loader[m].tick # loader[n].tick THEN loader[m]
       ELSE [loader[m] EXCEPT !.walked = TRUE, !.pids = found, !.at = IF m = n THEN "deliver" ELSE @]]
  /\ UNCHANGED <<loading, loaded, flows, failures, stopped, blind, host>>

(* The channel has room for a reading of each namespace.                      *)
Deliver(n) ==
  /\ loader[n].at = "deliver" /\ Len(loaded) < Cardinality(Namespace)
  /\ loaded' = Append(loaded, [ns |-> n, reading |-> [loader[n] EXCEPT !.at = "none", !.tick = 0, !.walked = FALSE]])
  /\ loader' = [loader EXCEPT ![n] = Resting]
  /\ UNCHANGED <<loading, flows, failures, stopped, blind, host>>

(* ---- applySocketInventory ---- *)
(* A mid-stream flow was connected to when a listener has its port, which the *)
(* same table says.  The process is looked at now, and may be gone.           *)
Found(f, r) ==
  LET initiator == IF flows[f].initiator # "unknown" THEN flows[f].initiator
                   ELSE IF f \in Accepted THEN "remote" ELSE "local" IN
  [flows[f] EXCEPT !.initiator = initiator,
     !.preexisting = @ \/ (f \in atStart /\ ~flows[f].syn),
     !.side = IF f \notin r.pids \/ f \in exited THEN @ ELSE IF initiator = "local" THEN "client" ELSE "server"]
applySocketInventory(n, r) ==
  [f \in Flow |-> IF In[f] = n /\ ownerless(f) /\ f \in r.sockets THEN Found(f, r) ELSE flows[f]]

afterReading(n, r) == IF r.failed THEN loading ELSE loading \ {n} \* mutant: a failed reading counts as under way
afterwards(n, r) == loading \ {n}
Apply ==
  LET n == Head(loaded).ns
      r == Head(loaded).reading IN
  /\ ~stopped /\ loaded # <<>> /\ loaded' = Tail(loaded)
  /\ loading' = afterwards(n, r)
  /\ flows' = IF r.failed THEN flows ELSE applySocketInventory(n, r)
  /\ UNCHANGED <<loader, failures, stopped, blind, host>>

(* The loop has ended: refreshNow of each namespace; readings under way are   *)
(* not used any more.                                                         *)
Stop(fail) ==
  /\ ~stopped /\ stopped' = TRUE /\ blind' = fail
  /\ failures + Cardinality(fail) <= MaxFailures /\ failures' = failures + Cardinality(fail)
  /\ flows' = [f \in Flow |->
       LET now == [Resting EXCEPT !.pids = socketPIDs, !.sockets = Table(In[f])] IN
       IF In[f] \in fail THEN flows[f] ELSE applySocketInventory(In[f], now)[f]]
  /\ loader' = [n \in Namespace |-> Resting] /\ loaded' = <<>> /\ loading' = {}
  /\ UNCHANGED host

Next ==
  \/ \E f \in Flow : Open(f) \/ Expire(f)
  \/ \E f \in Flow, rest \in {"time wait", "gone"} : Close(f, rest)
  \/ \E f \in Flow, syn \in BOOLEAN : Captured(f, syn)
  \/ Tick \/ Apply \/ (\E n \in Namespace : Scan(n) \/ Deliver(n) \/ \E failed \in BOOLEAN : Load(n, failed))
  \/ \E fail \in SUBSET Namespace : Stop(fail)

(* The loop takes what is ready, and goroutines run.                          *)
LoopGoes == Tick \/ Apply
LoaderGoes(n) == (\E failed \in BOOLEAN : Load(n, failed)) \/ Scan(n) \/ Deliver(n)
Fairness == WF_ivars(LoopGoes) /\ \A n \in Namespace : WF_ivars(LoaderGoes(n))

(* A flow is named, on the side it is on, as long as its socket, its process  *)
(* and the flow itself stay; however readings fail, are late and *)
(* overlap.                                                                   *)
Stays(f) == flows[f] # Absent /\ socket[f] = "held"
Side(f) == IF f \in Accepted THEN "server" ELSE "client"
NamedInTheEnd == \A f \in Flow :
  Stays(f) ~> \/ flows[f].side = Side(f) \/ ~Stays(f)
              \/ stopped /\ In[f] \in blind
=============================================================================
