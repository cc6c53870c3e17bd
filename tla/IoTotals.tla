------------------------------- MODULE IoTotals -------------------------------
(***************************************************************************)
(* Socket I/O totals of the PID probe: the kernel program (pid.bpf.c) adds *)
(* the bytes of a socket and direction up in an entry of io_totals; the    *)
(* reader (ebpf_linux.go) sweeps the map and turns running totals into the *)
(* bytes added since it last saw each entry.  An entry whose process or    *)
(* peer changes, or whose socket is destroyed, sends its last total        *)
(* through the event ring.                                                 *)
(*                                                                         *)
(* CPUs run the program concurrently; one step here is one map or ring     *)
(* helper.  A pointer a CPU looked up stays usable after the entry left    *)
(* the map, and the memory behind it may serve another entry by then.      *)
(* Other events of the ring and the channel to the main loop are left out. *)
(***************************************************************************)
EXTENDS Naturals, Integers, Sequences, SequencesExt, FiniteSets, Functions

CONSTANTS
  Cpu,       \* processors running the program
  Key,       \* struct io_key: sockets and directions
  Owner,     \* what same_owner compares: process and endpoints
  Elem,      \* the map's element memory
  RingSize,  \* records the event ring holds
  Word,      \* bound: stands for 2^64, where the byte counters wrap
  MaxCalls,  \* bound: socket calls
  MaxAborts  \* bound: sweeps a map error cuts short

None == "none"
Gen == 1..MaxCalls   \* io_gen: when an entry started; each call starts one at most

ASSUME IoTotalsAssumption ==
  /\ IsFiniteSet(Cpu)
  /\ None \notin Cpu \cup Owner \cup Elem \cup Key
  /\ Word \in Nat /\ Word > MaxCalls
  /\ RingSize \in Nat /\ MaxCalls \in Nat /\ MaxAborts \in Nat

VARIABLES
  table,     \* io_totals: the element of each key, if any
  elem,      \* the memory of the elements
  nextGen,   \* the clock that names entries
  cpu,       \* what each processor is doing
  ring,      \* the event ring: last totals, a record being written has a writer
  lost,      \* the lost counter
  calls,     \* socket calls so far
  entries,   \* ioTotals.entries: the total last seen of each entry
  current,   \* the entries whose sweep field is the running sweep
  toVisit,   \* keys this sweep has not reached
  sweeping,  \* the reader is inside sweep
  aborts,    \* sweeps cut short
  reported,  \* history: bytes reported for each entry
  most,      \* history: bytes added to each entry
  copied,    \* history: entries whose last total was taken
  strays,    \* history: entries whose last total was taken twice, or for another socket
  ended,     \* history: entries whose last total was read
  forgotten  \* history: entries pruned

kernel == <<table, elem, nextGen, cpu, calls, most, copied, strays>>
reader == <<entries, current, toVisit, sweeping, aborts, reported, ended, forgotten>>
vars == <<kernel, ring, lost, reader>>

Idle == [pc |-> "idle", key |-> None, owner |-> None, ptr |-> None, record |-> FALSE]
Fresh == [gen |-> 0, owner |-> None, total |-> 0]
Live(k) == table[k] # None
Seen(g) == IF g \in DOMAIN entries THEN entries[g] ELSE 0

(***************************************************************************)
(* The kernel program.                                                     *)
(***************************************************************************)

(* output, up to same_owner: the bytes are already moved.  An entry of the  *)
(* same owner gets them; another's is taken over; without one a new entry   *)
(* starts.                                                                  *)
Call(c, k, p) ==
  /\ cpu[c].pc = "idle" /\ calls < MaxCalls
  /\ \A d \in Cpu : ~(cpu[d].key = k /\ cpu[d].pc = "delete")
  /\ calls' = calls + 1
  /\ cpu' = [cpu EXCEPT ![c] =
               [pc |-> CASE ~Live(k) -> "update"
                         [] Live(k) /\ elem[table[k]].owner = p -> "add"
                         [] OTHER -> "takeover",
                key |-> k, owner |-> p, ptr |-> table[k], record |-> FALSE]]
  /\ UNCHANGED <<table, elem, nextGen, most, copied, strays, ring, lost, reader>>

(* __sync_fetch_and_add through the pointer, wherever it points by now. *)
Add(c) ==
  LET e == cpu[c].ptr IN
  /\ cpu[c].pc = "add"
  /\ elem' = [elem EXCEPT ![e].total = @ + 1]
  /\ most' = [g \in Gen |-> IF g = elem[e].gen THEN most[g] + 1 ELSE most[g]]
  /\ cpu' = [cpu EXCEPT ![c] = Idle]
  /\ UNCHANGED <<table, nextGen, calls, copied, strays, ring, lost, reader>>

(* copy_total: the record is reserved, so readers wait for it, and written. *)
recordSubmitted(c, e) == [gen |-> elem[e].gen, total |-> elem[e].total, writer |-> None]
record(c, e) == [gen |-> elem[e].gen, total |-> elem[e].total, writer |-> c]
reserve == Len(ring) < RingSize
elsewhere(k, e) == \E j \in Key \ {k} : table[j] = e
copyTotal(c, k, e) ==
  /\ ring' = IF reserve THEN Append(ring, record(c, e)) ELSE ring
  /\ lost' = IF reserve THEN lost ELSE lost + 1
  /\ copied' = copied \cup {elem[e].gen}
  /\ strays' = IF elem[e].gen \in copied \/ elsewhere(k, e)
               THEN strays \cup {elem[e].gen} ELSE strays

TakeOver(c) ==
  /\ cpu[c].pc = "takeover"
  /\ copyTotal(c, cpu[c].key, cpu[c].ptr)
  /\ cpu' = [cpu EXCEPT ![c] = [@ EXCEPT !.pc = "update", !.record = reserve]]
  /\ UNCHANGED <<table, elem, nextGen, calls, most, reader>>

(* bpf_map_update_elem, BPF_ANY for a takeover and BPF_NOEXIST otherwise:   *)
(* the new entry lives in an element the map does not use.                  *)
afterwards(c) == IF cpu[c].record THEN [cpu[c] EXCEPT !.pc = "submit"] ELSE Idle
Update(c) ==
  LET k == cpu[c].key IN
  /\ cpu[c].pc = "update"
  /\ cpu[c].ptr # None \/ ~Live(k)
  /\ \E e \in Elem \ Range(table) :
       /\ table' = [table EXCEPT ![k] = e]
       /\ elem' = [elem EXCEPT ![e] = [gen |-> nextGen, owner |-> cpu[c].owner, total |-> 1]]
  /\ most' = [most EXCEPT ![nextGen] = 1]
  /\ nextGen' = nextGen + 1
  /\ cpu' = [cpu EXCEPT ![c] = afterwards(c)]
  /\ UNCHANGED <<calls, copied, strays, ring, lost, reader>>

(* Another CPU started the entry first: its entry takes the bytes. *)
UpdateExists(c) ==
  /\ cpu[c].pc = "update" /\ cpu[c].ptr = None /\ Live(cpu[c].key)
  /\ cpu' = [cpu EXCEPT ![c].pc = "again"]
  /\ UNCHANGED <<table, elem, nextGen, calls, most, copied, strays, ring, lost, reader>>
LookAgain(c) ==
  LET e == table[cpu[c].key] IN
  /\ cpu[c].pc = "again"
  /\ cpu' = [cpu EXCEPT ![c] = IF e = None THEN Idle ELSE [@ EXCEPT !.pc = "add", !.ptr = e]]
  /\ UNCHANGED <<table, elem, nextGen, calls, most, copied, strays, ring, lost, reader>>

(* submit_event, after the entry was replaced or removed. *)
Submit(c) ==
  /\ cpu[c].pc = "submit"
  /\ ring' = [i \in DOMAIN ring |->
                IF ring[i].writer = c THEN [ring[i] EXCEPT !.writer = None] ELSE ring[i]]
  /\ cpu' = [cpu EXCEPT ![c] = Idle]
  /\ UNCHANGED <<table, elem, nextGen, calls, most, copied, strays, lost, reader>>

(* flush_total, as inet_sock_destruct runs: nobody uses the socket then. *)
SocketDestroyed(c, k) ==
  /\ cpu[c].pc = "idle" /\ Live(k)
  /\ \A d \in Cpu : cpu[d].key # k \/ cpu[d].pc = "submit"
  /\ copyTotal(c, k, table[k])
  /\ cpu' = [cpu EXCEPT ![c] = [pc |-> "delete", key |-> k, owner |-> None,
                                ptr |-> table[k], record |-> reserve]]
  /\ UNCHANGED <<table, elem, nextGen, calls, most, reader>>
Delete(c) ==
  /\ cpu[c].pc = "delete"
  /\ table' = [table EXCEPT ![cpu[c].key] = None]
  /\ cpu' = [cpu EXCEPT ![c] = afterwards(c)]
  /\ UNCHANGED <<elem, nextGen, calls, most, copied, strays, ring, lost, reader>>

(* The map is an LRU: other sockets push an entry out. *)
EvictLRU(k) ==
  /\ Live(k)
  /\ table' = [table EXCEPT ![k] = None]
  /\ UNCHANGED <<elem, nextGen, cpu, calls, most, copied, strays, ring, lost, reader>>

(***************************************************************************)
(* The reader: ioTotals, and the loop that drains the ring and sweeps.     *)
(***************************************************************************)
addedWhole(total, seen) == total    \* mutant: the last total counted whole
added(total, seen) == (total - seen) % Word
report(g, bytes) == (reported[g] + bytes) % Word

(* last: an entry's final total from the ring. *)
ReadLast ==
  LET r == Head(ring) IN
  /\ ~sweeping /\ ring # <<>> /\ r.writer = None
  /\ reported' = [reported EXCEPT ![r.gen] = report(r.gen, added(r.total, Seen(r.gen)))]
  /\ entries' = Restrict(entries, DOMAIN entries \ {r.gen})
  /\ current' = current \ {r.gen}
  /\ ended' = ended \cup {r.gen}
  /\ ring' = Tail(ring)
  /\ UNCHANGED <<kernel, lost, toVisit, sweeping, aborts, forgotten>>

(* sweep starts when the ring was found drained, and reads key after key. *)
StartSweep ==
  /\ ~sweeping /\ ring = <<>>
  /\ sweeping' = TRUE /\ current' = {} /\ toVisit' = Key
  /\ UNCHANGED <<kernel, ring, lost, entries, aborts, reported, ended, forgotten>>

swept(k) == IF Live(k) THEN {elem[table[k]].gen} ELSE {}
runningUnseen(k) ==             \* mutant: an entry it knows is not looked at again
  [g \in DOMAIN entries \cup swept(k) |->
     IF g \in DOMAIN entries THEN entries[g] ELSE elem[table[k]].total]
running(k) ==
  [g \in DOMAIN entries \cup swept(k) |->
     IF g \in swept(k) THEN elem[table[k]].total ELSE entries[g]]
SweepEntry(k) ==
  /\ sweeping /\ k \in toVisit
  /\ toVisit' = toVisit \ {k}
  /\ entries' = running(k)
  /\ reported' = [g \in Gen |-> IF g \in DOMAIN running(k)
                               THEN report(g, added(running(k)[g], Seen(g)))
                               ELSE reported[g]]
  /\ current' = current \cup swept(k)
  /\ UNCHANGED <<kernel, ring, lost, sweeping, aborts, ended, forgotten>>

(* Only a complete sweep prunes. *)
prune == Restrict(entries, DOMAIN entries \cap current)
EndSweep ==
  /\ sweeping /\ toVisit = {}
  /\ entries' = prune
  /\ forgotten' = forgotten \cup (DOMAIN entries \ DOMAIN prune)
  /\ sweeping' = FALSE
  /\ UNCHANGED <<kernel, ring, lost, current, toVisit, aborts, reported, ended>>
AbortSweep ==
  /\ sweeping /\ toVisit # {} /\ aborts < MaxAborts
  /\ aborts' = aborts + 1
  /\ sweeping' = FALSE /\ toVisit' = {}
  /\ UNCHANGED <<kernel, ring, lost, entries, current, reported, ended, forgotten>>

Init ==
  /\ table = [k \in Key |-> None]
  /\ elem = [e \in Elem |-> Fresh]
  /\ nextGen = 1
  /\ cpu = [c \in Cpu |-> Idle]
  /\ ring = <<>> /\ lost = 0 /\ calls = 0
  /\ entries = <<>> /\ current = {} /\ toVisit = {} /\ sweeping = FALSE /\ aborts = 0
  /\ reported = [g \in Gen |-> 0] /\ most = reported
  /\ copied = {} /\ strays = {} /\ ended = {} /\ forgotten = {}

Program(c) ==
  \/ Add(c) \/ TakeOver(c) \/ Update(c) \/ UpdateExists(c) \/ LookAgain(c)
  \/ Submit(c) \/ Delete(c)
Reader == ReadLast \/ StartSweep \/ (\E k \in Key : SweepEntry(k)) \/ EndSweep

Next ==
  \/ \E c \in Cpu, k \in Key, p \in Owner : Call(c, k, p)
  \/ \E c \in Cpu, k \in Key : SocketDestroyed(c, k)
  \/ \E c \in Cpu : Program(c)
  \/ \E k \in Key : EvictLRU(k)
  \/ Reader
  \/ AbortSweep

(* A BPF program runs to its end once started, and the reader goroutine is  *)
(* scheduled; nobody has to call, and nothing has to be evicted.            *)
Fairness == (\A c \in Cpu : WF_vars(Program(c))) /\ WF_vars(Reader)
Spec == Init /\ [][Next]_vars /\ Fairness

(***************************************************************************)
(* Properties.                                                             *)
(***************************************************************************)
(* An entry is removed or replaced before its last total is submitted, so   *)
(* that no sweep finds an entry whose end was already read (copy_total).    *)
(* The bytes reported for an entry are then the bytes added to it or fewer. *)
(* Three races are left: a sweep pruned the entry while its last total was  *)
(* on its way, two CPUs took it over, or a CPU took over through a pointer  *)
(* whose memory had come to serve another socket.                           *)
ReportedAtMostAdded ==
  /\ \A k \in Key : Live(k) /\ elem[table[k]].gen \notin strays => elem[table[k]].gen \notin ended
  /\ \A g \in Gen \ (forgotten \cup strays) : reported[g] <= most[g]

(* With the last total of an entry all its bytes are reported, however many *)
(* sweeps saw it before.                                                    *)
LastIsExact ==
  [][\A g \in Gen : g \in ended' \ ended /\ g \notin forgotten
                     => reported'[g] = Head(ring).total]_vars

(* Sweeps catch up: an entry that left the map is forgotten, by its last    *)
(* total or by a complete sweep, also when the ring or the LRU lost it; and *)
(* the bytes of an entry in the map are reported by a later sweep, or by    *)
(* its last total, unless the map evicts it.                                *)
InMap(g) == \E k \in Key : Live(k) /\ elem[table[k]].gen = g
Unreported(k, g) == Live(k) /\ elem[table[k]].gen = g /\ elem[table[k]].total > Seen(g)
SweepsCatchUp == \A g \in Gen :
  /\ g \in DOMAIN entries /\ ~InMap(g) ~> g \notin DOMAIN entries
  /\ \A k \in Key : Unreported(k, g) ~> ~Unreported(k, g)

(***************************************************************************)
(* What the comments say.                                                  *)
(***************************************************************************)

(* ebpf_linux.go: the bytes added since the reader last saw the entry: one  *)
(* report adds to what was reported, it never takes back and never wraps.   *)
ReportsOnlyAdd == [][\A g \in Gen : reported'[g] >= reported[g]]_vars
=============================================================================
