------------------------------- MODULE NATTable -------------------------------
(* The NAT table of a namespace (nat_linux.go): a new flow asks conntrack once *)
(* for the entry of its tuple, a goroutine makes the lookups one by one        *)
(* (resolve, conntrack_linux.go), and the main loop links the flows of both    *)
(* tuples to what comes back.  What a link does to participants and bytes is   *)
(* in SocketIO and HostView.                                                  *)
(*                                                                            *)
(* The kernel finds an entry by its tuple from the client and by its reply     *)
(* tuple from the server.  It tracks a connection a little after its first     *)
(* packet was captured, and answers lookups in order, maybe late.  Tuples are  *)
(* used again.                                                                *)
EXTENDS Naturals, Sequences, SequencesExt, FiniteSets
CONSTANTS
  Tuples,                    \* flowKey, as seen by the client or by the server
  None,                      \* no tuple
  Translations,              \* the [orig, reply] connections can have
  MaxEntries, Queue, Results,\* maxNATEntries; natQueue, and all the results hold
  Idle,                      \* natEntryIdle; flows expire after as long
  MaxOpens, MaxFails, MaxNow \* bounds
VARIABLES
  open, tracked,      \* instance of each connection there is, those conntrack tracks
  asked, answers,     \* lookups the kernel has, its answers
  flows,              \* the captured flow of a tuple
  requests, lookup, seq, \* requests; the lookup of resolve; Conn.seq
  results,            \* results, natResults and what is between them
  entries, made,      \* natTable.entries: an index of made, all entries there were
  now,
  opens, fails,
  missed              \* history: what was skipped, failed or not tracked when
                      \* conntrack was asked
kernel == <<open, tracked, asked, answers, opens>>
resolver == <<lookup, seq, results, fails>>
table == <<entries, made>>
vars == <<kernel, flows, requests, resolver, table, now, missed>>

NoFlow == [on |-> FALSE, of |-> 0, nat |-> 0, last |-> 0]
NoLookup == [tuple |-> None, of |-> 0, reversed |-> FALSE]
tuplesOf(e) == {e.orig, e.reply}
NAT(e) == e.orig # e.reply
ends == {"client", "server"}
opposite(end) == IF end = "client" THEN "server" ELSE "client"

Init ==
  /\ open = <<>> /\ tracked = {} /\ asked = <<>> /\ answers = <<>>
  /\ flows = [t \in Tuples |-> NoFlow]
  /\ requests = <<>> /\ lookup = NoLookup /\ seq = 0 /\ results = <<>>
  /\ entries = [t \in Tuples |-> 0] /\ made = <<>>
  /\ now = 0 /\ opens = 0 /\ fails = 0 /\ missed = {}

(* ---- connections and conntrack ---- *)
inUse == UNION {tuplesOf(e) : e \in DOMAIN open}
Open(e) ==
  /\ opens < MaxOpens /\ opens' = opens + 1
  /\ tuplesOf(e) \cap inUse = {}
  /\ open' = [x \in DOMAIN open \cup {e} |-> IF x = e THEN opens + 1 ELSE open[x]]
  /\ UNCHANGED <<tracked, asked, answers, flows, requests, resolver, table, now, missed>>
Track(e) ==
  /\ e \in DOMAIN open \ tracked /\ tracked' = tracked \cup {e}
  /\ UNCHANGED <<open, asked, answers, opens, flows, requests, resolver, table, now, missed>>
Close(e) ==
  /\ e \in DOMAIN open /\ tracked' = tracked \ {e}
  /\ open' = [x \in DOMAIN open \ {e} |-> open[x]]
  /\ UNCHANGED <<asked, answers, opens, flows, requests, resolver, table, now, missed>>

(* The next lookup is answered.  That the connection was not tracked yet is    *)
(* noted, that this lookup had its tuple the wrong way round is not.          *)
matches(q) == {e \in tracked : <<q.tuple, q.from>> \in {<<e.orig, "client">>, <<e.reply, "server">>}}
Answer ==
  /\ asked # <<>> /\ asked' = Tail(asked)
  /\ LET q == Head(asked) IN
     /\ \/ matches(q) = {} /\ answers' = Append(answers, [seq |-> q.seq, ok |-> FALSE])
        \/ \E e \in matches(q) : answers' = Append(answers, [seq |-> q.seq, ok |-> TRUE, entry |-> e])
     /\ missed' = IF \E e \in tracked : q.tuple \in tuplesOf(e) THEN missed
                  ELSE missed \cup {<<q.tuple, q.of>>}
  /\ UNCHANGED <<open, tracked, opens, flows, requests, resolver, table, now>>

(* ---- main loop ---- *)
(* linkNAT, natFlow: entry x and the flows of its tuples; or a request.       *)
linked(fl, x) == [t \in Tuples |-> IF fl[t].on /\ t \in tuplesOf(made[x].entry)
                                   THEN [fl[t] EXCEPT !.nat = x] ELSE fl[t]]
(* A packet of a connection, from one of its ends, seen before or after the    *)
(* translation.  The first of a connection starts a flow of its own.          *)
Packet(e, t, from) ==
  /\ e \in DOMAIN open /\ t \in tuplesOf(e)
  /\ IF flows[t].of = open[e]
     THEN /\ flows[t].last # now
          /\ flows' = [flows EXCEPT ![t].last = now] /\ UNCHANGED <<requests, missed>>
     ELSE LET created == [flows EXCEPT ![t] = [on |-> TRUE, of |-> open[e], nat |-> 0, last |-> now]]
              request == [tuple |-> t, from |-> from, of |-> open[e]] IN
          IF entries[t] # 0 THEN flows' = linked(created, entries[t]) /\ UNCHANGED <<requests, missed>>
          ELSE /\ flows' = created
               /\ \/ Len(requests) < Queue /\ requests' = Append(requests, request) /\ UNCHANGED missed
                  \/ Len(requests) >= Queue /\ missed' = missed \cup {<<t, open[e]>>} /\ UNCHANGED requests
  /\ UNCHANGED <<kernel, resolver, table, now>>

(* natTable.add, then linkNAT: an entry known by its first tuple is renewed,   *)
(* any other takes both tuples unless the table is full.                      *)
known(e) == entries[e.orig] # 0 /\ made[entries[e.orig]].entry = e
full == Cardinality({t \in Tuples : entries[t] # 0}) >= 2 * MaxEntries
Link ==
  /\ results # <<>> /\ results' = Tail(results)
  /\ LET e == Head(results)
         x == IF known(e) THEN entries[e.orig] ELSE Len(made) + 1
         renewed == IF known(e) THEN [made EXCEPT ![x].seen = now]
                    ELSE Append(made, [entry |-> e, seen |-> now]) IN
     /\ made' = renewed
     /\ entries' = [t \in Tuples |-> IF t \in tuplesOf(e) /\ ~known(e) /\ ~full THEN x ELSE entries[t]]
     /\ flows' = [t \in Tuples |-> IF flows[t].on /\ t \in tuplesOf(e) THEN [flows[t] EXCEPT !.nat = x]
                                   ELSE flows[t]]
  /\ UNCHANGED <<kernel, requests, lookup, seq, fails, now, missed>>

(* A second passes: the table forgets what was not seen for Idle, then what a  *)
(* flow has seen is noted in its entry, and idle flows expire (closed ones     *)
(* earlier, which is left out).                                               *)
seenBy(fl, x) == {fl[t].last : t \in {u \in Tuples : fl[u].on /\ fl[u].nat = x}}
Tick ==
  /\ now < MaxNow /\ now' = now + 1
  /\ entries' = [t \in Tuples |-> IF entries[t] # 0 /\ now' - made[entries[t]].seen > Idle THEN 0 ELSE entries[t]]
  /\ made' = [x \in DOMAIN made |->
       [made[x] EXCEPT !.seen = CHOOSE s \in {@} \cup seenBy(flows, x) : \A o \in {@} \cup seenBy(flows, x) : s >= o]]
  /\ flows' = [t \in Tuples |-> IF flows[t].on /\ now' - flows[t].last > Idle THEN NoFlow ELSE flows[t]]
  /\ UNCHANGED <<kernel, requests, resolver, missed>>

(* ---- resolve ---- *)
Send(request, reversed) ==
  /\ seq' = seq + 1
  /\ lookup' = [tuple |-> request.tuple, from |-> request.from, of |-> request.of, reversed |-> reversed]
  /\ asked' = Append(asked, [seq |-> seq + 1, tuple |-> request.tuple, of |-> request.of,
                             from |-> IF reversed THEN opposite(request.from) ELSE request.from])
Take ==
  /\ lookup.tuple = None /\ requests # <<>>
  /\ requests' = Tail(requests) /\ Send(Head(requests), FALSE)
  /\ UNCHANGED <<open, tracked, answers, opens, flows, results, fails, table, now, missed>>
(* parseReply: an answer to another lookup is read over.                      *)
anyAnswer(a) == TRUE \* mutant: the late answer of a lookup given up is taken
answersIt(a) == a.seq = seq
Receive ==
  /\ lookup.tuple # None /\ answers # <<>> /\ answers' = Tail(answers)
  /\ LET a == Head(answers) IN
     \/ ~answersIt(a) /\ UNCHANGED <<asked, lookup, seq, results>>
     \/ answersIt(a) /\ ~a.ok /\ ~lookup.reversed /\ Send(lookup, TRUE) /\ UNCHANGED results
     \/ /\ answersIt(a) /\ (a.ok \/ lookup.reversed)
        /\ IF a.ok /\ NAT(a.entry) THEN Len(results) < Results /\ results' = Append(results, a.entry)
           ELSE UNCHANGED results
        /\ lookup' = NoLookup /\ UNCHANGED <<asked, seq>>
  /\ UNCHANGED <<open, tracked, opens, flows, requests, fails, table, now, missed>>
(* No answer within a second, or another error.                               *)
Fail ==
  /\ lookup.tuple # None /\ fails < MaxFails /\ fails' = fails + 1
  /\ missed' = missed \cup {<<lookup.tuple, lookup.of>>} /\ lookup' = NoLookup
  /\ UNCHANGED <<kernel, flows, requests, seq, results, table, now>>

Next ==
  \/ \E e \in Translations : Open(e) \/ Track(e) \/ Close(e)
  \/ \E e \in Translations, t \in Tuples, from \in ends : Packet(e, t, from)
  \/ Answer \/ Link \/ Tick \/ Take \/ Receive \/ Fail
Spec == Init /\ [][Next]_vars

(* A flow whose connection conntrack tracks and translates is linked, or its   *)
(* lookup is on the way, unless that was skipped, failed or made too early:    *)
(* late answers and the two directions of a tuple lose none (natFlow, resolve, *)
(* Lookup).  What it is linked to has its tuple.                              *)
onTheWay(t, of) ==
  \/ \E i \in DOMAIN requests : requests[i].tuple = t /\ requests[i].of = of
  \/ lookup.tuple = t /\ lookup.of = of
  \/ \E i \in DOMAIN results : t \in tuplesOf(results[i])
NoneLost ==
  /\ \A e \in tracked : NAT(e) => \A t \in tuplesOf(e) :
       flows[t].on /\ flows[t].of = open[e] =>
         flows[t].nat # 0 \/ onTheWay(t, open[e]) \/ <<t, open[e]>> \in missed
  /\ \A t \in Tuples : flows[t].nat # 0 => t \in tuplesOf(made[flows[t].nat].entry)

(* app_linux.go: a NAT entry lives as long as its flows; what a flow is linked *)
(* to is in the table (expire of the table and of the collector).             *)
LivesAsLongAsItsFlows == \A t \in Tuples : flows[t].on /\ flows[t].nat # 0 => entries[t] # 0
=============================================================================
