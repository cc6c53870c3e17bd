------------------------------ MODULE DNSCache ------------------------------
(* The names that recently resolved to each address (domain.DNSCache) and the *)
(* hint a connection to an address gets from them (attachDNSHints).          *)
EXTENDS Integers, SequencesExt, FiniteSetsExt
CONSTANTS Addresses, Names,
  MaxAddresses, MaxNames,   \* maxDNSAddresses and maxNamesPerAddress
  HintAge, Slack,           \* dnsHintAge and the second Lookup allows
  MaxConns, MaxNow          \* bounds of the model
VARIABLES answers,          \* address -> what is known of it, by first observation
          seen,             \* the answers observed: [name, address, at, kept]
          conns,            \* connections without other evidence, oldest first
          now
vars == <<answers, seen, conns, now>>

(* A known name is only seen again; a new one is appended, and the oldest     *)
(* goes beyond the bound.                                                    *)
observed(known, name) ==
  LET longer == Append(known, [name |-> name, first |-> now, last |-> now])
  IN  IF \E k \in DOMAIN known : known[k].name = name
      THEN [k \in DOMAIN known |-> IF known[k].name = name THEN [known[k] EXCEPT !.last = now] ELSE known[k]]
      ELSE IF Len(longer) > MaxNames THEN Tail(longer) ELSE longer

(* A record of an unknown address that finds the cache full ends the response.*)
ObserveRecords(name, records) ==
  LET known == {a \in Addresses : answers[a] # <<>>}
      before(i) == known \cup {records[j] : j \in 1..(i - 1)}
      fits(i) == records[i] \in known \/ Cardinality(before(i)) < MaxAddresses
      taken == {records[i] : i \in {k \in DOMAIN records : \A j \in 1..k : fits(j)}}
  IN  /\ answers' = [a \in Addresses |-> IF a \in taken THEN observed(answers[a], name) ELSE answers[a]]
      /\ seen' = seen \cup {[name |-> name, address |-> a, at |-> now] : a \in taken}
      /\ UNCHANGED <<conns, now>>

(* Lookup: the last name first observed by then; failing that, if the start   *)
(* of the connection was not seen, the first one after.                      *)
Lookup(known, at, allowLater) ==
  LET by == {k \in DOMAIN known : \A i \in 1..k : known[i].first <= at + Slack}
  IN  IF by # {} THEN known[Max(by)].name
      ELSE IF allowLater /\ known # <<>> THEN known[1].name ELSE ""

(* packetAt: a connection, from its start or not.                            *)
Connect(a, fromStart) ==
  /\ Len(conns) < MaxConns
  /\ conns' = Append(conns, [address |-> a, first |-> now, fromStart |-> fromStart, hint |-> ""])
  /\ UNCHANGED <<answers, seen, now>>

(* The tick: expire the answers, then name the connections without a hint.    *)
fresh(known) == {k \in DOMAIN known : now - known[k].last <= HintAge}
inOrder(places) ==
  CHOOSE s \in [1..Cardinality(places) -> places] : \A i, j \in DOMAIN s : i < j => s[i] < s[j]
Expire(known) == LET left == inOrder(fresh(known)) IN [i \in DOMAIN left |-> known[left[i]]]
attachDNSHints(cache) ==
  [i \in DOMAIN conns |->
     LET c == conns[i] IN
     IF c.hint # "" THEN c ELSE [c EXCEPT !.hint = Lookup(cache[c.address], c.first, ~c.fromStart)]]
Wait == now < MaxNow /\ now' = now + 1 /\ UNCHANGED <<answers, seen, conns>>
Tick ==
  /\ LET left == [a \in Addresses |-> Expire(answers[a])]
     IN  answers' = left /\ conns' = attachDNSHints(left)
  /\ UNCHANGED <<seen, now>>

Init ==
  /\ answers = [a \in Addresses |-> <<>>] /\ seen = {} /\ conns = <<>> /\ now = 0
Next ==
  \/ \E name \in Names, records \in SetToAllKPermutations(Addresses) : ObserveRecords(name, records)
  \/ \E a \in Addresses, fromStart \in BOOLEAN : Connect(a, fromStart)
  \/ Wait \/ Tick

------------------------------------------------------------------------------
(* A connection seen from its start is hinted a name only if its peer had     *)
(* resolved to it by then; and the answers of an address stay in the order in *)
(* which they were learnt, each name once, which is what lets Lookup stop at  *)
(* the first that is too late (ObserveRecords, Lookup, Expire).              *)
Hints ==
  /\ \A i \in DOMAIN conns : conns[i].fromStart /\ conns[i].hint # "" =>
       \E s \in seen : s.name = conns[i].hint /\ s.address = conns[i].address /\ s.at <= conns[i].first + Slack
  /\ \A a \in Addresses : \A i, j \in DOMAIN answers[a] :
       i < j => answers[a][i].first <= answers[a][j].first /\ answers[a][i].name # answers[a][j].name
=============================================================================
