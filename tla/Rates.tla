-------------------------------- MODULE Rates --------------------------------
(* The rates the terminal interface shows of processes (sampleAll of ui.go):   *)
(* what pidIO grew by since the sample before.  pidIO of a process is deleted  *)
(* once it was idle (expire), a tick that has no time behind it samples        *)
(* nothing, and the interface, with it the namespace, may be another one.      *)
EXTENDS Naturals, FiniteSetsExt
CONSTANTS
  Processes, Namespaces,
  Sizes,       \* bytes of a report
  Idle,        \* how long expire keeps an idle process
  Space,       \* 2^64, what counters wrap at
  MaxNow, MaxTotal \* bounds
VARIABLES
  pidIO, pidSeen, \* of the collectors of a namespace
  shown,          \* namespace of interfaceName
  pidPrevious, pidRates, lastSample, \* terminalUI; lastSample 0 before the first
  now,
  grown, of       \* history: what processes transferred since the last sample
                  \* and is not forgotten, and the namespaces that was of: all
                  \* before the first
vars == <<pidIO, pidSeen, shown, pidPrevious, pidRates, lastSample, now, grown, of>>

With(f, p, v) == [x \in DOMAIN f \cup {p} |-> IF x = p THEN v ELSE f[x]]
Of(f, p) == IF p \in DOMAIN f THEN f[p] ELSE 0
Nothing == [n \in Namespaces |-> [p \in Processes |-> 0]]

Init ==
  /\ pidIO = [n \in Namespaces |-> <<>>] /\ pidSeen = pidIO /\ shown \in Namespaces
  /\ pidPrevious = <<>> /\ pidRates = <<>> /\ lastSample = 0 /\ now = 1
  /\ grown = Nothing /\ of = Namespaces

(* Socket I/O of a process in a namespace (eventAt).                          *)
Report(n, p, bytes) ==
  /\ Of(pidIO[n], p) + bytes <= MaxTotal
  /\ pidIO' = [pidIO EXCEPT ![n] = With(@, p, Of(@, p) + bytes)]
  /\ pidSeen' = [pidSeen EXCEPT ![n] = With(@, p, now)]
  /\ grown' = [grown EXCEPT ![n][p] = @ + bytes]
  /\ UNCHANGED <<shown, pidPrevious, pidRates, lastSample, now, of>>

(* i, or a click on an interface.                                             *)
Show(n) ==
  /\ n # shown /\ shown' = n
  /\ UNCHANGED <<pidIO, pidSeen, pidPrevious, pidRates, lastSample, now, grown, of>>

(* A tick, some time after the last: expire, then sampleAll.                  *)
kept(n) == {p \in DOMAIN pidIO[n] : now' - pidSeen[n][p] <= Idle}
previousAll(known) == DOMAIN pidPrevious \cup DOMAIN known \* mutant: forgotten processes stay
previousKept(known) == DOMAIN known
rateOf(total, old, seconds) == ((total + Space - old) % Space) \div seconds
Tick(passed) ==
  /\ now + passed <= MaxNow /\ now' = now + passed
  /\ pidIO' = [n \in Namespaces |-> [p \in kept(n) |-> pidIO[n][p]]]
  /\ pidSeen' = [n \in Namespaces |-> [p \in kept(n) |-> pidSeen[n][p]]]
  /\ LET seconds == IF lastSample = 0 THEN 0 ELSE now' - lastSample
         known == pidIO'[shown] IN
     IF seconds = 0
     THEN /\ lastSample' = (IF lastSample = 0 THEN now' ELSE lastSample)
          /\ grown' = [n \in Namespaces |-> [p \in Processes |-> IF p \in kept(n) THEN grown[n][p] ELSE 0]]
          /\ UNCHANGED <<pidPrevious, pidRates, of>>
     ELSE /\ pidRates' = [p \in previousKept(known) |->
                            IF p \in DOMAIN known THEN rateOf(known[p], Of(pidPrevious, p), seconds)
                            ELSE pidRates[p]]
          /\ pidPrevious' = [p \in previousKept(known) |-> IF p \in DOMAIN known THEN known[p] ELSE pidPrevious[p]]
          /\ lastSample' = now' /\ grown' = Nothing /\ of' = {shown}
  /\ UNCHANGED shown

Next ==
  \/ \E n \in Namespaces, p \in Processes, bytes \in Sizes : Report(n, p, bytes)
  \/ \E n \in Namespaces : Show(n)
  \/ \E passed \in 0..2 : Tick(passed)
Spec == Init /\ [][Next]_vars

(* A rate is what the process transferred in the namespace since the sample    *)
(* before, over the seconds since; processes that were forgotten and come back *)
(* do not make it wrap.  The first sample in another namespace is the          *)
(* exception: it subtracts the totals of the one before (sampleAll).          *)
ratesAreGrowth ==
  lastSample # 0 /\ lastSample' # lastSample /\ shown \in of =>
    /\ DOMAIN pidRates' = DOMAIN pidIO'[shown]
    /\ \A p \in DOMAIN pidRates' : pidRates'[p] = grown[shown][p] \div (lastSample' - lastSample)
=============================================================================
